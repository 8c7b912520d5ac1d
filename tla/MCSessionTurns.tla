--------------------------- MODULE MCSessionTurns ---------------------------
(* Small instances of SessionTurns for TLC. *)
EXTENDS SessionTurns, TLC

CONSTANTS s1, s2, s3, c1, c2, w1, m1, m2, m3, m4, a1

\* The reply to s1 raises the card the clicks answer: they register under its
\* message id.  Every other request has a message id of its own.
MCMsgOf ==
  [r \in Requests |-> CASE r \in Clicks \cup {s1} -> m1
                        [] r = s2 -> m2
                        [] r = s3 -> m3
                        [] r = w1 -> m4]
MCCardOf == [a \in Approvals |-> m1]
MCApprovalOf == [c \in Clicks |-> a1]
=============================================================================
