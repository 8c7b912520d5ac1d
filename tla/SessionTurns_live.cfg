SPECIFICATION FairSpec
CONSTANTS
  s1 = s1
  s2 = s2
  s3 = s3
  c1 = c1
  c2 = c2
  w1 = w1
  m1 = m1
  m2 = m2
  m3 = m3
  m4 = m4
  a1 = a1
  None = None
  MsgOf <- MCMsgOf
  CardOf <- MCCardOf
  ApprovalOf <- MCApprovalOf
  Msgs = {m1, m2, m3, m4}
  Approvals = {a1}
  Sends = {s1, s2}
  Clicks = {c1}
  Wakes = {}
  Cap = 1
  ExpiryClicks = {}
  Continues = {}
  Elapsing = {"hold", "turnStale", "handover"}
  MayDelete = TRUE
  MayStop = FALSE
  MayDrain = FALSE
INVARIANTS DeleteSweepsAlone
PROPERTIES WaitingSendGoesOn
