---------------------------- MODULE LocksProofs ----------------------------
(***************************************************************************)
(* The two queues for a lock.  Behind a sandbox's gate: who may take it     *)
(* away from a call that runs in it.  In a chat's zip state: one writer at  *)
(* a time, the user's last word stands, an agent that is gone holds nothing.*)
(* For any number of calls and turns, of chats and writers.                 *)
(***************************************************************************)
EXTENDS SandboxGate, ZipHolds, Naturals, SequenceTheorems, TLAPS

(* The gate of a sandbox.                                                   *)

Bys == Calls \cup Turns \cup {Nobody}
Listed == {"startListed", "endListed"}

\* The stage is the head's; what is being replaced is broken, and stays so.
HeadInStep ==
  /\ stage # "next" => ops # <<>>
  /\ stage \in {"replacing", "creating", "policy"} => ops[1].kind = "ensure"
  /\ stage = "checking" => ops[1].kind = "ifAbandoned"
  /\ stage = "removing" => ops[1].kind # "ensure"
  /\ stage = "replacing" => box = "broken"

\* Who uses the sandbox, or will, holds a lease; a removal that asks for leases works
\* only where nobody runs a command.
LeasesInStep ==
  /\ \A c \in Calls : call[c] \in {"ensuring", "executing"} => c \in leases
  /\ stage \in {"checking", "removing"} /\ ops[1].kind # "sweep" =>
       \A c \in Calls : call[c] # "executing"

\* An ensure that may be joined is the only one, and behind every removal.
OpenIsLast ==
  \A i \in DOMAIN ops : ops[i].open =>
    /\ ops[i].kind = "ensure"
    /\ \A j \in DOMAIN ops : ops[j].kind # "ensure" => j < i
    /\ \A j \in DOMAIN ops : ops[j].open => j = i

\* A call waits for one ensure, and it stands behind every sweep queued before the call
\* came; so nobody runs a command who came after a sweep that is still to be done.
CallsInLine ==
  /\ \A i \in DOMAIN ops : \A c \in ops[i].joined :
       /\ call[c] = "ensuring" /\ ops[i].kind = "ensure"
       /\ \A j \in DOMAIN ops : c \in ops[j].joined => j = i
  /\ \A c \in Calls : call[c] = "ensuring" =>
       \E i \in DOMAIN ops : c \in ops[i].joined
  /\ \A i, j \in DOMAIN ops : \A c \in ops[i].joined :
       ops[j].kind = "sweep" /\ c \notin ops[j].earlier => j < i
  /\ \A j \in DOMAIN ops : \A c \in Calls :
       ops[j].kind = "sweep" /\ call[c] = "executing" => c \in ops[j].earlier

\* Whom a removal is for awaits it, and it alone.
RemovalsAwaited ==
  \A i \in DOMAIN ops :
    /\ ops[i].kind = "ensure" => ops[i].by = Nobody
    /\ ops[i].by \in Calls => call[ops[i].by] = "removing"
    /\ ops[i].by \in Turns <=> ops[i].kind = "sweep"
    /\ ops[i].by \in Turns => turn[ops[i].by] \in Listed
    /\ ops[i].by # Nobody => \A j \in DOMAIN ops : ops[j].by = ops[i].by => j = i

\* Who is registered; and who took the chat, or came, while a sweep was under way.
TurnsInStep ==
  /\ \A t \in Turns : t \in present <=> turn[t] \notin {"idle", "done"}
  /\ holder # Nobody => holder \in present
  /\ \A u, t \in Turns : u # t =>
       /\ turn[u] \in {"ending", "endListed"} /\ holder = t => <<u, t>> \in late
       /\ turn[u] \in {"starting", "startListed"} /\ t \in present => <<u, t>> \in late

GateInv ==
  /\ GateTypeOK /\ HeadInStep /\ LeasesInStep /\ OpenIsLast /\ CallsInLine
  /\ RemovalsAwaited /\ TurnsInStep

-----------------------------------------------------------------------------
(* The gate's chain.                                                        *)

LEMMA Chain ==
  ASSUME NEW q \in Seq(Operations)
  PROVE  /\ Len(q) \in Nat /\ DOMAIN q = 1 .. Len(q) /\ \A i \in DOMAIN q : q[i] \in Operations
         /\ q # <<>> => /\ 1 \in DOMAIN q /\ Head(q) = q[1]
                        /\ Tail(q) \in Seq(Operations) /\ DOMAIN Tail(q) = 1 .. (Len(q) - 1)
                        /\ \A i \in DOMAIN Tail(q) : i + 1 \in DOMAIN q /\ Tail(q)[i] = q[i + 1]
<1>1. Len(q) \in Nat /\ DOMAIN q = 1 .. Len(q)
  BY LenProperties
<1>2. \A i \in DOMAIN q : q[i] \in Operations
  BY <1>1, ElementOfSeq
<1>3. ASSUME q # <<>>
      PROVE  /\ 1 \in DOMAIN q /\ Head(q) = q[1]
             /\ Tail(q) \in Seq(Operations) /\ DOMAIN Tail(q) = 1 .. (Len(q) - 1)
             /\ \A i \in DOMAIN Tail(q) : i + 1 \in DOMAIN q /\ Tail(q)[i] = q[i + 1]
  <2>1. Len(q) > 0
    BY <1>3, <1>1, EmptySeq
  <2>2. Head(q) = q[1] /\ Tail(q) \in Seq(Operations) /\ Len(Tail(q)) = Len(q) - 1
        /\ \A i \in 1 .. Len(Tail(q)) : Tail(q)[i] = q[i + 1]
    BY <1>3, HeadTailProperties
  <2>3. DOMAIN Tail(q) = 1 .. Len(Tail(q))
    BY <2>2, LenProperties
  <2> QED BY <1>1, <2>1, <2>2, <2>3
<1> QED BY <1>1, <1>2, <1>3

\* A removal goes to the end, and closes what could be joined.
LEMMA RemovalQueued ==
  ASSUME NEW q \in Seq(Operations), NEW kind \in Kinds, kind # "ensure", NEW who \in Bys,
         leases \subseteq Calls
  PROVE  LET after == EnqueueRemoval(q, kind, who)
             n == Len(q) + 1
         IN  /\ after \in Seq(Operations) /\ DOMAIN after = 1 .. n /\ Len(q) \in Nat
             /\ \A i \in 1 .. Len(q) :
                  /\ i \in DOMAIN q /\ after[i].kind = q[i].kind /\ after[i].by = q[i].by
                  /\ after[i].joined = q[i].joined /\ after[i].earlier = q[i].earlier
                  /\ ~after[i].open
             /\ after[n].kind = kind /\ after[n].by = who /\ after[n].joined = {}
             /\ after[n].earlier = leases /\ ~after[n].open
<1> DEFINE closed == [i \in DOMAIN q |-> [q[i] EXCEPT !.open = FALSE]]
           last == Operation(kind, who, {})
<1>1. Len(q) \in Nat /\ DOMAIN q = 1 .. Len(q) /\ \A i \in DOMAIN q : q[i] \in Operations
  BY Chain
<1>2. \A i \in DOMAIN q :
        /\ closed[i] \in Operations /\ closed[i].kind = q[i].kind /\ closed[i].by = q[i].by
        /\ closed[i].joined = q[i].joined /\ closed[i].earlier = q[i].earlier
        /\ closed[i].open = FALSE
  BY <1>1 DEF Operations
<1>3. closed \in Seq(Operations) /\ Len(closed) = Len(q)
  BY <1>1, <1>2
<1>4. /\ last \in Operations /\ last.kind = kind /\ last.by = who /\ last.joined = {}
      /\ last.earlier = leases /\ last.open = FALSE
  BY DEF Operation, Operations, Bys
<1>5. EnqueueRemoval(q, kind, who) = Append(closed, last)
  BY DEF EnqueueRemoval
<1> HIDE DEF closed, last
<1>6. /\ Append(closed, last) \in Seq(Operations) /\ Len(Append(closed, last)) = Len(q) + 1
      /\ \A i \in 1 .. Len(q) : Append(closed, last)[i] = closed[i]
      /\ Append(closed, last)[Len(q) + 1] = last
  BY <1>3, <1>4, AppendProperties
<1>7. DOMAIN Append(closed, last) = 1 .. (Len(q) + 1)
  BY <1>6, LenProperties
<1> QED BY <1>1, <1>2, <1>4, <1>5, <1>6, <1>7

\* A call joins the ensure that is open, or puts its own at the end.
LEMMA EnsureQueued ==
  ASSUME NEW q \in Seq(Operations), NEW c \in Calls, leases \subseteq Calls
  PROVE  LET after == JoinOrEnsure(q, c)
             n == Len(q) + 1
         IN  /\ after \in Seq(Operations) /\ Len(q) \in Nat
             /\ (\E i \in DOMAIN q : q[i].open) => DOMAIN after = DOMAIN q
             /\ (\A i \in DOMAIN q : ~q[i].open) => DOMAIN after = 1 .. n
             /\ \A i \in 1 .. Len(q) :
                  /\ i \in DOMAIN q /\ after[i].kind = q[i].kind /\ after[i].by = q[i].by
                  /\ q[i].open => after[i].joined = q[i].joined \cup {c}
                  /\ ~q[i].open => after[i].joined = q[i].joined
                  /\ after[i].earlier = q[i].earlier /\ after[i].open = q[i].open
             /\ (\A i \in DOMAIN q : ~q[i].open) =>
                  /\ after[n].kind = "ensure" /\ after[n].by = Nobody
                  /\ after[n].joined = {c} /\ after[n].open
<1>1. Len(q) \in Nat /\ DOMAIN q = 1 .. Len(q) /\ \A i \in DOMAIN q : q[i] \in Operations
  BY Chain
<1>2. CASE \E i \in DOMAIN q : q[i].open
  <2> DEFINE joined == [i \in DOMAIN q |->
                          IF q[i].open THEN [q[i] EXCEPT !.joined = @ \cup {c}] ELSE q[i]]
  <2>1. JoinOrEnsure(q, c) = joined
    BY <1>2 DEF JoinOrEnsure
  <2>2. \A i \in DOMAIN q :
          /\ joined[i] \in Operations /\ joined[i].kind = q[i].kind /\ joined[i].by = q[i].by
          /\ joined[i].joined = (IF q[i].open THEN q[i].joined \cup {c} ELSE q[i].joined)
          /\ joined[i].earlier = q[i].earlier /\ joined[i].open = q[i].open
    BY <1>1 DEF Operations
  <2>3. joined \in Seq(Operations) /\ DOMAIN joined = DOMAIN q
    BY <1>1, <2>2
  <2> HIDE DEF joined
  <2> QED BY <1>1, <1>2, <2>1, <2>2, <2>3
<1>3. CASE \A i \in DOMAIN q : ~q[i].open
  <2> DEFINE last == Operation("ensure", Nobody, {c})
  <2>1. JoinOrEnsure(q, c) = Append(q, last)
    BY <1>3 DEF JoinOrEnsure
  <2>2. /\ last \in Operations /\ last.kind = "ensure" /\ last.by = Nobody /\ last.joined = {c}
        /\ last.open
    BY DEF Operation, Operations, Kinds
  <2> HIDE DEF last
  <2>3. /\ Append(q, last) \in Seq(Operations) /\ Len(Append(q, last)) = Len(q) + 1
        /\ \A i \in 1 .. Len(q) : Append(q, last)[i] = q[i]
        /\ Append(q, last)[Len(q) + 1] = last
    BY <2>2, AppendProperties
  <2>4. DOMAIN Append(q, last) = 1 .. (Len(q) + 1)
    BY <2>3, LenProperties
  <2> QED BY <1>1, <1>3, <2>1, <2>2, <2>3, <2>4
<1> QED BY <1>2, <1>3

LEMMA GateConstants ==
  /\ \A c \in Calls : TurnOf[c] \in Turns /\ c \notin Turns /\ c # Nobody
  /\ \A t \in Turns : t \notin Calls /\ t # Nobody
BY GateAssumption

LEMMA GateInvInit == GateInit => GateInv
<1> SUFFICES ASSUME GateInit PROVE GateInv
  OBVIOUS
<1> USE GateConstants DEF GateInit
<1>1. GateTypeOK
  <2>1. ops \in Seq(Operations)
    BY EmptySeq
  <2>2. call \in [Calls -> CallPlaces] /\ turn \in [Turns -> TurnPlaces]
    BY DEF CallPlaces, TurnPlaces
  <2> QED BY <2>1, <2>2 DEF GateTypeOK, Boxes, Stages
<1>2. HeadInStep /\ LeasesInStep
  BY DEF HeadInStep, LeasesInStep
<1>3. OpenIsLast /\ CallsInLine /\ RemovalsAwaited
  BY DEF OpenIsLast, CallsInLine, RemovalsAwaited
<1>4. TurnsInStep
  BY DEF TurnsInStep
<1> QED BY <1>1, <1>2, <1>3, <1>4 DEF GateInv

-----------------------------------------------------------------------------
(* The gate's steps.                                                        *)

\* The head is done, whatever it was: the line moves up by one.
LEMMA HeadSettlesKeeps ==
  ASSUME GateInv, ops # <<>>, NEW ok \in BOOLEAN, HeadSettles(ok),
         box' \in Boxes, ChainUnchanged
  PROVE  GateInv'
<1> USE GateConstants DEF GateInv
<1> DEFINE op == Head(ops)
<1>1. /\ ops \in Seq(Operations) /\ Len(ops) \in Nat /\ DOMAIN ops = 1 .. Len(ops)
      /\ 1 \in DOMAIN ops /\ op = ops[1] /\ op \in Operations
      /\ Tail(ops) \in Seq(Operations) /\ DOMAIN Tail(ops) = 1 .. (Len(ops) - 1)
      /\ \A i \in DOMAIN Tail(ops) : i + 1 \in DOMAIN ops /\ Tail(ops)[i] = ops[i + 1]
  <2>1. ops \in Seq(Operations)
    BY DEF GateTypeOK
  <2> QED BY <2>1, Chain
<1>2. /\ ops' = Tail(ops) /\ stage' = "next" /\ UNCHANGED <<owner, holder, present, late>>
      /\ leases' = IF ok THEN leases ELSE leases \ op.joined
      /\ call' = [c \in Calls |->
                    IF c \in op.joined THEN IF ok THEN "executing" ELSE "done"
                    ELSE IF c = op.by THEN "done" ELSE call[c]]
      /\ used' \in BOOLEAN /\ pruned' \in {"idle", "listed", "queued"}
      /\ turn' = [t \in Turns |->
                    IF t # op.by THEN turn[t]
                    ELSE IF turn[t] = "startListed" THEN "running" ELSE "leaving"]
  BY DEF HeadSettles, ChainUnchanged, GateTypeOK
<1> HIDE DEF op
<1>3. op.joined \subseteq Calls /\ \A c \in op.joined : call[c] = "ensuring" /\ c \in leases
  BY <1>1 DEF Operations, CallsInLine, LeasesInStep
<1>4. \A c \in Calls : c = op.by => call[c] = "removing"
  BY <1>1 DEF RemovalsAwaited
<1>5. \A t \in Turns : t = op.by => turn[t] \in Listed
  BY <1>1 DEF RemovalsAwaited
<1>6. GateTypeOK'
  BY <1>1, <1>2 DEF GateTypeOK, CallPlaces, TurnPlaces, Stages
<1>7. HeadInStep'
  BY <1>2 DEF HeadInStep
<1>8. \A c \in Calls : /\ call'[c] = "ensuring" => call[c] = "ensuring" /\ c \notin op.joined
                       /\ call'[c] = "executing" => call[c] = "executing" \/ (ok /\ c \in op.joined)
  BY <1>2
<1>9. LeasesInStep'
  BY <1>2, <1>3, <1>8 DEF LeasesInStep
<1>10. \A i \in DOMAIN ops' : i \in Nat /\ i + 1 \in DOMAIN ops /\ ops'[i] = ops[i + 1]
  BY <1>1, <1>2
<1>11. OpenIsLast'
  BY <1>10 DEF OpenIsLast
<1>12. CallsInLine'
  <2>1. \A i \in DOMAIN ops' : \A c \in ops'[i].joined :
          c \in Calls /\ c \notin op.joined /\ c # op.by /\ call[c] = "ensuring"
    <3> SUFFICES ASSUME NEW i \in DOMAIN ops', NEW c \in ops'[i].joined
                 PROVE  c \in Calls /\ c \notin op.joined /\ c # op.by /\ call[c] = "ensuring"
      OBVIOUS
    <3>1. i + 1 \in DOMAIN ops /\ c \in ops[i + 1].joined /\ i + 1 # 1
      BY <1>10
    <3>2. call[c] = "ensuring" /\ c \notin op.joined
      BY <1>1, <3>1 DEF CallsInLine
    <3>3. ops[i + 1] \in Operations
      BY <1>1, <3>1, Chain
    <3> QED BY <1>4, <3>1, <3>2, <3>3 DEF Operations
  <2>2. \A i \in DOMAIN ops' : \A c \in ops'[i].joined : call'[c] = "ensuring"
    BY <1>2, <2>1
  <2>3. \A i \in DOMAIN ops' : \A c \in ops'[i].joined :
          /\ ops'[i].kind = "ensure"
          /\ \A j \in DOMAIN ops' : c \in ops'[j].joined => j = i
    BY <1>10 DEF CallsInLine
  <2>4. \A c \in Calls : call'[c] = "ensuring" => \E i \in DOMAIN ops' : c \in ops'[i].joined
    <3> SUFFICES ASSUME NEW c \in Calls, call[c] = "ensuring", c \notin op.joined
                 PROVE  \E i \in DOMAIN ops' : c \in ops'[i].joined
      BY <1>8
    <3>1. PICK i \in DOMAIN ops : c \in ops[i].joined
      BY DEF CallsInLine
    <3>2. i # 1
      BY <1>1, <3>1
    <3>3. i - 1 \in DOMAIN ops'
      BY <1>1, <1>2, <3>2
    <3>4. ops'[i - 1] = ops[(i - 1) + 1]
      BY <1>10, <3>3
    <3>5. (i - 1) + 1 = i
      BY <1>1
    <3> QED BY <3>1, <3>3, <3>4, <3>5
  <2>5. \A i, j \in DOMAIN ops' : \A c \in ops'[i].joined :
          ops'[j].kind = "sweep" /\ c \notin ops'[j].earlier => j < i
    <3> SUFFICES ASSUME NEW i \in DOMAIN ops', NEW j \in DOMAIN ops', NEW c \in ops'[i].joined,
                        ops'[j].kind = "sweep", c \notin ops'[j].earlier
                 PROVE  j < i
      OBVIOUS
    <3>1. j + 1 < i + 1
      BY <1>10 DEF CallsInLine
    <3> QED BY <1>10, <3>1
  <2>6. \A j \in DOMAIN ops' : \A c \in Calls :
          ops'[j].kind = "sweep" /\ call'[c] = "executing" => c \in ops'[j].earlier
    <3> SUFFICES ASSUME NEW j \in DOMAIN ops', NEW c \in Calls,
                        ops'[j].kind = "sweep", call'[c] = "executing"
                 PROVE  c \in ops'[j].earlier
      OBVIOUS
    <3>1. j + 1 \in DOMAIN ops /\ ops'[j] = ops[j + 1] /\ ~(j + 1 < 1)
      BY <1>10
    <3>2. CASE call[c] = "executing"
      BY <3>1, <3>2 DEF CallsInLine
    <3>3. CASE c \in op.joined
      BY <1>1, <3>1, <3>3 DEF CallsInLine
    <3> QED BY <1>8, <3>2, <3>3
  <2> QED BY <2>2, <2>3, <2>4, <2>5, <2>6 DEF CallsInLine
<1>13. RemovalsAwaited'
  <2> SUFFICES ASSUME NEW i \in DOMAIN ops'
               PROVE  /\ ops'[i].kind = "ensure" => ops'[i].by = Nobody
                      /\ ops'[i].by \in Calls => call'[ops'[i].by] = "removing"
                      /\ ops'[i].by \in Turns <=> ops'[i].kind = "sweep"
                      /\ ops'[i].by \in Turns => turn'[ops'[i].by] \in Listed
                      /\ ops'[i].by # Nobody =>
                           \A j \in DOMAIN ops' : ops'[j].by = ops'[i].by => j = i
    BY DEF RemovalsAwaited
  <2>1. i + 1 \in DOMAIN ops /\ ops'[i] = ops[i + 1] /\ i + 1 # 1
    BY <1>10
  <2>2. ops[i + 1].by # Nobody => ops[i + 1].by # op.by
    BY <1>1, <2>1 DEF RemovalsAwaited
  <2>3. ops'[i].by \in Calls => call'[ops'[i].by] = "removing"
    <3> SUFFICES ASSUME ops'[i].by \in Calls PROVE call'[ops'[i].by] = "removing"
      OBVIOUS
    <3>1. call[ops'[i].by] = "removing" /\ ops'[i].by # op.by
      BY <2>1, <2>2 DEF RemovalsAwaited
    <3>2. ops'[i].by \notin op.joined
      BY <1>3, <3>1
    <3> QED BY <1>2, <3>1, <3>2
  <2>4. ops'[i].by \in Turns => turn'[ops'[i].by] \in Listed
    BY <1>2, <2>1, <2>2 DEF RemovalsAwaited
  <2>5. ops'[i].by # Nobody => \A j \in DOMAIN ops' : ops'[j].by = ops'[i].by => j = i
    BY <1>10, <2>1 DEF RemovalsAwaited
  <2> QED BY <2>1, <2>3, <2>4, <2>5 DEF RemovalsAwaited
<1>14. TurnsInStep'
  <2>1. \A t \in Turns : turn'[t] = turn[t]
          \/ (turn[t] \in Listed /\ turn'[t] \in {"running", "leaving"})
    BY <1>2, <1>5 DEF GateTypeOK
  <2> QED BY <1>2, <2>1 DEF TurnsInStep, Listed
<1> QED BY <1>6, <1>7, <1>9, <1>11, <1>12, <1>13, <1>14

\* The head goes on to its next stage.
LEMMA GoKeeps ==
  ASSUME GateInv, ops # <<>>, NEW at \in Stages, Go(at), box' \in Boxes, ChainUnchanged,
         at \in {"replacing", "creating", "policy"} => ops[1].kind = "ensure",
         at = "checking" => ops[1].kind = "ifAbandoned",
         at = "removing" => ops[1].kind # "ensure",
         at = "replacing" => box' = "broken",
         at \in {"checking", "removing"} /\ ops[1].kind # "sweep" =>
           \A c \in Calls : call[c] # "executing"
  PROVE  GateInv'
<1> USE DEF GateInv, Go, ChainUnchanged
<1>1. GateTypeOK'
  BY DEF GateTypeOK
<1>2. HeadInStep' /\ LeasesInStep'
  BY DEF HeadInStep, LeasesInStep
<1>3. OpenIsLast' /\ CallsInLine'
  BY DEF OpenIsLast, CallsInLine
<1>4. RemovalsAwaited' /\ TurnsInStep'
  BY DEF RemovalsAwaited, TurnsInStep
<1> QED BY <1>1, <1>2, <1>3, <1>4

LEMMA GateStepKeeps == GateInv /\ GateStep => GateInv'
<1> SUFFICES ASSUME GateInv, GateStep PROVE GateInv'
  OBVIOUS
<1>1. /\ ops # <<>> => Head(ops) = ops[1] /\ ops[1].kind \in Kinds
      /\ box \in Boxes
  <2>1. ops \in Seq(Operations) /\ box \in Boxes
    BY DEF GateInv, GateTypeOK
  <2> QED BY <2>1, Chain DEF Operations
<1>2. CASE EnsureLooks
  BY <1>1, <1>2, HeadSettlesKeeps, GoKeeps DEF EnsureLooks, HeadIs, Stages, Boxes
<1>3. CASE EnsureReplaces
  BY <1>1, <1>3, HeadSettlesKeeps, GoKeeps DEF EnsureReplaces, HeadIs, Stages, Boxes
<1>4. CASE EnsureCreates
  BY <1>1, <1>4, HeadSettlesKeeps, GoKeeps DEF EnsureCreates, HeadIs, Stages, Boxes
<1>5. CASE EnsureEnds
  BY <1>1, <1>5, HeadSettlesKeeps DEF EnsureEnds, HeadIs
<1>6. ASSUME NEW kind \in Kinds, RemovalStarts(kind) PROVE GateInv'
  <2>1. kind # "ensure" /\ ops # <<>> /\ ops[1].kind = kind /\ box' = box /\ ChainUnchanged
    BY <1>1, <1>6 DEF RemovalStarts, HeadIs
  <2>2. CASE kind # "sweep" /\ leases # {}
    BY <1>1, <1>6, <2>1, <2>2, HeadSettlesKeeps DEF RemovalStarts, TurnComes
  <2>3. CASE kind = "sweep" \/ leases = {}
    <3>1. kind # "sweep" => \A c \in Calls : call[c] # "executing"
      BY <2>3 DEF GateInv, LeasesInStep
    <3>2. Go(IF kind = "ifAbandoned" THEN "checking" ELSE "removing")
      BY <1>6, <2>3 DEF RemovalStarts, TurnComes
    <3> QED BY <1>1, <2>1, <3>1, <3>2, GoKeeps DEF Stages
  <2> QED BY <2>2, <2>3
<1>7. CASE StillAbandoned
  <2>1. /\ ops # <<>> /\ ops[1].kind = "ifAbandoned" /\ box' = box /\ ChainUnchanged
        /\ \A c \in Calls : call[c] # "executing"
    BY <1>1, <1>7 DEF StillAbandoned, HeadIs, GateInv, LeasesInStep
  <2> QED BY <1>1, <1>7, <2>1, HeadSettlesKeeps, GoKeeps DEF StillAbandoned, Stages
<1>8. CASE Removes
  BY <1>1, <1>8, HeadSettlesKeeps DEF Removes, Boxes
<1> QED BY <1>2, <1>3, <1>4, <1>5, <1>6, <1>7, <1>8 DEF GateStep

-----------------------------------------------------------------------------
(* The calls, the sandbox by itself, the prune and the turns.               *)

\* A removal joins the chain, for whom it is for and nobody else.
LEMMA RemovalJoins ==
  ASSUME GateInv, NEW kind \in Kinds, kind # "ensure", NEW who \in Bys,
         ops' = EnqueueRemoval(ops, kind, who), UNCHANGED <<owner, box, stage>>,
         leases' \in SUBSET leases, call' \in [Calls -> CallPlaces],
         turn' \in [Turns -> TurnPlaces],
         \A c \in Calls : (call'[c] = call[c] /\ c # who /\ (c \in leases => c \in leases'))
                          \/ (call[c] = "executing" /\ c = who /\ call'[c] = "removing"),
         \A t \in Turns : (turn'[t] = turn[t] /\ t # who)
                          \/ (turn[t] \notin Listed /\ t = who /\ turn'[t] \in Listed),
         who \in Turns <=> kind = "sweep"
  PROVE  /\ ops' \in Seq(Operations)
         /\ HeadInStep' /\ LeasesInStep' /\ OpenIsLast' /\ CallsInLine' /\ RemovalsAwaited'
<1> USE GateConstants DEF GateInv
<1> DEFINE n == Len(ops) + 1
<1>1. /\ ops' \in Seq(Operations) /\ DOMAIN ops' = 1 .. n /\ n \in Nat
      /\ \A i \in 1 .. Len(ops) :
           /\ i \in DOMAIN ops /\ ops'[i].kind = ops[i].kind /\ ops'[i].by = ops[i].by
           /\ ops'[i].joined = ops[i].joined /\ ops'[i].earlier = ops[i].earlier
           /\ ~ops'[i].open
      /\ ops'[n].kind = kind /\ ops'[n].by = who /\ ops'[n].joined = {}
      /\ ops'[n].earlier = leases /\ ~ops'[n].open
  BY RemovalQueued DEF GateTypeOK
<1>2. ops \in Seq(Operations) /\ Len(ops) \in Nat /\ DOMAIN ops = 1 .. Len(ops)
       /\ (ops # <<>> => 1 \in DOMAIN ops) /\ \A i \in DOMAIN ops : ops[i] \in Operations
  <2>1. ops \in Seq(Operations)
    BY DEF GateTypeOK
  <2> QED BY <2>1, Chain
<1>3. ops' # <<>>
  BY <1>1, <1>2
<1> HIDE DEF n
<1>4. \A i \in DOMAIN ops' : i = n \/ (i \in DOMAIN ops /\ i < n /\ i \in Nat)
  BY <1>1, <1>2 DEF n
<1>5. n \notin DOMAIN ops /\ n \in DOMAIN ops' /\ DOMAIN ops \subseteq DOMAIN ops'
  BY <1>1, <1>2 DEF n
<1>6. \A i \in DOMAIN ops :
        /\ ops'[i].kind = ops[i].kind /\ ops'[i].by = ops[i].by
        /\ ops'[i].joined = ops[i].joined /\ ops'[i].earlier = ops[i].earlier
        /\ ~ops'[i].open /\ i < n /\ i \in Nat
  BY <1>1, <1>2 DEF n
<1>7. HeadInStep' /\ LeasesInStep'
  <2>1. stage # "next" => ops'[1].kind = ops[1].kind
    BY <1>2, <1>6 DEF HeadInStep
  <2>2. \A c \in Calls : call'[c] \in {"ensuring", "executing"} =>
          call[c] = call'[c] /\ (c \in leases => c \in leases')
    OBVIOUS
  <2> QED BY <1>3, <2>1, <2>2 DEF HeadInStep, LeasesInStep
<1>8. OpenIsLast'
  BY <1>1, <1>4, <1>6 DEF OpenIsLast
<1>9. CallsInLine'
  <2>1. \A i \in DOMAIN ops' : \A c \in ops'[i].joined :
          /\ i \in DOMAIN ops /\ c \in ops[i].joined /\ c \in Calls /\ c \in leases
          /\ call[c] = "ensuring" /\ call'[c] = "ensuring"
    <3> SUFFICES ASSUME NEW i \in DOMAIN ops', NEW c \in ops'[i].joined
                 PROVE  /\ i \in DOMAIN ops /\ c \in ops[i].joined
                        /\ c \in Calls /\ c \in leases
                        /\ call[c] = "ensuring" /\ call'[c] = "ensuring"
      OBVIOUS
    <3>1. i \in DOMAIN ops /\ c \in ops[i].joined
      BY <1>1, <1>4, <1>6
    <3>2. c \in Calls
      BY <1>2, <3>1 DEF Operations
    <3>3. call[c] = "ensuring"
      BY <3>1 DEF CallsInLine
    <3> QED BY <3>1, <3>2, <3>3 DEF LeasesInStep
  <2>2. \A i \in DOMAIN ops' : \A c \in ops'[i].joined :
          /\ call'[c] = "ensuring" /\ ops'[i].kind = "ensure"
          /\ \A j \in DOMAIN ops' : c \in ops'[j].joined => j = i
    BY <1>6, <2>1 DEF CallsInLine
  <2>3. \A c \in Calls : call'[c] = "ensuring" => \E i \in DOMAIN ops' : c \in ops'[i].joined
    BY <1>5, <1>6 DEF CallsInLine
  <2>4. \A i, j \in DOMAIN ops' : \A c \in ops'[i].joined :
          ops'[j].kind = "sweep" /\ c \notin ops'[j].earlier => j < i
    BY <1>1, <1>4, <1>6, <2>1 DEF CallsInLine
  <2>5. \A j \in DOMAIN ops' : \A c \in Calls :
          ops'[j].kind = "sweep" /\ call'[c] = "executing" => c \in ops'[j].earlier
    <3>1. \A c \in Calls : call'[c] = "executing" => call[c] = "executing" /\ c \in leases
      BY DEF LeasesInStep
    <3> QED BY <1>1, <1>4, <1>6, <3>1 DEF CallsInLine
  <2> QED BY <2>2, <2>3, <2>4, <2>5 DEF CallsInLine
<1>10. RemovalsAwaited'
  <2>1. \A i \in DOMAIN ops : who # Nobody => ops[i].by # who
    BY DEF RemovalsAwaited, Bys
  <2>2. ASSUME NEW i \in DOMAIN ops
        PROVE  /\ ops'[i].kind = "ensure" => ops'[i].by = Nobody
               /\ ops'[i].by \in Calls => call'[ops'[i].by] = "removing"
               /\ ops'[i].by \in Turns <=> ops'[i].kind = "sweep"
               /\ ops'[i].by \in Turns => turn'[ops'[i].by] \in Listed
    BY <1>6, <2>1, <2>2 DEF RemovalsAwaited
  <2>3. /\ ops'[n].by \in Calls => call'[ops'[n].by] = "removing"
        /\ ops'[n].by \in Turns => turn'[ops'[n].by] \in Listed
    BY <1>1
  <2>4. \A i, j \in DOMAIN ops' : ops'[i].by # Nobody /\ ops'[j].by = ops'[i].by => j = i
    BY <1>1, <1>4, <1>6, <2>1 DEF RemovalsAwaited
  <2> QED BY <1>1, <1>4, <2>2, <2>3, <2>4 DEF RemovalsAwaited
<1> QED BY <1>1, <1>7, <1>8, <1>9, <1>10

\* A call's ensure: there is one, k, that it joins or brings, and everything else stays.
LEMMA EnsureJoins ==
  ASSUME GateInv, NEW c \in Calls, ops' = JoinOrEnsure(ops, c)
  PROVE  /\ ops' \in Seq(Operations) /\ ops' # <<>> /\ DOMAIN ops \subseteq DOMAIN ops'
         /\ ops # <<>> => 1 \in DOMAIN ops /\ ops'[1].kind = ops[1].kind
         /\ \E k \in DOMAIN ops' :
              /\ ops'[k].kind = "ensure" /\ ops'[k].by = Nobody
              /\ \A d \in ops'[k].joined : (d = c) \/ (k \in DOMAIN ops /\ d \in ops[k].joined)
              /\ c \in ops'[k].joined
              /\ k \in DOMAIN ops => ops[k].joined \subseteq ops'[k].joined
              /\ \A i \in DOMAIN ops' : i # k =>
                   /\ i \in DOMAIN ops /\ ops'[i].kind = ops[i].kind /\ ops'[i].by = ops[i].by
                   /\ ops'[i].joined = ops[i].joined /\ ops'[i].earlier = ops[i].earlier
                   /\ ~ops'[i].open
              /\ \A j \in DOMAIN ops' : ops'[j].kind # "ensure" => j < k
<1> DEFINE n == Len(ops) + 1
<1>1. ops \in Seq(Operations) /\ leases \subseteq Calls /\ OpenIsLast /\ RemovalsAwaited
  BY DEF GateInv, GateTypeOK
<1>2. Len(ops) \in Nat /\ DOMAIN ops = 1 .. Len(ops) /\ (ops # <<>> => 1 \in DOMAIN ops)
  BY <1>1, Chain
<1>3. /\ ops' \in Seq(Operations)
      /\ (\E i \in DOMAIN ops : ops[i].open) => DOMAIN ops' = DOMAIN ops
      /\ (\A i \in DOMAIN ops : ~ops[i].open) => DOMAIN ops' = 1 .. n
      /\ \A i \in 1 .. Len(ops) :
           /\ i \in DOMAIN ops /\ ops'[i].kind = ops[i].kind /\ ops'[i].by = ops[i].by
           /\ ops[i].open => ops'[i].joined = ops[i].joined \cup {c}
           /\ ~ops[i].open => ops'[i].joined = ops[i].joined
           /\ ops'[i].earlier = ops[i].earlier /\ ops'[i].open = ops[i].open
      /\ (\A i \in DOMAIN ops : ~ops[i].open) =>
           /\ ops'[n].kind = "ensure" /\ ops'[n].by = Nobody
           /\ ops'[n].joined = {c} /\ ops'[n].open
  BY <1>1, EnsureQueued
<1>4. DOMAIN ops \subseteq DOMAIN ops'
  BY <1>2, <1>3
<1>5. CASE \E i \in DOMAIN ops : ops[i].open
  <2>1. PICK k \in DOMAIN ops : ops[k].open
    BY <1>5
  <2>2. /\ ops[k].kind = "ensure" /\ ops[k].by = Nobody
        /\ \A j \in DOMAIN ops : ops[j].kind # "ensure" => j < k
        /\ \A j \in DOMAIN ops : ops[j].open => j = k
    BY <1>1, <2>1 DEF OpenIsLast, RemovalsAwaited
  <2>3. DOMAIN ops' = DOMAIN ops
    BY <1>3, <1>5
  <2>4. ops'[k].joined = ops[k].joined \cup {c}
    BY <1>2, <1>3, <2>1
  <2>5. ops'[k].kind = "ensure" /\ ops'[k].by = Nobody
    BY <1>2, <1>3, <2>2
  <2>6. \A i \in DOMAIN ops : i # k =>
          /\ ops'[i].kind = ops[i].kind /\ ops'[i].by = ops[i].by
          /\ ops'[i].joined = ops[i].joined /\ ops'[i].earlier = ops[i].earlier
          /\ ~ops'[i].open
    BY <1>2, <1>3, <2>2
  <2>7. \A j \in DOMAIN ops : ops'[j].kind # "ensure" => j < k
    BY <2>2, <2>5, <2>6
  <2>8. ops # <<>> => 1 \in DOMAIN ops /\ ops'[1].kind = ops[1].kind
    BY <1>2, <1>3
  <2> HIDE DEF n
  <2>9. ops' # <<>>
    BY <2>3
  <2> QED BY <1>3, <2>3, <2>4, <2>5, <2>6, <2>7, <2>8, <2>9
<1>6. CASE \A i \in DOMAIN ops : ~ops[i].open
  <2>1. DOMAIN ops' = 1 .. n
    BY <1>3, <1>6
  <2>2. /\ n \in DOMAIN ops' /\ n \notin DOMAIN ops
        /\ \A i \in DOMAIN ops' : i # n => i \in DOMAIN ops /\ i < n
    BY <1>2, <2>1
  <2>3. \A i \in DOMAIN ops' : i # n =>
          /\ ops'[i].kind = ops[i].kind /\ ops'[i].by = ops[i].by
          /\ ops'[i].joined = ops[i].joined /\ ops'[i].earlier = ops[i].earlier
          /\ ~ops'[i].open
    BY <1>2, <1>3, <1>6, <2>2
  <2>4. ops # <<>> => 1 \in DOMAIN ops /\ ops'[1].kind = ops[1].kind
    BY <1>2, <1>3
  <2>5. ops'[n].kind = "ensure" /\ ops'[n].by = Nobody /\ ops'[n].joined = {c}
    BY <1>3, <1>6
  <2> HIDE DEF n
  <2>6. ops' # <<>>
    BY <2>2
  <2> QED BY <1>3, <1>4, <2>2, <2>3, <2>4, <2>5, <2>6
<1> QED BY <1>5, <1>6

LEMMA CallBeginsKeeps ==
  ASSUME GateInv, NEW c \in Calls, CallBegins(c)
  PROVE  GateInv'
<1>1. ops' = JoinOrEnsure(ops, c)
  BY DEF CallBegins
<1>2. /\ ops' \in Seq(Operations) /\ ops' # <<>> /\ DOMAIN ops \subseteq DOMAIN ops'
      /\ ops # <<>> => 1 \in DOMAIN ops /\ ops'[1].kind = ops[1].kind
  BY <1>1, EnsureJoins
<1>3. PICK k \in DOMAIN ops' :
        /\ ops'[k].kind = "ensure" /\ ops'[k].by = Nobody
        /\ \A d \in ops'[k].joined : (d = c) \/ (k \in DOMAIN ops /\ d \in ops[k].joined)
        /\ c \in ops'[k].joined
        /\ k \in DOMAIN ops => ops[k].joined \subseteq ops'[k].joined
        /\ \A i \in DOMAIN ops' : i # k =>
             /\ i \in DOMAIN ops /\ ops'[i].kind = ops[i].kind /\ ops'[i].by = ops[i].by
             /\ ops'[i].joined = ops[i].joined /\ ops'[i].earlier = ops[i].earlier
             /\ ~ops'[i].open
        /\ \A j \in DOMAIN ops' : ops'[j].kind # "ensure" => j < k
  BY <1>1, EnsureJoins
<1> USE GateConstants DEF GateInv
<1>4. /\ call[c] = "idle" /\ leases' = leases \cup {c} /\ turn' = turn
      /\ \A d \in Calls : call'[d] = IF d = c THEN "ensuring" ELSE call[d]
      /\ UNCHANGED <<owner, box, stage, used, pruned, holder, present, late>>
  BY DEF CallBegins, turnVars, GateTypeOK
<1>5. GateTypeOK'
  <2>1. call' \in [Calls -> CallPlaces]
    BY DEF CallBegins, GateTypeOK, CallPlaces
  <2> QED BY <1>2, <1>4, <2>1 DEF GateTypeOK
<1>6. HeadInStep' /\ LeasesInStep'
  BY <1>2, <1>4 DEF HeadInStep, LeasesInStep
<1>7. OpenIsLast'
  BY <1>3 DEF OpenIsLast
<1>8. CallsInLine'
  <2>1. \A i \in DOMAIN ops : c \notin ops[i].joined
    BY <1>4 DEF CallsInLine
  <2>2. \A i \in DOMAIN ops' : \A d \in ops'[i].joined :
          \/ d = c /\ i = k
          \/ d # c /\ i \in DOMAIN ops /\ d \in ops[i].joined
    BY <1>3, <2>1
  <2>3. \A i \in DOMAIN ops : ops[i].joined \subseteq Calls
    <3>1. ops \in Seq(Operations)
      BY DEF GateTypeOK
    <3> QED BY <3>1, Chain DEF Operations
  <2>4. \A i \in DOMAIN ops' : \A d \in ops'[i].joined :
          /\ call'[d] = "ensuring" /\ ops'[i].kind = "ensure"
          /\ \A j \in DOMAIN ops' : d \in ops'[j].joined => j = i
    BY <1>3, <1>4, <2>2, <2>3 DEF CallsInLine
  <2>5. \A d \in Calls : call'[d] = "ensuring" => \E i \in DOMAIN ops' : d \in ops'[i].joined
    BY <1>2, <1>3, <1>4 DEF CallsInLine
  <2>6. \A i, j \in DOMAIN ops' : \A d \in ops'[i].joined :
          ops'[j].kind = "sweep" /\ d \notin ops'[j].earlier => j < i
    BY <1>3, <2>2 DEF CallsInLine
  <2>7. \A j \in DOMAIN ops' : \A d \in Calls :
          ops'[j].kind = "sweep" /\ call'[d] = "executing" => d \in ops'[j].earlier
    BY <1>3, <1>4 DEF CallsInLine
  <2> QED BY <2>4, <2>5, <2>6, <2>7 DEF CallsInLine
<1>9. RemovalsAwaited'
  <2>1. \A i \in DOMAIN ops : ops[i].by # c
    BY <1>4 DEF RemovalsAwaited
  <2> QED BY <1>3, <1>4, <2>1 DEF RemovalsAwaited
<1>10. TurnsInStep'
  BY <1>4 DEF TurnsInStep
<1> QED BY <1>5, <1>6, <1>7, <1>8, <1>9, <1>10

\* The chain stays as it is, and so does everybody who waits for its operations.
LEMMA ChainStays ==
  ASSUME GateInv, UNCHANGED <<ops, stage>>,
         box = "broken" => box' = "broken",
         \A c \in Calls : (call'[c] = call[c] /\ (c \in leases => c \in leases'))
                          \/ (call[c] = "executing" /\ call'[c] = "done"),
         \A t \in Turns : turn[t] \in Listed => turn'[t] = turn[t]
  PROVE  HeadInStep' /\ LeasesInStep' /\ OpenIsLast' /\ CallsInLine' /\ RemovalsAwaited'
<1> USE DEF GateInv
<1>1. HeadInStep' /\ LeasesInStep'
  BY DEF HeadInStep, LeasesInStep
<1>2. OpenIsLast'
  BY DEF OpenIsLast
<1>3. CallsInLine'
  <2>1. \A i \in DOMAIN ops : ops[i].joined \subseteq Calls
    <3>1. ops \in Seq(Operations)
      BY DEF GateTypeOK
    <3> QED BY <3>1, Chain DEF Operations
  <2> QED BY <2>1 DEF CallsInLine
<1>4. RemovalsAwaited'
  BY DEF RemovalsAwaited
<1> QED BY <1>1, <1>2, <1>3, <1>4

LEMMA CallEndsKeeps ==
  ASSUME GateInv, NEW c \in Calls, CallEnds(c)
  PROVE  GateInv'
<1> USE GateConstants
<1>1. /\ call[c] = "executing" /\ leases' = leases \ {c} /\ turn' = turn
      /\ UNCHANGED <<owner, box, stage, used, pruned, holder, present, late>>
      /\ turn \in [Turns -> TurnPlaces] /\ call \in [Calls -> CallPlaces]
  BY DEF CallEnds, turnVars, GateInv, GateTypeOK
<1>2. TurnsInStep'
  BY <1>1 DEF TurnsInStep, GateInv
<1>3. CASE owner = "nobody"
  <2>1. ops' = EnqueueRemoval(ops, "ifIdle", c) /\ call' = [call EXCEPT ![c] = "removing"]
    BY <1>3 DEF CallEnds
  <2>2. call' \in [Calls -> CallPlaces] /\ c \in Bys /\ c \notin Turns
    BY <1>1, <2>1 DEF CallPlaces, Bys
  <2>3. /\ ops' \in Seq(Operations)
        /\ HeadInStep' /\ LeasesInStep' /\ OpenIsLast' /\ CallsInLine' /\ RemovalsAwaited'
    <3>1. \A d \in Calls : (call'[d] = call[d] /\ d # c /\ (d \in leases => d \in leases'))
                           \/ (call[d] = "executing" /\ d = c /\ call'[d] = "removing")
      BY <1>1, <2>1
    <3>2. \A t \in Turns : turn'[t] = turn[t] /\ t # c
      BY <1>1, <2>2
    <3>3. "ifIdle" \in Kinds /\ leases' \in SUBSET leases /\ turn' \in [Turns -> TurnPlaces]
      BY <1>1 DEF Kinds
    <3>4. UNCHANGED <<owner, box, stage>>
      BY <1>1
    <3> QED BY <2>1, <2>2, <3>1, <3>2, <3>3, <3>4, RemovalJoins
  <2>4. GateTypeOK'
    BY <1>1, <2>2, <2>3 DEF GateTypeOK, GateInv
  <2> QED BY <1>2, <2>3, <2>4 DEF GateInv
<1>4. CASE owner # "nobody"
  <2>1. ops' = ops /\ call' = [call EXCEPT ![c] = "done"]
    BY <1>4 DEF CallEnds
  <2>2. call' \in [Calls -> CallPlaces]
    BY <1>1, <2>1 DEF CallPlaces
  <2>3. HeadInStep' /\ LeasesInStep' /\ OpenIsLast' /\ CallsInLine' /\ RemovalsAwaited'
    BY <1>1, <2>1, ChainStays
  <2>4. GateTypeOK'
    BY <1>1, <2>1, <2>2 DEF GateTypeOK, GateInv
  <2> QED BY <1>2, <2>3, <2>4 DEF GateInv
<1> QED BY <1>3, <1>4

LEMMA BoxAndPruneKeep ==
  ASSUME GateInv, BoxAges \/ CommandStarts \/ PruneLists \/ PruneQueues \/ LockGoes
  PROVE  GateInv'
<1> USE GateConstants
<1>1. CASE BoxAges \/ CommandStarts
  <2> USE <1>1 DEF BoxAges, CommandStarts, callVars, turnVars
  <2>0. /\ box' \in Boxes /\ UNCHANGED <<owner, ops, stage, used, pruned, leases, call>>
        /\ UNCHANGED <<holder, present, turn, late>>
    BY DEF Boxes
  <2>1. GateTypeOK' /\ TurnsInStep'
    BY <2>0 DEF GateInv, GateTypeOK, TurnsInStep
  <2>2. HeadInStep' /\ LeasesInStep' /\ OpenIsLast' /\ CallsInLine' /\ RemovalsAwaited'
    BY ChainStays
  <2> QED BY <2>1, <2>2 DEF GateInv
<1>2. CASE PruneLists
  <2> USE <1>2 DEF PruneLists, callVars, turnVars
  <2>1. GateTypeOK' /\ TurnsInStep'
    BY DEF GateInv, GateTypeOK, TurnsInStep
  <2>2. HeadInStep' /\ LeasesInStep' /\ OpenIsLast' /\ CallsInLine' /\ RemovalsAwaited'
    BY ChainStays
  <2> QED BY <2>1, <2>2 DEF GateInv
<1>3. CASE PruneQueues
  <2>1. /\ ops' = EnqueueRemoval(ops, "ifAbandoned", Nobody) /\ pruned' = "queued"
        /\ UNCHANGED <<owner, box, stage, used, leases, call, holder, present, turn, late>>
    BY <1>3 DEF PruneQueues, callVars, turnVars
  <2>2. call \in [Calls -> CallPlaces] /\ turn \in [Turns -> TurnPlaces]
    BY DEF GateInv, GateTypeOK
  <2>3. Nobody \in Bys /\ Nobody \notin Turns /\ Nobody \notin Calls
    BY GateAssumption DEF Bys
  <2>4. /\ ops' \in Seq(Operations)
        /\ HeadInStep' /\ LeasesInStep' /\ OpenIsLast' /\ CallsInLine' /\ RemovalsAwaited'
    <3>1. \A c \in Calls : call'[c] = call[c] /\ c # Nobody /\ (c \in leases => c \in leases')
      BY <2>1, <2>3
    <3>2. \A t \in Turns : turn'[t] = turn[t] /\ t # Nobody
      BY <2>1, <2>3
    <3>3. /\ "ifAbandoned" \in Kinds /\ leases' \in SUBSET leases
          /\ turn' \in [Turns -> TurnPlaces] /\ call' \in [Calls -> CallPlaces]
      BY <2>1, <2>2 DEF Kinds
    <3>4. UNCHANGED <<owner, box, stage>>
      BY <2>1
    <3> QED BY <2>1, <2>3, <3>1, <3>2, <3>3, <3>4, RemovalJoins
  <2>5. GateTypeOK' /\ TurnsInStep'
    BY <2>1, <2>4 DEF GateInv, GateTypeOK, TurnsInStep
  <2> QED BY <2>4, <2>5 DEF GateInv
<1>4. CASE LockGoes
  <2> USE <1>4 DEF LockGoes, callVars
  <2>1. GateTypeOK' /\ TurnsInStep'
    BY DEF GateInv, GateTypeOK, TurnsInStep
  <2>2. HeadInStep' /\ LeasesInStep' /\ OpenIsLast' /\ CallsInLine' /\ RemovalsAwaited'
    BY ChainStays
  <2> QED BY <2>1, <2>2 DEF GateInv
<1> QED BY <1>1, <1>2, <1>3, <1>4

LEMMA TurnStartsKeeps ==
  ASSUME GateInv, NEW t \in Turns, TurnStarts(t)
  PROVE  GateInv'
<1> USE GateConstants
<1>1. /\ turn[t] = "idle" /\ holder = Nobody /\ holder' = t /\ present' = present \cup {t}
      /\ late' = late \cup {<<u, t>> : u \in {v \in present :
                                                turn[v] \in TurnPlaces \ {"running", "leaving"}}}
      /\ UNCHANGED <<owner, box, ops, stage, pruned, leases, call>>
      /\ used' \in BOOLEAN /\ turn \in [Turns -> TurnPlaces] /\ present \subseteq Turns
  BY DEF TurnStarts, ListingBegins, callVars, GateInv, GateTypeOK
<1>2. PICK place \in {"starting", "running"} : /\ turn' = [turn EXCEPT ![t] = place]
                                               /\ place = "starting" => present = {}
  BY DEF TurnStarts, ListingBegins
<1>3. /\ turn' \in [Turns -> TurnPlaces] /\ turn'[t] = place
      /\ \A u \in Turns : u # t => turn'[u] = turn[u]
  BY <1>1, <1>2 DEF TurnPlaces
<1>4. GateTypeOK'
  BY <1>1, <1>3 DEF GateInv, GateTypeOK
<1>5. HeadInStep' /\ LeasesInStep' /\ OpenIsLast' /\ CallsInLine' /\ RemovalsAwaited'
  BY <1>1, <1>3, ChainStays DEF Listed
<1>6. TurnsInStep'
  <2>1. \A u \in Turns : u \in present' <=> turn'[u] \notin {"idle", "done"}
    BY <1>1, <1>2, <1>3 DEF GateInv, TurnsInStep
  <2>2. ASSUME NEW u \in Turns, u # t,
               turn[u] \in {"starting", "startListed", "ending", "endListed"}
        PROVE  <<u, t>> \in late'
    <3>1. u \in present /\ turn[u] \in TurnPlaces \ {"running", "leaving"}
      BY <2>2 DEF GateInv, TurnsInStep, TurnPlaces
    <3> QED BY <1>1, <3>1
  <2>3. \A u, v \in Turns : u # v =>
          /\ turn'[u] \in {"ending", "endListed"} /\ holder' = v => <<u, v>> \in late'
          /\ turn'[u] \in {"starting", "startListed"} /\ v \in present' => <<u, v>> \in late'
    BY <1>1, <1>2, <1>3, <2>2 DEF GateInv, TurnsInStep
  <2> QED BY <1>1, <2>1, <2>3 DEF TurnsInStep
<1> QED BY <1>4, <1>5, <1>6 DEF GateInv

LEMMA TurnEndsKeeps ==
  ASSUME GateInv, NEW t \in Turns, TurnEnds(t)
  PROVE  GateInv'
<1> USE GateConstants
<1>1. /\ turn[t] = "running" /\ used' \in BOOLEAN /\ turn \in [Turns -> TurnPlaces]
      /\ UNCHANGED <<owner, box, ops, stage, pruned, leases, call, holder, present, late>>
  BY DEF TurnEnds, ListingBegins, callVars, GateInv, GateTypeOK
<1>2. PICK place \in {"ending", "leaving"} : /\ turn' = [turn EXCEPT ![t] = place]
                                             /\ place = "ending" => holder \in {t, Nobody}
  BY DEF TurnEnds, ListingBegins, MaySweep
<1>3. /\ turn' \in [Turns -> TurnPlaces] /\ turn'[t] = place
      /\ \A u \in Turns : u # t => turn'[u] = turn[u]
  BY <1>1, <1>2 DEF TurnPlaces
<1>4. GateTypeOK'
  BY <1>1, <1>3 DEF GateInv, GateTypeOK
<1>5. HeadInStep' /\ LeasesInStep' /\ OpenIsLast' /\ CallsInLine' /\ RemovalsAwaited'
  BY <1>1, <1>3, ChainStays DEF Listed
<1>6. TurnsInStep'
  BY <1>1, <1>2, <1>3 DEF GateInv, TurnsInStep
<1> QED BY <1>4, <1>5, <1>6 DEF GateInv

LEMMA SweepListedKeeps ==
  ASSUME GateInv, NEW t \in Turns, SweepListed(t)
  PROVE  GateInv'
<1> USE GateConstants
<1>1. /\ turn[t] \in {"starting", "ending"} /\ turn \in [Turns -> TurnPlaces]
      /\ call \in [Calls -> CallPlaces]
      /\ UNCHANGED <<owner, box, stage, used, pruned, leases, call, holder, present, late>>
  BY DEF SweepListed, callVars, GateInv, GateTypeOK
<1>2. PICK place \in {"running", "leaving", "startListed", "endListed"} :
        /\ turn' = [turn EXCEPT ![t] = place]
        /\ place \in {"ending", "endListed"} => turn[t] = "ending"
        /\ place \in {"starting", "startListed"} => turn[t] = "starting"
        /\ \/ place \notin Listed /\ ops' = ops
           \/ place \in Listed /\ ops' = EnqueueRemoval(ops, "sweep", t)
  BY <1>1 DEF SweepListed, Listed
<1>3. /\ turn' \in [Turns -> TurnPlaces] /\ turn'[t] = place
      /\ \A u \in Turns : u # t => turn'[u] = turn[u]
  BY <1>1, <1>2 DEF TurnPlaces
<1>4. TurnsInStep'
  BY <1>1, <1>2, <1>3 DEF GateInv, TurnsInStep
<1>5. CASE place \notin Listed
  <2>1. ops' = ops
    BY <1>2, <1>5
  <2>2. HeadInStep' /\ LeasesInStep' /\ OpenIsLast' /\ CallsInLine' /\ RemovalsAwaited'
    BY <1>1, <1>3, <2>1, ChainStays DEF Listed
  <2>3. GateTypeOK'
    BY <1>1, <1>3, <2>1 DEF GateInv, GateTypeOK
  <2> QED BY <1>4, <2>2, <2>3 DEF GateInv
<1>6. CASE place \in Listed
  <2>1. /\ ops' = EnqueueRemoval(ops, "sweep", t)
        /\ t \in Bys /\ t \notin Calls /\ turn[t] \notin Listed
    BY <1>1, <1>2, <1>6 DEF Bys, Listed
  <2>2. /\ ops' \in Seq(Operations)
        /\ HeadInStep' /\ LeasesInStep' /\ OpenIsLast' /\ CallsInLine' /\ RemovalsAwaited'
    <3>1. \A c \in Calls : call'[c] = call[c] /\ c # t /\ (c \in leases => c \in leases')
      BY <1>1
    <3>2. \A u \in Turns : (turn'[u] = turn[u] /\ u # t)
                           \/ (turn[u] \notin Listed /\ u = t /\ turn'[u] \in Listed)
      BY <1>3, <1>6, <2>1
    <3>3. /\ "sweep" \in Kinds /\ leases' \in SUBSET leases /\ call' \in [Calls -> CallPlaces]
      BY <1>1 DEF Kinds
    <3>4. UNCHANGED <<owner, box, stage>>
      BY <1>1
    <3> QED BY <1>3, <2>1, <3>1, <3>2, <3>3, <3>4, RemovalJoins
  <2>3. GateTypeOK'
    BY <1>1, <1>3, <2>2 DEF GateInv, GateTypeOK
  <2> QED BY <1>4, <2>2, <2>3 DEF GateInv
<1> QED BY <1>5, <1>6

LEMMA TurnLeavesKeeps ==
  ASSUME GateInv, NEW t \in Turns, TurnLeaves(t)
  PROVE  GateInv'
<1> USE GateConstants
<1>1. /\ turn[t] = "leaving" /\ turn \in [Turns -> TurnPlaces] /\ present' = present \ {t}
      /\ holder' = IF holder = t THEN Nobody ELSE holder
      /\ turn' = [turn EXCEPT ![t] = "done"]
      /\ UNCHANGED <<owner, box, ops, stage, used, pruned, leases, call, late>>
  BY DEF TurnLeaves, callVars, GateInv, GateTypeOK
<1>2. /\ turn' \in [Turns -> TurnPlaces] /\ turn'[t] = "done"
      /\ \A u \in Turns : u # t => turn'[u] = turn[u]
  BY <1>1 DEF TurnPlaces
<1>3. GateTypeOK'
  BY <1>1, <1>2 DEF GateInv, GateTypeOK
<1>4. HeadInStep' /\ LeasesInStep' /\ OpenIsLast' /\ CallsInLine' /\ RemovalsAwaited'
  BY <1>1, <1>2, ChainStays DEF Listed
<1>5. TurnsInStep'
  BY <1>1, <1>2 DEF GateInv, TurnsInStep
<1> QED BY <1>3, <1>4, <1>5 DEF GateInv

LEMMA GateInvNext == GateInv /\ [GateNext]_gateVars => GateInv'
<1> SUFFICES ASSUME GateInv, [GateNext]_gateVars PROVE GateInv'
  OBVIOUS
<1>1. CASE GateStep
  BY <1>1, GateStepKeeps
<1>2. ASSUME NEW c \in Calls, CallBegins(c) \/ CallEnds(c) PROVE GateInv'
  BY <1>2, CallBeginsKeeps, CallEndsKeeps
<1>3. CASE BoxAges \/ CommandStarts \/ PruneLists \/ PruneQueues \/ LockGoes
  BY <1>3, BoxAndPruneKeep
<1>4. ASSUME NEW t \in Turns, TurnStarts(t) \/ TurnEnds(t) \/ SweepListed(t) \/ TurnLeaves(t)
      PROVE  GateInv'
  BY <1>4, TurnStartsKeeps, TurnEndsKeeps, SweepListedKeeps, TurnLeavesKeeps
<1>5. CASE UNCHANGED gateVars
  BY <1>5 DEF gateVars, GateInv, GateTypeOK, HeadInStep, LeasesInStep, OpenIsLast, CallsInLine,
              RemovalsAwaited, TurnsInStep
<1> QED BY <1>1, <1>2, <1>3, <1>4, <1>5 DEF GateNext

-----------------------------------------------------------------------------
(* The theorems.                                                            *)

\* The invariant: the chain's stage is its head's, whoever uses the sandbox holds a
\* lease, an ensure that may be joined is behind every removal, and a turn that came
\* while a sweep was under way is on record.
THEOREM GateInvariant == GateSpec => []GateInv
<1> QED BY GateInvInit, GateInvNext, PTL DEF GateSpec

\* The types of the gate's state hold throughout.
THEOREM GateTypes == GateSpec => []GateTypeOK
<1>1. GateInv => GateTypeOK
  BY DEF GateInv
<1> QED BY <1>1, GateInvariant, PTL

\* A sandbox goes from under a command by a sweep, queued when the call was there.
LEMMA TakenBySweep ==
  ASSUME GateInv, [GateNext]_gateVars, NEW c \in Calls, Taken(c)
  PROVE  /\ 1 \in DOMAIN ops /\ Head(ops) = ops[1]
         /\ Head(ops).kind = "sweep" /\ c \in Head(ops).earlier
<1>1. EnsureReplaces \/ Removes
  BY DEF Taken, GateNext, GateStep, gateVars, EnsureLooks, EnsureReplaces, EnsureCreates,
         EnsureEnds, RemovalStarts, StillAbandoned, Removes, CallBegins, CallEnds, BoxAges,
         CommandStarts, PruneLists, PruneQueues, LockGoes, TurnStarts, TurnEnds, SweepListed,
         TurnLeaves
<1>2. ~EnsureReplaces
  BY DEF EnsureReplaces, HeadIs, Taken, GateInv, HeadInStep
<1>3. ops # <<>> /\ stage = "removing"
  BY <1>1, <1>2 DEF Removes
<1>4. 1 \in DOMAIN ops /\ Head(ops) = ops[1] /\ ops[1].kind \in Kinds
  <2>1. ops \in Seq(Operations)
    BY DEF GateInv, GateTypeOK
  <2> QED BY <1>3, <2>1, Chain DEF Operations
<1>5. ops[1].kind = "sweep"
  BY <1>3 DEF GateInv, LeasesInStep, Taken
<1> QED BY <1>4, <1>5 DEF GateInv, CallsInLine, Taken

\* No prune, no other command's end and no removal that waited while a call asked for
\* the sandbox takes it from under the call.
THEOREM SweepsAloneTake == GateSpec => OnlyLaterSweepsTake
<1>1. GateInv /\ [GateNext]_gateVars =>
        [\A c \in Calls :
           Taken(c) => Head(ops).kind = "sweep" /\ c \in Head(ops).earlier]_gateVars
  BY TakenBySweep
<1> QED BY <1>1, GateInvariant, PTL DEF GateSpec, OnlyLaterSweepsTake

\* A sweep takes the sandbox from the turn that holds the chat only if that turn came
\* while the sweep was under way.
THEOREM LiveTurnIsSpared == GateSpec => SweepsSpareTheLiveTurn
<1>1. ASSUME GateInv, [GateNext]_gateVars, NEW c \in Calls, NEW u \in Turns,
             Taken(c), Head(ops).by = u, TurnOf[c] # u,
             holder = TurnOf[c] \/ (turn[u] = "startListed" /\ TurnOf[c] \in present)
      PROVE  <<u, TurnOf[c]>> \in late
  <2>1. TurnOf[c] \in Turns
    BY GateConstants
  <2>2. turn[u] \in Listed
    BY <1>1, TakenBySweep DEF GateInv, RemovalsAwaited
  <2>3. turn[u] = "startListed" => TurnOf[c] \in present
    BY <1>1, <2>1, GateConstants DEF GateInv, TurnsInStep
  <2> QED BY <1>1, <2>1, <2>2, <2>3 DEF GateInv, TurnsInStep, Listed
<1>2. GateInv /\ [GateNext]_gateVars =>
        [\A c \in Calls, u \in Turns :
           LET t == TurnOf[c]
           IN  /\ owner # "nobody" /\ Taken(c) /\ Head(ops).by = u /\ t # u
               /\ holder = t \/ (turn[u] = "startListed" /\ t \in present)
               => <<u, t>> \in late]_gateVars
  BY <1>1
<1> QED BY <1>2, GateInvariant, PTL DEF GateSpec, SweepsSpareTheLiveTurn

-----------------------------------------------------------------------------
(* The zip state of a chat.                                                 *)

Zip == [member : BOOLEAN, item : Items, rezipped : BOOLEAN]

\* The writes but the one with which the agent holds.
PlainWrites ==
  {[member |-> b] : b \in BOOLEAN} \cup {[rezipped |-> b] : b \in BOOLEAN}
    \cup {[item |-> i] : i \in Items \ {"agent"}} \cup {Multi(FALSE, "none")}
Writes == PlainWrites \cup {Multi(TRUE, "agent")}

FlowKinds == Clicks \cup ReplySteps \cup {"deletes"}

Flows == [place : {"idle", "waiting", "inside", "gone"}, chat : ZipChats \cup {NoWriter},
          kind : FlowKinds \cup {"none"}, after : Lockers \cup {NoWriter}, todo : Seq(Writes)]

ZipTypes ==
  /\ zip \in [ZipChats -> Zip] /\ tails \in [ZipChats -> Lockers \cup {NoWriter}]
  /\ writer \in [Lockers -> Flows]
  /\ agent \in [stored : BOOLEAN, marked : BOOLEAN] /\ toRelease \subseteq ZipChats
  /\ word \in [ZipChats -> Clicks \cup {"none"}]

-----------------------------------------------------------------------------
(* The lock.                                                                *)

\* Who waits for a chat's lock, or has it.
Queue(c) == {w \in Lockers : writer[w].place \in {"waiting", "inside"} /\ writer[w].chat = c}
InLock(c) == {w \in Queue(c) : writer[w].place = "inside"}

\* The tail is the last of the queue, and each waits for another one of it, the first
\* for nobody; and nobody waits in a ring.
QueueIsALine ==
  \A c \in ZipChats :
    /\ tails[c] = NoWriter => Queue(c) = {}
    /\ tails[c] # NoWriter => tails[c] \in Queue(c)
    /\ \A w \in Queue(c) : writer[w].after \in (Queue(c) \cup {NoWriter}) \ {tails[c]}
    /\ \A w, v \in Queue(c) : writer[w].after = writer[v].after => w = v
    /\ \A S \in SUBSET Queue(c) : S # {} => \E w \in S : writer[w].after \notin S
    /\ \A w \in InLock(c) : writer[w].after = NoWriter

\* A flow is for the lock of a chat, and its kind is its locker's.
FlowsFit ==
  \A w \in Lockers :
    /\ writer[w].place \in {"waiting", "inside"} =>
         /\ writer[w].chat \in ZipChats
         /\ writer[w].kind \in IF w = Deleter THEN {"deletes"} ELSE Clicks \cup ReplySteps
    /\ writer[w].todo # <<>> => writer[w].place = "inside"
    /\ Len(writer[w].todo) <= 3

-----------------------------------------------------------------------------
(* The zip.                                                                 *)

\* What the writes still to come make of a zip.
Final(z, todo) ==
  IF Len(todo) = 0 THEN z
  ELSE IF Len(todo) = 1 THEN Applied(z, todo[1])
  ELSE IF Len(todo) = 2 THEN Applied(Applied(z, todo[1]), todo[2])
  ELSE Applied(Applied(Applied(z, todo[1]), todo[2]), todo[3])

Whole(z) == z.member = (z.item # "none") /\ ~(z.member /\ z.rezipped)
Obeys(z, click) ==
  /\ click = "hold" => z.item = "user"
  /\ click = "count" => z.item # "user"
  /\ click = "release" => z.item \in {"none", "agent"} /\ ~z.rezipped
  /\ click = "zip" => z.rezipped

\* What a writer in the lock leaves behind is whole and as the user wants it; what it
\* finds is, too.
WritersObey ==
  \A c \in ZipChats :
    /\ InLock(c) = {} => Whole(zip[c]) /\ Obeys(zip[c], word[c])
    /\ \A w \in InLock(c) :
         LET z == Final(zip[c], writer[w].todo)
         IN  /\ Whole(z)
             /\ Obeys(z, IF writer[w].kind \in Clicks THEN writer[w].kind ELSE word[c])
             /\ writer[w].kind = "deletes" => z.item # "agent"

\* Neither the zip nor a writer in the lock has a hold of the agent in it.
Released(c) ==
  /\ zip[c].item # "agent"
  /\ \A w \in InLock(c) : writer[w].todo \in Seq(PlainWrites)

\* A chat that the delete has visited stays released, and all do once the agent is gone.
VisitedAreReleased ==
  \A c \in ZipChats :
    (~agent.stored \/ (agent.marked /\ c \notin toRelease /\ Deleter \notin Queue(c)))
      => Released(c)

ZipInv == ZipTypes /\ QueueIsALine /\ FlowsFit /\ WritersObey /\ VisitedAreReleased

-----------------------------------------------------------------------------
(* The lock is kept.                                                        *)

LEMMA LockersAreNamed == Deleter \in Lockers /\ NoWriter \notin Lockers
BY ZipAssumption DEF Lockers

\* One writer at a time is in a chat's lock.
LEMMA OneInLock ==
  ASSUME QueueIsALine, NEW c \in ZipChats, NEW w \in InLock(c), NEW v \in InLock(c)
  PROVE  v = w
BY DEF QueueIsALine, InLock

\* Who asks for a lock comes last in its queue.
LEMMA AsksKeepsLock ==
  ASSUME ZipTypes, QueueIsALine, FlowsFit, NEW w \in Lockers, NEW c \in ZipChats,
         NEW kind \in IF w = Deleter THEN {"deletes"} ELSE Clicks \cup ReplySteps,
         writer[w].place = "idle", AsksLock(w, c, kind)
  PROVE  /\ tails' \in [ZipChats -> Lockers \cup {NoWriter}] /\ writer' \in [Lockers -> Flows]
         /\ QueueIsALine' /\ FlowsFit'
         /\ \A d \in ZipChats : /\ Queue(d)' = IF d = c THEN Queue(d) \cup {w} ELSE Queue(d)
                                /\ InLock(d)' = InLock(d)
         /\ \A v \in Lockers \ {w} : writer'[v] = writer[v]
<1>1. /\ \A v \in Lockers \ {w} : writer'[v] = writer[v]
      /\ writer'[w] = [ place |-> "waiting", chat |-> c, kind |-> kind, after |-> tails[c],
                         todo |-> <<>> ]
      /\ \A d \in ZipChats : tails'[d] = IF d = c THEN w ELSE tails[d]
  BY DEF AsksLock, ZipTypes
<1>2. tails' \in [ZipChats -> Lockers \cup {NoWriter}] /\ writer' \in [Lockers -> Flows]
  <2>1. <<>> \in Seq(Writes)
    OBVIOUS
  <2>2. tails[c] \in Lockers \cup {NoWriter}
    BY DEF ZipTypes
  <2>3. kind \in FlowKinds
    BY DEF FlowKinds
  <2>4. writer'[w] \in Flows
    BY <1>1, <2>1, <2>2, <2>3 DEF Flows
  <2> QED BY <2>4 DEF AsksLock, ZipTypes
<1>3. \A d \in ZipChats : /\ Queue(d)' = IF d = c THEN Queue(d) \cup {w} ELSE Queue(d)
                         /\ InLock(d)' = InLock(d) /\ w \notin Queue(d)
  BY <1>1 DEF Queue, InLock
<1>4. FlowsFit'
  BY <1>1 DEF FlowsFit
<1>5. QueueIsALine'
  <2> SUFFICES ASSUME NEW d \in ZipChats
      PROVE  /\ tails'[d] = NoWriter => Queue(d)' = {}
             /\ tails'[d] # NoWriter => tails'[d] \in Queue(d)'
             /\ \A v \in Queue(d)' :
                  writer'[v].after \in (Queue(d)' \cup {NoWriter}) \ {tails'[d]}
             /\ \A u, v \in Queue(d)' : writer'[u].after = writer'[v].after => u = v
             /\ \A S \in SUBSET Queue(d)' : S # {} => \E v \in S : writer'[v].after \notin S
             /\ \A v \in InLock(d)' : writer'[v].after = NoWriter
    BY DEF QueueIsALine
  <2>1. Queue(d) \subseteq Lockers
    BY DEF Queue
  <2>2. CASE d # c
    <3>1. \A v \in Queue(d) : writer'[v] = writer[v]
      BY <1>1, <1>3, <2>1
    <3>2. Queue(d)' = Queue(d) /\ InLock(d)' = InLock(d) /\ tails'[d] = tails[d]
      BY <1>1, <1>3, <2>2
    <3> QED BY <3>1, <3>2 DEF QueueIsALine, InLock
  <2>3. CASE d = c
    <3>1. Queue(d)' = Queue(d) \cup {w} /\ w \notin Queue(d) /\ tails'[d] = w
      BY <1>1, <1>3, <2>3
    <3>2. \A v \in Queue(d) : writer'[v].after = writer[v].after /\ writer[v].after # w
      BY <1>1, <2>1, <3>1, LockersAreNamed DEF QueueIsALine
    <3>3. writer'[w].after = tails[d] /\ tails[d] # w
      BY <1>1, <2>3, <3>1, LockersAreNamed DEF QueueIsALine
    <3>4. tails'[d] # NoWriter
      BY <3>1, LockersAreNamed
    <3>5. \A v \in Queue(d)' :
            writer'[v].after \in (Queue(d)' \cup {NoWriter}) \ {tails'[d]}
      BY <3>1, <3>2, <3>3 DEF QueueIsALine
    <3>6. \A u, v \in Queue(d)' : writer'[u].after = writer'[v].after => u = v
      BY <3>1, <3>2, <3>3 DEF QueueIsALine
    <3>7. ASSUME NEW S \in SUBSET Queue(d)', S # {}
          PROVE  \E v \in S : writer'[v].after \notin S
      <4>1. CASE S \ {w} = {}
        BY <3>3, <3>7, <4>1
      <4>2. CASE S \ {w} # {}
        <5>1. PICK v \in S \ {w} : writer[v].after \notin S \ {w}
          BY <3>1, <4>2 DEF QueueIsALine
        <5> QED BY <3>1, <3>2, <5>1
      <4> QED BY <4>1, <4>2
    <3>8. \A v \in InLock(d)' : writer'[v].after = NoWriter
      BY <1>3, <3>2 DEF QueueIsALine, InLock
    <3> QED BY <3>1, <3>4, <3>5, <3>6, <3>7, <3>8
  <2> QED BY <2>2, <2>3
<1> QED BY <1>1, <1>2, <1>3, <1>4, <1>5

\* Whoever leaves was first in the queue: the next one is first after it, and the
\* tail goes with the last.
LEMMA LeavesKeepsLock ==
  ASSUME ZipTypes, QueueIsALine, FlowsFit, NEW w \in Lockers, NEW place \in {"idle", "gone"},
         writer[w].place = "inside", writer[w].todo = <<>>, ClearsOwnTail(w), LetsGo(w, place)
  PROVE  /\ tails' \in [ZipChats -> Lockers \cup {NoWriter}] /\ writer' \in [Lockers -> Flows]
         /\ QueueIsALine' /\ FlowsFit'
         /\ writer[w].chat \in ZipChats
         /\ \A d \in ZipChats :
              /\ Queue(d)' = IF d = writer[w].chat THEN Queue(d) \ {w} ELSE Queue(d)
              /\ InLock(d)' = IF d = writer[w].chat THEN {} ELSE InLock(d)
         /\ \A v \in Lockers \ {w} :
              writer'[v].todo = writer[v].todo /\ writer'[v].kind = writer[v].kind
<1>0. PICK c \in ZipChats : c = writer[w].chat
  BY DEF FlowsFit
<1>1. /\ \A v \in Lockers \ {w} :
           /\ writer'[v] \in Flows
           /\ writer'[v].todo = writer[v].todo /\ writer'[v].kind = writer[v].kind
           /\ writer'[v].place = writer[v].place /\ writer'[v].chat = writer[v].chat
           /\ writer'[v].after = IF writer[v].after = w THEN NoWriter ELSE writer[v].after
      /\ writer'[w].place \notin {"waiting", "inside"} /\ writer'[w].todo = <<>>
      /\ writer'[w] \in Flows
  <2>1. /\ \A v \in Lockers \ {w} :
             writer'[v] = IF writer[v].after = w THEN [writer[v] EXCEPT !.after = NoWriter]
                          ELSE writer[v]
        /\ writer'[w] = [writer[w] EXCEPT !.place = place]
        /\ \A v \in Lockers : writer[v] \in Flows
    BY DEF LetsGo, ZipTypes
  <2>2. \A v \in Lockers \ {w} :
           /\ writer'[v] \in Flows
           /\ writer'[v].todo = writer[v].todo /\ writer'[v].kind = writer[v].kind
           /\ writer'[v].place = writer[v].place /\ writer'[v].chat = writer[v].chat
           /\ writer'[v].after = IF writer[v].after = w THEN NoWriter ELSE writer[v].after
    <3> SUFFICES ASSUME NEW v \in Lockers \ {w}
        PROVE /\ writer'[v] \in Flows
              /\ writer'[v].todo = writer[v].todo /\ writer'[v].kind = writer[v].kind
              /\ writer'[v].place = writer[v].place /\ writer'[v].chat = writer[v].chat
              /\ writer'[v].after = IF writer[v].after = w THEN NoWriter ELSE writer[v].after
      OBVIOUS
    <3>1. CASE writer[v].after = w
      <4>1. writer'[v] = [writer[v] EXCEPT !.after = NoWriter] /\ writer[v] \in Flows
        BY <2>1, <3>1
      <4>2. writer'[v] \in Flows
        BY <4>1 DEF Flows
      <4>3. writer'[v].todo = writer[v].todo /\ writer'[v].kind = writer[v].kind
        BY <4>1 DEF Flows
      <4>4. writer'[v].place = writer[v].place /\ writer'[v].chat = writer[v].chat
        BY <4>1 DEF Flows
      <4>5. writer'[v].after = NoWriter
        BY <4>1 DEF Flows
      <4> QED BY <3>1, <4>2, <4>3, <4>4, <4>5
    <3>2. CASE writer[v].after # w
      BY <2>1, <3>2
    <3> QED BY <3>1, <3>2
  <2>3. /\ writer'[w].place \notin {"waiting", "inside"} /\ writer'[w].todo = <<>>
        /\ writer'[w] \in Flows
    BY <2>1 DEF Flows
  <2> QED BY <2>2, <2>3
<1>2. \A d \in ZipChats : tails'[d] = IF d = c /\ tails[c] = w THEN NoWriter ELSE tails[d]
  BY <1>0 DEF ClearsOwnTail, ZipTypes
<1>3. tails' \in [ZipChats -> Lockers \cup {NoWriter}] /\ writer' \in [Lockers -> Flows]
  <2>1. writer' = [v \in Lockers |-> writer'[v]]
    BY DEF LetsGo
  <2>2. writer' \in [Lockers -> Flows]
    BY <1>1, <2>1
  <2> QED BY <2>2 DEF ClearsOwnTail, ZipTypes
<1>4. w \in InLock(c) /\ w \in Queue(c)
  BY <1>0 DEF InLock, Queue
<1>5. writer[w].after = NoWriter
  BY <1>4 DEF QueueIsALine
<1>6. \A d \in ZipChats : d # c => w \notin Queue(d)
  BY <1>0 DEF Queue
<1>7. \A d \in ZipChats : Queue(d)' = IF d = c THEN Queue(d) \ {w} ELSE Queue(d)
  BY <1>0, <1>1, <1>6 DEF Queue
<1>8. \A d \in ZipChats : InLock(d)' = IF d = c THEN {} ELSE InLock(d)
  <2>1. \A d \in ZipChats : InLock(d)' = InLock(d) \ {w}
    BY <1>1 DEF InLock, Queue
  <2>2. InLock(c) = {w}
    BY <1>4, OneInLock
  <2>3. \A d \in ZipChats : d # c => w \notin InLock(d)
    BY <1>6 DEF InLock
  <2> QED BY <2>1, <2>2, <2>3
<1>9. FlowsFit'
  BY <1>1 DEF FlowsFit, ZipTypes, Flows
<1>10. QueueIsALine'
  <2> SUFFICES ASSUME NEW d \in ZipChats
      PROVE  /\ tails'[d] = NoWriter => Queue(d)' = {}
             /\ tails'[d] # NoWriter => tails'[d] \in Queue(d)'
             /\ \A v \in Queue(d)' :
                  writer'[v].after \in (Queue(d)' \cup {NoWriter}) \ {tails'[d]}
             /\ \A u, v \in Queue(d)' : writer'[u].after = writer'[v].after => u = v
             /\ \A S \in SUBSET Queue(d)' : S # {} => \E v \in S : writer'[v].after \notin S
             /\ \A v \in InLock(d)' : writer'[v].after = NoWriter
    BY DEF QueueIsALine
  <2>1. Queue(d) \subseteq Lockers
    BY DEF Queue
  <2>2. CASE d # c
    <3>1. \A v \in Queue(d) : writer'[v].after = writer[v].after
      BY <1>1, <1>6, <2>1, <2>2, LockersAreNamed DEF QueueIsALine
    <3>2. Queue(d)' = Queue(d) /\ InLock(d)' = InLock(d) /\ tails'[d] = tails[d]
      BY <1>2, <1>7, <1>8, <2>2
    <3> QED BY <3>1, <3>2 DEF QueueIsALine, InLock
  <2>3. CASE d = c
    <3>1. Queue(d)' = Queue(d) \ {w} /\ InLock(d)' = {}
      BY <1>7, <1>8, <2>3
    <3>2. \A v \in Queue(d)' : /\ writer[v].after # NoWriter /\ v \in Queue(d)
                              /\ writer'[v].after = IF writer[v].after = w THEN NoWriter
                                                     ELSE writer[v].after
      BY <1>1, <1>4, <1>5, <2>1, <2>3, <3>1 DEF QueueIsALine
    <3>3. \A v \in Queue(d)' : writer'[v].after \in Queue(d)' \cup {NoWriter}
      BY <3>1, <3>2 DEF QueueIsALine
    <3>4. \A u, v \in Queue(d)' : writer'[u].after = writer'[v].after => u = v
      BY <3>2 DEF QueueIsALine
    <3>5. \A S \in SUBSET Queue(d)' : S # {} => \E v \in S : writer'[v].after \notin S
      <4> SUFFICES ASSUME NEW S \in SUBSET Queue(d)', S # {}
                   PROVE  \E v \in S : writer'[v].after \notin S
        OBVIOUS
      <4>1. PICK v \in S : writer[v].after \notin S
        BY <3>1 DEF QueueIsALine
      <4>2. NoWriter \notin S
        BY <2>1, <3>1, LockersAreNamed
      <4> QED BY <3>2, <4>1, <4>2
    <3>6. tails[d] # NoWriter /\ tails[d] \in Queue(d)
      BY <1>4, <2>3 DEF QueueIsALine
    <3>7. tails[d] = w => Queue(d)' = {}
      <4> SUFFICES ASSUME tails[d] = w, Queue(d)' # {} PROVE FALSE
        OBVIOUS
      <4>1. PICK v \in Queue(d)' : writer[v].after \notin Queue(d)'
        <5>1. Queue(d) \ {w} \in SUBSET Queue(d) /\ Queue(d) \ {w} # {}
          BY <3>1
        <5> QED BY <3>1, <5>1 DEF QueueIsALine
      <4>2. writer[v].after = w
        BY <3>1, <3>2, <4>1 DEF QueueIsALine
      <4> QED BY <3>2, <4>2 DEF QueueIsALine
    <3>8. /\ tails'[d] = NoWriter => Queue(d)' = {}
          /\ tails'[d] # NoWriter => tails'[d] \in Queue(d)'
      BY <1>2, <2>3, <3>1, <3>6, <3>7
    <3>9. \A v \in Queue(d)' : writer'[v].after # tails'[d]
      <4> SUFFICES ASSUME NEW v \in Queue(d)' PROVE writer'[v].after # tails'[d]
        OBVIOUS
      <4>1. tails'[d] = tails[d] /\ tails[d] # w
        BY <1>2, <2>3, <3>7
      <4>2. writer[v].after # tails[d]
        BY <3>2 DEF QueueIsALine
      <4> QED BY <3>2, <3>6, <4>1, <4>2
    <3> QED BY <3>1, <3>3, <3>4, <3>5, <3>8, <3>9
  <2> QED BY <2>2, <2>3
<1> QED BY <1>0, <1>1, <1>3, <1>7, <1>8, <1>9, <1>10

\* w goes in, and has these writes to do.
GoesIn(w, todo) ==
  writer' = [writer EXCEPT ![w].place = "inside", ![w].todo = todo]

\* Whoever's turn has come was first in the queue, and nobody is inside.
LEMMA EntersKeepsLock ==
  ASSUME ZipTypes, QueueIsALine, FlowsFit, NEW w \in Lockers, NEW todo \in Seq(Writes),
         Len(todo) <= 3, writer[w].place = "waiting", Resolved(w), tails' = tails,
         GoesIn(w, todo)
  PROVE  /\ writer' \in [Lockers -> Flows] /\ QueueIsALine' /\ FlowsFit'
         /\ writer[w].chat \in ZipChats /\ InLock(writer[w].chat) = {}
         /\ \A d \in ZipChats :
              /\ Queue(d)' = Queue(d)
              /\ InLock(d)' = IF d = writer[w].chat THEN {w} ELSE InLock(d)
         /\ \A v \in Lockers : v # w => writer'[v] = writer[v]
         /\ writer'[w].todo = todo /\ writer'[w].kind = writer[w].kind
<1>0. PICK c \in ZipChats : c = writer[w].chat
  BY DEF FlowsFit
<1>1. /\ \A v \in Lockers : v # w => writer'[v] = writer[v]
      /\ writer'[w] \in Flows /\ writer'[w].place = "inside" /\ writer'[w].todo = todo
      /\ writer'[w].chat = c /\ writer'[w].kind = writer[w].kind
      /\ writer'[w].after = writer[w].after
  <2>1. writer'[w] = [writer[w] EXCEPT !.place = "inside", !.todo = todo]
        /\ writer[w] \in Flows
    BY DEF ZipTypes, GoesIn
  <2>2. writer'[w].place = "inside" /\ writer'[w].todo = todo
    BY <2>1 DEF Flows
  <2>3. writer'[w].chat = c /\ writer'[w].kind = writer[w].kind
        /\ writer'[w].after = writer[w].after
    BY <1>0, <2>1 DEF Flows
  <2>4. writer'[w] \in Flows
    <3>1. writer'[w] = [place |-> "inside", chat |-> writer[w].chat, kind |-> writer[w].kind,
                        after |-> writer[w].after, todo |-> todo]
      BY <2>1 DEF Flows
    <3>2. /\ writer[w].chat \in ZipChats \cup {NoWriter} /\ writer[w].kind \in FlowKinds \cup {"none"}
          /\ writer[w].after \in Lockers \cup {NoWriter}
      BY <2>1 DEF Flows
    <3> QED BY <3>1, <3>2 DEF Flows
  <2>5. \A v \in Lockers : v # w => writer'[v] = writer[v]
    BY DEF ZipTypes, GoesIn
  <2> QED BY <2>2, <2>3, <2>4, <2>5
<1>2. writer' \in [Lockers -> Flows]
  <2>1. writer' = [v \in Lockers |-> writer'[v]] /\ \A v \in Lockers : writer[v] \in Flows
    BY DEF ZipTypes, GoesIn
  <2> QED BY <1>1, <2>1
<1>3. \A d \in ZipChats : /\ Queue(d)' = Queue(d)
                          /\ InLock(d)' = IF d = c THEN InLock(d) \cup {w} ELSE InLock(d)
  <2>1. \A d \in ZipChats : Queue(d)' = Queue(d)
    BY <1>0, <1>1 DEF Queue
  <2>2. w \in Queue(c) /\ \A d \in ZipChats : d # c => w \notin Queue(d)
    BY <1>0 DEF Queue
  <2>3. InLock(c)' = InLock(c) \cup {w}
    BY <1>1, <2>1, <2>2 DEF InLock, Queue
  <2>4. \A d \in ZipChats : d # c => InLock(d)' = InLock(d)
    BY <1>1, <2>1, <2>2 DEF InLock, Queue
  <2> QED BY <2>1, <2>3, <2>4
<1>4. w \in Queue(c) /\ writer[w].after = NoWriter
  BY <1>0 DEF Queue, Resolved
<1>5. InLock(c) = {}
  <2> SUFFICES ASSUME NEW v \in InLock(c) PROVE FALSE
    OBVIOUS
  <2>1. v \in Queue(c) /\ writer[v].place = "inside" /\ writer[v].after = NoWriter
    BY DEF InLock, QueueIsALine
  <2> QED BY <1>4, <2>1 DEF QueueIsALine
<1>6. QueueIsALine'
  <2>1. \A d \in ZipChats : Queue(d) \subseteq Lockers
    BY DEF Queue
  <2>2. \A v \in Lockers : writer'[v].after = writer[v].after
    BY <1>1
  <2> SUFFICES ASSUME NEW d \in ZipChats
      PROVE  /\ tails'[d] = NoWriter => Queue(d)' = {}
             /\ tails'[d] # NoWriter => tails'[d] \in Queue(d)'
             /\ \A v \in Queue(d)' :
                  writer'[v].after \in (Queue(d)' \cup {NoWriter}) \ {tails'[d]}
             /\ \A u, v \in Queue(d)' : writer'[u].after = writer'[v].after => u = v
             /\ \A S \in SUBSET Queue(d)' : S # {} => \E v \in S : writer'[v].after \notin S
             /\ \A v \in InLock(d)' : writer'[v].after = NoWriter
    BY DEF QueueIsALine
  <2>3. \A v \in Queue(d) : writer'[v].after = writer[v].after
    BY <2>1, <2>2
  <2>4. \A v \in InLock(d)' : writer'[v].after = NoWriter
    <3>1. \A v \in InLock(d) : v \in Queue(d) /\ writer[v].after = NoWriter
      BY DEF QueueIsALine, InLock
    <3> QED BY <1>1, <1>3, <1>4, <2>3, <3>1
  <2>5. /\ tails'[d] = NoWriter => Queue(d)' = {}
        /\ tails'[d] # NoWriter => tails'[d] \in Queue(d)'
    BY <1>3 DEF QueueIsALine
  <2>6. /\ \A v \in Queue(d)' :
             writer'[v].after \in (Queue(d)' \cup {NoWriter}) \ {tails'[d]}
        /\ \A u, v \in Queue(d)' : writer'[u].after = writer'[v].after => u = v
    BY <1>3, <2>3 DEF QueueIsALine
  <2>7. \A S \in SUBSET Queue(d)' : S # {} => \E v \in S : writer'[v].after \notin S
    <3> SUFFICES ASSUME NEW S \in SUBSET Queue(d), S # {}
                 PROVE  \E v \in S : writer'[v].after \notin S
      BY <1>3
    <3>1. PICK v \in S : writer[v].after \notin S
      BY DEF QueueIsALine
    <3> QED BY <2>3, <3>1
  <2> QED BY <2>4, <2>5, <2>6, <2>7
<1>7. FlowsFit'
  BY <1>0, <1>1 DEF FlowsFit
<1> QED BY <1>0, <1>1, <1>2, <1>3, <1>5, <1>6, <1>7

-----------------------------------------------------------------------------
(* What a write makes of a zip.                                             *)

LEMMA AppliedFields ==
  ASSUME NEW z \in Zip
  PROVE  /\ \A b \in BOOLEAN : Applied(z, [member |-> b]) =
              [member |-> b, item |-> z.item, rezipped |-> z.rezipped]
         /\ \A b \in BOOLEAN : Applied(z, [rezipped |-> b]) =
              [member |-> z.member, item |-> z.item, rezipped |-> b]
         /\ \A i \in Items : Applied(z, [item |-> i]) =
              [member |-> z.member, item |-> i, rezipped |-> z.rezipped]
         /\ \A b \in BOOLEAN, i \in Items : Applied(z, Multi(b, i)) = Multi(b, i)
<1>1. \A b \in BOOLEAN : Applied(z, [member |-> b]) =
              [member |-> b, item |-> z.item, rezipped |-> z.rezipped]
  BY DEF Applied, Zip
<1>2. \A b \in BOOLEAN : Applied(z, [rezipped |-> b]) =
              [member |-> z.member, item |-> z.item, rezipped |-> b]
  BY DEF Applied, Zip
<1>3. \A i \in Items : Applied(z, [item |-> i]) =
              [member |-> z.member, item |-> i, rezipped |-> z.rezipped]
  BY DEF Applied, Zip
<1>4. \A b \in BOOLEAN, i \in Items : Applied(z, Multi(b, i)) = Multi(b, i)
  BY DEF Applied, Zip, Multi
<1> QED BY <1>1, <1>2, <1>3, <1>4

LEMMA PlainIsPlain ==
  ASSUME NEW z \in Zip, NEW write \in PlainWrites
  PROVE  Applied(z, write) \in Zip /\ (z.item # "agent" => Applied(z, write).item # "agent")
<1>1. z.member \in BOOLEAN /\ z.item \in Items /\ z.rezipped \in BOOLEAN
  BY DEF Zip
<1>2. ASSUME NEW b \in BOOLEAN, write = [member |-> b]
      PROVE  Applied(z, write) \in Zip /\ Applied(z, write).item = z.item
  <2>1. Applied(z, write) = [member |-> b, item |-> z.item, rezipped |-> z.rezipped]
    BY <1>2, AppliedFields
  <2> QED BY <1>1, <2>1 DEF Zip
<1>3. ASSUME NEW b \in BOOLEAN, write = [rezipped |-> b]
      PROVE  Applied(z, write) \in Zip /\ Applied(z, write).item = z.item
  <2>1. Applied(z, write) = [member |-> z.member, item |-> z.item, rezipped |-> b]
    BY <1>3, AppliedFields
  <2> QED BY <1>1, <2>1 DEF Zip
<1>4. ASSUME NEW i \in Items, i # "agent", write = [item |-> i]
      PROVE  Applied(z, write) \in Zip /\ Applied(z, write).item # "agent"
  <2>1. Applied(z, write) = [member |-> z.member, item |-> i, rezipped |-> z.rezipped]
    BY <1>4, AppliedFields
  <2> QED BY <1>1, <1>4, <2>1 DEF Zip
<1>5. ASSUME write = Multi(FALSE, "none")
      PROVE  Applied(z, write) \in Zip /\ Applied(z, write).item # "agent"
  <2>1. Applied(z, write) = Multi(FALSE, "none")
    BY <1>5, AppliedFields DEF Items
  <2> QED BY <2>1 DEF Zip, Multi, Items
<1> QED BY <1>2, <1>3, <1>4, <1>5 DEF PlainWrites

LEMMA WriteIsTyped ==
  ASSUME NEW z \in Zip, NEW write \in Writes
  PROVE  Applied(z, write) \in Zip
<1>1. CASE write \in PlainWrites
  BY <1>1, PlainIsPlain
<1>2. CASE write = Multi(TRUE, "agent")
  <2>1. Applied(z, write) = Multi(TRUE, "agent")
    BY <1>2, AppliedFields DEF Items
  <2> QED BY <2>1 DEF Zip, Multi, Items
<1> QED BY <1>1, <1>2 DEF Writes

-----------------------------------------------------------------------------
(* What the writes still to come make of it.                                *)

LEMMA OneToThree ==
  ASSUME NEW n \in Nat, n # 0, n <= 3
  PROVE  n \in {1, 2, 3}
OBVIOUS

LEMMA FinalRest ==
  ASSUME NEW z, NEW todo, NEW rest, NEW n \in {1, 2, 3}, Len(todo) = n, Len(rest) = n - 1,
         \A i \in 1 .. n - 1 : rest[i] = todo[i + 1]
  PROVE  Final(Applied(z, todo[1]), rest) = Final(z, todo)
<1>1. CASE n = 1
  BY <1>1 DEF Final
<1>2. CASE n = 2
  <2>1. rest[1] = todo[2] /\ Len(rest) = 1
    BY <1>2
  <2> QED BY <1>2, <2>1 DEF Final
<1>3. CASE n = 3
  <2>1. rest[1] = todo[2] /\ rest[2] = todo[3] /\ Len(rest) = 2
    BY <1>3
  <2> QED BY <1>3, <2>1 DEF Final
<1> QED BY <1>1, <1>2, <1>3

\* A write leaves the outcome as it was.
LEMMA WriteKeepsFinal ==
  ASSUME NEW z, NEW S, NEW todo \in Seq(S), Len(todo) <= 3, todo # <<>>
  PROVE  Final(Applied(z, Head(todo)), Tail(todo)) = Final(z, todo)
<1>1. Len(todo) \in Nat
  OBVIOUS
<1>2. Len(todo) # 0
  BY EmptySeq
<1>3. Len(todo) \in {1, 2, 3}
  BY <1>1, <1>2, OneToThree
<1>4. Len(Tail(todo)) = Len(todo) - 1
      /\ \A i \in 1 .. Len(todo) - 1 : Tail(todo)[i] = todo[i + 1]
  BY <1>1, <1>2
<1>5. Head(todo) = todo[1]
  OBVIOUS
<1>6. PICK rest : rest = Tail(todo)
  OBVIOUS
<1>7. Len(rest) = Len(todo) - 1 /\ \A i \in 1 .. Len(todo) - 1 : rest[i] = todo[i + 1]
  BY <1>4, <1>6
<1>8. Final(Applied(z, todo[1]), rest) = Final(z, todo)
  BY <1>3, <1>7, FinalRest
<1> QED BY <1>5, <1>6, <1>8

LEMMA FinalOf ==
  ASSUME NEW z, NEW a
  PROVE  Final(z, <<>>) = z /\ Final(z, <<a>>) = Applied(z, a)
BY DEF Final

LEMMA FinalSteps ==
  ASSUME NEW z, NEW a, NEW b, NEW c, NEW y, Applied(z, a) = y, NEW x, Applied(y, b) = x
  PROVE  Final(z, <<a, b, c>>) = Applied(x, c)
<1>1. Final(z, <<a, b, c>>) = Applied(Applied(Applied(z, a), b), c)
  BY DEF Final
<1>2. Applied(Applied(z, a), b) = Applied(y, b)
  OBVIOUS
<1>3. Applied(Applied(Applied(z, a), b), c) = Applied(x, c)
  BY <1>2
<1> QED BY <1>1, <1>3

-----------------------------------------------------------------------------
(* What a writer decides is right.                                          *)

\* The writes are of these fields; there are at most three; what they make of the zip
\* is whole, and as the user wants it.
DecidesRight(kind, z, u, todo) ==
  /\ todo \in Seq(Writes) /\ Len(todo) <= 3
  /\ ~MayWrite => todo \in Seq(PlainWrites)
  /\ Whole(Final(z, todo))
  /\ Obeys(Final(z, todo), IF kind \in Clicks THEN kind ELSE u)
  /\ kind = "deletes" => Final(z, todo).item # "agent"

LEMMA PlainAreWrites ==
  /\ \A b \in BOOLEAN : [member |-> b] \in PlainWrites /\ [rezipped |-> b] \in PlainWrites
  /\ \A i \in Items : i # "agent" => [item |-> i] \in PlainWrites
  /\ Multi(FALSE, "none") \in PlainWrites
  /\ PlainWrites \subseteq Writes /\ Seq(PlainWrites) \subseteq Seq(Writes)
<1>1. /\ \A b \in BOOLEAN : [member |-> b] \in PlainWrites /\ [rezipped |-> b] \in PlainWrites
      /\ \A i \in Items : i # "agent" => [item |-> i] \in PlainWrites
      /\ Multi(FALSE, "none") \in PlainWrites
  BY Zenon DEF PlainWrites
<1>2. PlainWrites \subseteq Writes
  BY DEF Writes
<1>3. \A s \in Seq(PlainWrites) : s \in Seq(Writes)
  BY <1>2
<1> QED BY <1>1, <1>2, <1>3

\* The three writes of a click.
LEMMA ClickIsRight ==
  ASSUME NEW z \in Zip, NEW u, NEW kind \in Clicks, NEW b \in BOOLEAN, NEW i \in Items,
         NEW r \in BOOLEAN, NEW o, NEW p, NEW q,
         o = [member |-> b], p = [rezipped |-> r], q = [item |-> i],
         b = (i # "none"), ~(b /\ r), i # "agent",
         kind = "hold" => i = "user", kind = "count" => i = "two",
         kind = "release" => i = "none" /\ ~r, kind = "zip" => r
  PROVE  DecidesRight(kind, z, u, <<o, p, q>>) /\ DecidesRight(kind, z, u, <<o, q, p>>)
<1>1. PICK made : made = [member |-> b, item |-> i, rezipped |-> r]
  OBVIOUS
<1>2. Final(z, <<o, p, q>>) = made /\ Final(z, <<o, q, p>>) = made
  <2>1. z.member \in BOOLEAN /\ z.item \in Items /\ z.rezipped \in BOOLEAN
    BY DEF Zip
  <2>2. PICK y : y = [member |-> b, item |-> z.item, rezipped |-> z.rezipped]
    OBVIOUS
  <2>3. Applied(z, o) = y /\ y \in Zip
    BY <2>1, <2>2, AppliedFields DEF Zip
  <2>4. PICK x : x = [member |-> b, item |-> z.item, rezipped |-> r]
    OBVIOUS
  <2>5. Applied(y, p) = x /\ x \in Zip
    <3>1. Applied(y, p) = [member |-> y.member, item |-> y.item, rezipped |-> r]
      BY <2>3, AppliedFields
    <3> QED BY <2>1, <2>2, <2>4, <3>1 DEF Zip
  <2>6. PICK v : v = [member |-> b, item |-> i, rezipped |-> z.rezipped]
    OBVIOUS
  <2>7. Applied(y, q) = v /\ v \in Zip
    <3>1. Applied(y, q) = [member |-> y.member, item |-> i, rezipped |-> y.rezipped]
      BY <2>3, AppliedFields
    <3> QED BY <2>1, <2>2, <2>6, <3>1 DEF Zip
  <2>8. Applied(x, q) = made
    <3>1. Applied(x, q) = [member |-> x.member, item |-> i, rezipped |-> x.rezipped]
      BY <2>5, AppliedFields
    <3> QED BY <1>1, <2>4, <3>1
  <2>9. Applied(v, p) = made
    <3>1. Applied(v, p) = [member |-> v.member, item |-> v.item, rezipped |-> r]
      BY <2>7, AppliedFields
    <3> QED BY <1>1, <2>6, <3>1
  <2>10. Final(z, <<o, p, q>>) = Applied(x, q)
    BY <2>3, <2>5, FinalSteps
  <2>11. Final(z, <<o, q, p>>) = Applied(v, p)
    BY <2>3, <2>7, FinalSteps
  <2> QED BY <2>8, <2>9, <2>10, <2>11
<1>3. Whole(made) /\ Obeys(made, kind)
  BY <1>1 DEF Whole, Obeys
<1>4. o \in PlainWrites /\ p \in PlainWrites /\ q \in PlainWrites
  BY PlainAreWrites
<1>5. /\ \A s \in {<<o, p, q>>, <<o, q, p>>} : s \in Seq(PlainWrites) /\ Len(s) <= 3
  BY <1>4
<1>6. kind # "deletes"
  BY DEF Clicks
<1> QED BY <1>2, <1>3, <1>5, <1>6, PlainAreWrites DEF DecidesRight

\* Nothing to do.
LEMMA NothingIsRight ==
  ASSUME NEW z \in Zip, NEW u, NEW kind \in FlowKinds \ Clicks, Whole(z), Obeys(z, u),
         kind = "deletes" => z.item # "agent"
  PROVE  DecidesRight(kind, z, u, <<>>)
<1>1. Final(z, <<>>) = z
  BY FinalOf
<1>2. <<>> \in Seq(Writes) /\ <<>> \in Seq(PlainWrites) /\ Len(<<>>) <= 3
  OBVIOUS
<1> QED BY <1>1, <1>2 DEF DecidesRight

\* What is open goes back, unless the user holds it.
LEMMA AutomaticIsRight ==
  ASSUME NEW z \in Zip, NEW u \in Clicks \cup {"none"}, NEW kind \in FlowKinds \ Clicks,
         Obeys(z, u), z.item \in {"two", "one", "agent"}, u # "zip"
  PROVE  DecidesRight(kind, z, u, Automatic)
<1>1. PICK made : made = Multi(FALSE, "none")
  OBVIOUS
<1>2. Applied(z, made) = made
  BY <1>1, AppliedFields DEF Items
<1>3. Final(z, <<made>>) = made
  BY <1>2, FinalOf
<1>4. Whole(made) /\ made.item = "none" /\ ~made.rezipped
  BY <1>1 DEF Whole, Multi
<1>5. Obeys(made, u)
  BY <1>4 DEF Obeys
<1>6. made \in PlainWrites
  BY <1>1, PlainAreWrites
<1>7. <<made>> \in Seq(PlainWrites) /\ Len(<<made>>) <= 3
  BY <1>6
<1>8. Automatic = <<made>>
  BY <1>1 DEF Automatic
<1>9. made.item # "agent"
  BY <1>4
<1> QED BY <1>3, <1>4, <1>5, <1>7, <1>8, <1>9, PlainAreWrites DEF DecidesRight

LEMMA WritersDecideRight ==
  ASSUME NEW z \in Zip, NEW u \in Clicks \cup {"none"}, NEW kind \in FlowKinds, Whole(z), Obeys(z, u)
  PROVE  DecidesRight(kind, z, u, Decides(kind, z))
<1>1. CASE kind = "hold"
  <2>1. PICK o, p, q : o = [member |-> TRUE] /\ p = [rezipped |-> FALSE] /\ q = [item |-> "user"]
    OBVIOUS
  <2>2. DecidesRight(kind, z, u, <<o, p, q>>)
    BY <1>1, <2>1, ClickIsRight DEF Clicks, Items
  <2>3. <<o, p, q>> = Decides(kind, z)
    BY <1>1, <2>1, Zenon DEF Decides
  <2> QED BY <2>2, <2>3
<1>2. CASE kind = "count"
  <2>1. PICK o, p, q : o = [member |-> TRUE] /\ p = [rezipped |-> FALSE] /\ q = [item |-> "two"]
    OBVIOUS
  <2>2. DecidesRight(kind, z, u, <<o, p, q>>)
    BY <1>2, <2>1, ClickIsRight DEF Clicks, Items
  <2>3. <<o, p, q>> = Decides(kind, z)
    BY <1>2, <2>1, Zenon DEF Decides
  <2> QED BY <2>2, <2>3
<1>3. CASE kind = "release"
  <2>1. PICK o, p, q : o = [member |-> FALSE] /\ p = [rezipped |-> FALSE] /\ q = [item |-> "none"]
    OBVIOUS
  <2>2. DecidesRight(kind, z, u, <<o, q, p>>)
    BY <1>3, <2>1, ClickIsRight DEF Clicks, Items
  <2>3. <<o, q, p>> = Decides(kind, z)
    BY <1>3, <2>1, Zenon DEF Decides
  <2> QED BY <2>2, <2>3
<1>4. CASE kind = "zip"
  <2>1. PICK o, p, q : o = [member |-> FALSE] /\ p = [rezipped |-> TRUE] /\ q = [item |-> "none"]
    OBVIOUS
  <2>2. DecidesRight(kind, z, u, <<o, q, p>>)
    BY <1>4, <2>1, ClickIsRight DEF Clicks, Items
  <2>3. <<o, q, p>> = Decides(kind, z)
    BY <1>4, <2>1, Zenon DEF Decides
  <2> QED BY <2>2, <2>3
<1>5. z.item \notin {"two", "one", "agent"} \/ (z.item # "none" /\ z.member /\ u # "zip")
  BY DEF Whole, Obeys
<1>6. CASE kind = "countdown"
  <2>1. kind \in FlowKinds \ Clicks /\ kind # "deletes"
    BY <1>6 DEF Clicks
  <2>2. Decides(kind, z) = IF ~z.member \/ z.item \notin {"two", "one"} THEN <<>>
                           ELSE IF z.item = "two" THEN <<[item |-> "one"]>> ELSE Automatic
    BY <1>6, Zenon DEF Decides
  <2>3. CASE ~z.member \/ z.item \notin {"two", "one"}
    BY <2>1, <2>2, <2>3, NothingIsRight
  <2>4. CASE z.member /\ z.item = "two"
    <3>1. PICK write : write = [item |-> "one"]
      OBVIOUS
    <3>2. PICK made : made = [member |-> z.member, item |-> "one", rezipped |-> z.rezipped]
      OBVIOUS
    <3>3. Applied(z, write) = made
      BY <3>1, <3>2, AppliedFields DEF Items
    <3>4. Final(z, <<write>>) = made
      BY <3>3, FinalOf
    <3>5. z.member /\ ~z.rezipped
      BY <2>4 DEF Whole, Zip
    <3>6. made.item = "one" /\ made.member /\ ~made.rezipped
      BY <2>4, <3>2, <3>5
    <3>7. u \notin {"hold", "release", "zip"}
      BY <2>4, <3>5 DEF Obeys
    <3>8. Whole(made) /\ Obeys(made, u)
      BY <3>6, <3>7 DEF Whole, Obeys
    <3>9. write \in PlainWrites
      BY <3>1, PlainAreWrites DEF Items
    <3>10. <<write>> \in Seq(PlainWrites) /\ Len(<<write>>) <= 3
      BY <3>9
    <3>11. DecidesRight(kind, z, u, <<write>>)
      BY <2>1, <3>4, <3>8, <3>10, PlainAreWrites DEF DecidesRight
    <3>12. Decides(kind, z) = <<write>>
      BY <2>2, <2>4, <3>1
    <3> QED BY <3>11, <3>12
  <2>5. CASE z.member /\ z.item = "one"
    <3>1. Decides(kind, z) = Automatic
      BY <2>2, <2>5
    <3> QED BY <1>5, <2>1, <2>5, <3>1, AutomaticIsRight
  <2> QED BY <2>3, <2>4, <2>5
<1>7. CASE kind = "agent releases"
  <2>1. kind \in FlowKinds \ Clicks /\ kind # "deletes"
    BY <1>7 DEF Clicks
  <2>2. Decides(kind, z) = IF MayWrite /\ z.member /\ z.item = "agent" THEN Automatic ELSE <<>>
    BY <1>7, Zenon DEF Decides
  <2>3. CASE MayWrite /\ z.member /\ z.item = "agent"
    BY <1>5, <2>1, <2>2, <2>3, AutomaticIsRight
  <2>4. CASE ~(MayWrite /\ z.member /\ z.item = "agent")
    BY <2>1, <2>2, <2>4, NothingIsRight
  <2> QED BY <2>3, <2>4
<1>8. CASE kind = "deletes"
  <2>1. kind \in FlowKinds \ Clicks
    BY <1>8 DEF Clicks
  <2>2. Decides(kind, z) = IF z.member /\ z.item = "agent" THEN Automatic ELSE <<>>
    BY <1>8, Zenon DEF Decides
  <2>3. CASE z.member /\ z.item = "agent"
    BY <1>5, <2>1, <2>2, <2>3, AutomaticIsRight
  <2>4. CASE ~(z.member /\ z.item = "agent")
    <3>1. z.item # "agent"
      BY <1>5, <2>4
    <3> QED BY <2>1, <2>2, <2>4, <3>1, NothingIsRight
  <2> QED BY <2>3, <2>4
<1>9. CASE kind = "agent holds"
  <2>1. kind \in FlowKinds \ Clicks /\ kind # "deletes" /\ kind \notin Clicks
    BY <1>9 DEF Clicks
  <2>2. Decides(kind, z) =
          IF MayWrite /\ ~z.rezipped /\ ~(z.member /\ z.item \in {"user", "two", "one"})
          THEN <<Multi(TRUE, "agent")>> ELSE <<>>
    BY <1>9, Zenon DEF Decides
  <2>3. CASE MayWrite /\ ~z.rezipped /\ ~(z.member /\ z.item \in {"user", "two", "one"})
    <3>1. PICK made : made = Multi(TRUE, "agent")
      OBVIOUS
    <3>2. Applied(z, made) = made
      BY <3>1, AppliedFields DEF Items
    <3>3. Final(z, <<made>>) = made
      BY <3>2, FinalOf
    <3>4. made.item = "agent" /\ made.member /\ ~made.rezipped
      BY <3>1 DEF Multi
    <3>5. u # "hold" /\ u # "zip"
      BY <2>3 DEF Whole, Obeys
    <3>6. Whole(made) /\ Obeys(made, u)
      BY <3>4, <3>5 DEF Whole, Obeys
    <3>7. made \in Writes
      BY <3>1 DEF Writes
    <3>8. <<made>> \in Seq(Writes) /\ Len(<<made>>) <= 3
      BY <3>7
    <3>9. DecidesRight(kind, z, u, <<made>>)
      BY <2>1, <2>3, <3>3, <3>6, <3>8 DEF DecidesRight
    <3>10. Decides(kind, z) = <<made>>
      BY <2>2, <2>3, <3>1
    <3> QED BY <3>9, <3>10
  <2>4. CASE ~(MayWrite /\ ~z.rezipped /\ ~(z.member /\ z.item \in {"user", "two", "one"}))
    BY <2>1, <2>2, <2>4, NothingIsRight
  <2> QED BY <2>3, <2>4
<1> QED BY <1>1, <1>2, <1>3, <1>4, <1>6, <1>7, <1>8, <1>9 DEF FlowKinds, Clicks, ReplySteps

-----------------------------------------------------------------------------
(* Every step keeps the invariant.                                          *)

LEMMA ZipInvInit ==
  ASSUME ZipInit
  PROVE  ZipInv
<1>1. PICK z : z = [member |-> FALSE, item |-> "none", rezipped |-> FALSE]
  OBVIOUS
<1>2. z \in Zip /\ Whole(z) /\ Obeys(z, "none") /\ z.item # "agent"
  BY <1>1 DEF Zip, Items, Whole, Obeys
<1>3. /\ \A c \in ZipChats : zip[c] = z /\ tails[c] = NoWriter /\ word[c] = "none"
      /\ \A w \in Lockers : writer[w] = NoFlow
      /\ agent = [stored |-> TRUE, marked |-> FALSE]
  BY <1>1 DEF ZipInit
<1>4. NoFlow \in Flows /\ NoFlow.place = "idle" /\ NoFlow.todo = <<>>
  <2>1. <<>> \in Seq(Writes)
    OBVIOUS
  <2> QED BY <2>1 DEF NoFlow, Flows
<1>5. \A c \in ZipChats : Queue(c) = {} /\ InLock(c) = {}
  BY <1>3, <1>4 DEF Queue, InLock
<1>6. ZipTypes
  BY <1>1, <1>2, <1>4 DEF ZipInit, ZipTypes
<1>7. QueueIsALine
  BY <1>3, <1>5 DEF QueueIsALine
<1>8. FlowsFit
  BY <1>3, <1>4 DEF FlowsFit
<1>9. WritersObey
  BY <1>2, <1>3, <1>5 DEF WritersObey
<1>10. VisitedAreReleased
  BY <1>3 DEF VisitedAreReleased
<1> QED BY <1>6, <1>7, <1>8, <1>9, <1>10 DEF ZipInv

\* Who asks for a lock changes nothing for those inside.
LEMMA AsksKeepsInv ==
  ASSUME ZipInv, NEW w \in Lockers, NEW c \in ZipChats,
         NEW kind \in IF w = Deleter THEN {"deletes"} ELSE Clicks \cup ReplySteps,
         writer[w].place = "idle", AsksLock(w, c, kind),
         UNCHANGED <<zip, agent, word>>, toRelease' \subseteq toRelease,
         w = Deleter \/ toRelease' = toRelease,
         \A d \in toRelease \ toRelease' : d = c
  PROVE  ZipInv'
<1>1. /\ tails' \in [ZipChats -> Lockers \cup {NoWriter}] /\ writer' \in [Lockers -> Flows]
      /\ QueueIsALine' /\ FlowsFit'
      /\ \A d \in ZipChats : /\ Queue(d)' = IF d = c THEN Queue(d) \cup {w} ELSE Queue(d)
                             /\ InLock(d)' = InLock(d)
      /\ \A v \in Lockers \ {w} : writer'[v] = writer[v]
  BY AsksKeepsLock DEF ZipInv
<1>2. ZipTypes'
  BY <1>1 DEF ZipInv, ZipTypes
<1>3. \A d \in ZipChats : \A v \in InLock(d) : writer'[v] = writer[v]
  BY <1>1 DEF InLock, Queue
<1>4. WritersObey'
  BY <1>1, <1>3 DEF ZipInv, WritersObey
<1>5. \A d \in ZipChats : Released(d) => Released(d)'
  BY <1>1, <1>3 DEF Released
<1>6. VisitedAreReleased'
  <2> SUFFICES ASSUME NEW d \in ZipChats,
                      ~agent'.stored \/ (agent'.marked /\ d \notin toRelease' /\ Deleter \notin Queue(d)')
               PROVE  Released(d)
    BY <1>5 DEF VisitedAreReleased
  <2>1. CASE ~agent.stored
    BY <2>1 DEF ZipInv, VisitedAreReleased
  <2>2. CASE agent.stored
    <3>1. agent.marked /\ d \notin toRelease' /\ Deleter \notin Queue(d)'
      BY <2>2
    <3>2. Deleter \notin Queue(d) /\ (d = c => w # Deleter)
      BY <1>1, <3>1
    <3>3. d \notin toRelease
      BY <3>1, <3>2
    <3> QED BY <3>1, <3>2, <3>3 DEF ZipInv, VisitedAreReleased
  <2> QED BY <2>1, <2>2
<1> QED BY <1>1, <1>2, <1>4, <1>6 DEF ZipInv

LEMMA BeginsKeepsInv ==
  ASSUME ZipInv, NEW w \in ZipWriters, NEW c \in ZipChats, NEW kind \in Clicks \cup ReplySteps,
         WriterBegins(w, c, kind)
  PROVE  ZipInv'
<1>1. w \in Lockers /\ w # Deleter
  BY ZipAssumption DEF Lockers
<1>2. /\ writer[w].place = "idle" /\ AsksLock(w, c, kind)
      /\ UNCHANGED <<zip, agent, word>> /\ toRelease' = toRelease
  BY DEF WriterBegins
<1> QED BY <1>1, <1>2, AsksKeepsInv

LEMMA ReleasesInKeepsInv ==
  ASSUME ZipInv, NEW c \in ZipChats, ReleasesIn(c)
  PROVE  ZipInv'
<1>1. /\ writer[Deleter].place = "idle" /\ AsksLock(Deleter, c, "deletes")
      /\ UNCHANGED <<zip, agent, word>> /\ toRelease' = toRelease \ {c}
  BY DEF ReleasesIn
<1> QED BY <1>1, LockersAreNamed, AsksKeepsInv

\* It decides on what it finds in the lock, where nobody else is.
LEMMA EntersKeepsInv ==
  ASSUME ZipInv, NEW w \in Lockers, WriterEnters(w)
  PROVE  ZipInv'
<1> USE DEF ZipInv
<1>1. PICK c \in ZipChats : c = writer[w].chat
  BY DEF WriterEnters, FlowsFit
<1>2. PICK kind \in FlowKinds : kind = writer[w].kind
  <2>1. writer[w].kind \in FlowKinds
    BY DEF WriterEnters, FlowsFit, FlowKinds
  <2> QED BY <2>1
<1>3. PICK todo : todo = Decides(kind, zip[c])
  OBVIOUS
<1>4. InLock(c) = {}
  <2> SUFFICES ASSUME NEW v \in InLock(c) PROVE FALSE
    OBVIOUS
  <2>1. w \in Queue(c) /\ writer[w].after = NoWriter /\ writer[w].place = "waiting"
    BY <1>1 DEF WriterEnters, Queue, Resolved
  <2>2. v \in Queue(c) /\ writer[v].place = "inside" /\ writer[v].after = NoWriter
    BY DEF InLock, QueueIsALine
  <2> QED BY <2>1, <2>2 DEF QueueIsALine
<1>5. DecidesRight(kind, zip[c], word[c], todo)
  <2>1. zip[c] \in Zip /\ word[c] \in Clicks \cup {"none"}
    BY DEF ZipTypes
  <2>2. Whole(zip[c]) /\ Obeys(zip[c], word[c])
    BY <1>4 DEF WritersObey
  <2> QED BY <1>3, <2>1, <2>2, WritersDecideRight
<1>6. todo \in Seq(Writes) /\ Len(todo) <= 3
  BY <1>5 DEF DecidesRight
<1>7. /\ writer[w].place = "waiting" /\ Resolved(w) /\ GoesIn(w, todo)
      /\ UNCHANGED <<zip, tails, agent, toRelease, word>>
  BY <1>1, <1>2, <1>3 DEF WriterEnters, GoesIn
<1>8. /\ writer' \in [Lockers -> Flows] /\ QueueIsALine' /\ FlowsFit'
      /\ \A d \in ZipChats : /\ Queue(d)' = Queue(d)
                             /\ InLock(d)' = IF d = c THEN {w} ELSE InLock(d)
      /\ \A v \in Lockers : v # w => writer'[v] = writer[v]
      /\ writer'[w].todo = todo /\ writer'[w].kind = kind
  BY <1>1, <1>2, <1>6, <1>7, EntersKeepsLock
<1>9. ZipTypes'
  BY <1>7, <1>8 DEF ZipTypes
<1>10. \A d \in ZipChats : d # c => \A v \in InLock(d)' : v \in InLock(d) /\ writer'[v] = writer[v]
  BY <1>1, <1>8 DEF InLock, Queue
<1>11. WritersObey'
  <2> SUFFICES ASSUME NEW d \in ZipChats
      PROVE  /\ InLock(d)' = {} => Whole(zip[d]) /\ Obeys(zip[d], word[d])
             /\ \A v \in InLock(d)' :
                  /\ Whole(Final(zip[d], writer'[v].todo))
                  /\ Obeys(Final(zip[d], writer'[v].todo),
                           IF writer'[v].kind \in Clicks THEN writer'[v].kind ELSE word[d])
                  /\ writer'[v].kind = "deletes"
                       => Final(zip[d], writer'[v].todo).item # "agent"
    BY <1>7 DEF WritersObey
  <2>1. CASE d = c
    BY <1>5, <1>8, <2>1 DEF DecidesRight
  <2>2. CASE d # c
    BY <1>8, <1>10, <2>2 DEF WritersObey
  <2> QED BY <2>1, <2>2
<1>12. VisitedAreReleased'
  <2> SUFFICES ASSUME NEW d \in ZipChats,
                      ~agent.stored \/ (agent.marked /\ d \notin toRelease /\ Deleter \notin Queue(d))
               PROVE  /\ zip[d].item # "agent"
                      /\ \A v \in InLock(d)' : writer'[v].todo \in Seq(PlainWrites)
    BY <1>7, <1>8 DEF VisitedAreReleased, Released
  <2>1. Released(d)
    BY DEF VisitedAreReleased
  <2>2. CASE d = c
    <3>1. ~MayWrite
      BY DEF MayWrite
    <3> QED BY <1>5, <1>8, <2>1, <2>2, <3>1 DEF DecidesRight, Released
  <2>3. CASE d # c
    BY <1>10, <2>1, <2>3 DEF Released
  <2> QED BY <2>2, <2>3
<1> QED BY <1>8, <1>9, <1>11, <1>12

\* A write is one step to the outcome that was decided on.
LEMMA WritesKeepsInv ==
  ASSUME ZipInv, NEW w \in Lockers, WriterWrites(w)
  PROVE  ZipInv'
<1> USE DEF ZipInv
<1>1. writer[w].place = "inside" /\ writer[w].todo # <<>>
  BY DEF WriterWrites, FlowsFit
<1>2. PICK c \in ZipChats : c = writer[w].chat
  BY <1>1 DEF FlowsFit
<1>3. PICK todo \in Seq(Writes) : todo = writer[w].todo /\ todo # <<>> /\ Len(todo) <= 3
  BY <1>1 DEF ZipTypes, Flows, FlowsFit
<1>4. Head(todo) \in Writes /\ Tail(todo) \in Seq(Writes) /\ Len(Tail(todo)) <= 3
  BY <1>3
<1>5. w \in InLock(c) /\ \A v \in InLock(c) : v = w
  <2>1. w \in InLock(c)
    BY <1>1, <1>2 DEF InLock, Queue
  <2> QED BY <2>1, OneInLock
<1>6. /\ zip' = [zip EXCEPT ![c] = Applied(zip[c], Head(todo))]
      /\ writer' = [writer EXCEPT ![w].todo = Tail(todo)]
      /\ UNCHANGED <<tails, agent, toRelease, word>>
  BY <1>2, <1>3 DEF WriterWrites
<1>7. PICK rest : rest = Tail(todo)
  OBVIOUS
<1>8. /\ \A v \in Lockers : v # w => writer'[v] = writer[v]
      /\ writer'[w] = [writer[w] EXCEPT !.todo = rest] /\ writer[w] \in Flows
      /\ writer' = [v \in Lockers |-> writer'[v]]
  BY <1>6, <1>7 DEF ZipTypes
<1>9. /\ writer'[w].place = writer[w].place /\ writer'[w].chat = writer[w].chat
      /\ writer'[w].kind = writer[w].kind /\ writer'[w].after = writer[w].after
      /\ writer'[w].todo = rest
  BY <1>8 DEF Flows
<1>10. writer'[w] \in Flows
  <2>1. rest \in Seq(Writes)
    BY <1>4, <1>7
  <2> QED BY <1>8, <2>1 DEF Flows
<1>11. /\ \A d \in ZipChats : d # c => zip'[d] = zip[d]
       /\ zip'[c] = Applied(zip[c], Head(todo)) /\ zip[c] \in Zip
  BY <1>6 DEF ZipTypes
<1>12. zip'[c] \in Zip
  BY <1>4, <1>11, WriteIsTyped
<1>13. ZipTypes'
  <2>1. writer' \in [Lockers -> Flows]
    BY <1>8, <1>10 DEF ZipTypes
  <2>2. zip' \in [ZipChats -> Zip]
    BY <1>6, <1>11, <1>12 DEF ZipTypes
  <2> QED BY <1>6, <2>1, <2>2 DEF ZipTypes
<1>14. \A v \in Lockers : writer'[v].place = writer[v].place /\ writer'[v].chat = writer[v].chat
                          /\ writer'[v].after = writer[v].after /\ writer'[v].kind = writer[v].kind
  BY <1>8, <1>9
<1>15. \A d \in ZipChats : Queue(d)' = Queue(d) /\ InLock(d)' = InLock(d)
  <2>1. \A d \in ZipChats : Queue(d)' = Queue(d)
    BY <1>14 DEF Queue
  <2> QED BY <1>14, <2>1 DEF InLock, Queue
<1>16. QueueIsALine'
  <2> SUFFICES ASSUME NEW d \in ZipChats
      PROVE  /\ tails'[d] = NoWriter => Queue(d)' = {}
             /\ tails'[d] # NoWriter => tails'[d] \in Queue(d)'
             /\ \A v \in Queue(d)' :
                  writer'[v].after \in (Queue(d)' \cup {NoWriter}) \ {tails'[d]}
             /\ \A u, v \in Queue(d)' : writer'[u].after = writer'[v].after => u = v
             /\ \A S \in SUBSET Queue(d)' : S # {} => \E v \in S : writer'[v].after \notin S
             /\ \A v \in InLock(d)' : writer'[v].after = NoWriter
    BY DEF QueueIsALine
  <2>1. \A v \in Queue(d) : writer'[v].after = writer[v].after
    BY <1>14 DEF Queue
  <2>2. \A S \in SUBSET Queue(d) : S # {} => \E v \in S : writer'[v].after \notin S
    <3> SUFFICES ASSUME NEW S \in SUBSET Queue(d), S # {}
                 PROVE  \E v \in S : writer'[v].after \notin S
      OBVIOUS
    <3>1. PICK v \in S : writer[v].after \notin S
      BY DEF QueueIsALine
    <3> QED BY <2>1, <3>1
  <2>3. tails'[d] = tails[d]
    BY <1>6
  <2>4. \A v \in InLock(d) : writer'[v].after = NoWriter
    BY <2>1 DEF QueueIsALine, InLock
  <2> QED BY <1>15, <2>1, <2>2, <2>3, <2>4 DEF QueueIsALine
<1>17. FlowsFit'
  BY ZenonT(60), <1>1, <1>4, <1>7, <1>8, <1>9, <1>14 DEF FlowsFit
<1>18. \A d \in ZipChats : d # c => \A v \in InLock(d) : writer'[v] = writer[v]
  BY <1>2, <1>8 DEF InLock, Queue
<1>19. WritersObey'
  <2>1. Final(zip'[c], writer'[w].todo) = Final(zip[c], writer[w].todo)
    <3>1. Final(Applied(zip[c], Head(todo)), Tail(todo)) = Final(zip[c], todo)
      BY <1>3, WriteKeepsFinal
    <3> QED BY <1>3, <1>7, <1>9, <1>11, <3>1
  <2> SUFFICES ASSUME NEW d \in ZipChats
      PROVE  /\ InLock(d) = {} => Whole(zip'[d]) /\ Obeys(zip'[d], word[d])
             /\ \A v \in InLock(d) :
                  /\ Whole(Final(zip'[d], writer'[v].todo))
                  /\ Obeys(Final(zip'[d], writer'[v].todo),
                           IF writer'[v].kind \in Clicks THEN writer'[v].kind ELSE word[d])
                  /\ writer'[v].kind = "deletes"
                       => Final(zip'[d], writer'[v].todo).item # "agent"
    BY <1>6, <1>15 DEF WritersObey
  <2>2. CASE d = c
    BY <1>5, <1>9, <2>1, <2>2 DEF WritersObey
  <2>3. CASE d # c
    BY <1>11, <1>18, <2>3 DEF WritersObey
  <2> QED BY <2>2, <2>3
<1>20. \A d \in ZipChats : Released(d) => Released(d)'
  <2> SUFFICES ASSUME NEW d \in ZipChats, Released(d)
               PROVE  /\ zip'[d].item # "agent"
                      /\ \A v \in InLock(d) : writer'[v].todo \in Seq(PlainWrites)
    BY <1>15 DEF Released
  <2>1. CASE d = c
    <3>1. todo \in Seq(PlainWrites) /\ zip[c].item # "agent"
      BY <1>3, <1>5, <2>1 DEF Released
    <3>2. Head(todo) \in PlainWrites /\ Tail(todo) \in Seq(PlainWrites)
      BY <1>3, <3>1
    <3>3. zip'[c].item # "agent"
      BY <1>11, <3>1, <3>2, PlainIsPlain
    <3> QED BY <1>5, <1>7, <1>9, <2>1, <3>2, <3>3
  <2>2. CASE d # c
    BY <1>11, <1>18, <2>2 DEF Released
  <2> QED BY <2>1, <2>2
<1>21. VisitedAreReleased'
  BY <1>6, <1>15, <1>20 DEF VisitedAreReleased
<1> QED BY <1>13, <1>16, <1>17, <1>19, <1>21

\* What a writer leaves behind is what it decided on.
LEMMA LeavesKeepsInv ==
  ASSUME ZipInv, NEW w \in Lockers, WriterLeaves(w)
  PROVE  ZipInv'
<1> USE DEF ZipInv
<1>1. PICK c \in ZipChats : c = writer[w].chat
  BY DEF WriterLeaves, FlowsFit
<1>2. PICK place \in {"idle", "gone"} : LetsGo(w, place)
  BY DEF WriterLeaves
<1>3. /\ writer[w].place = "inside" /\ writer[w].todo = <<>> /\ ClearsOwnTail(w)
      /\ UNCHANGED <<zip, agent, toRelease>>
      /\ word' = IF writer[w].kind \in Clicks THEN [word EXCEPT ![c] = writer[w].kind] ELSE word
  BY <1>1 DEF WriterLeaves
<1>4. /\ tails' \in [ZipChats -> Lockers \cup {NoWriter}] /\ writer' \in [Lockers -> Flows]
      /\ QueueIsALine' /\ FlowsFit'
      /\ \A d \in ZipChats : /\ Queue(d)' = IF d = c THEN Queue(d) \ {w} ELSE Queue(d)
                             /\ InLock(d)' = IF d = c THEN {} ELSE InLock(d)
      /\ \A v \in Lockers \ {w} :
           writer'[v].todo = writer[v].todo /\ writer'[v].kind = writer[v].kind
  BY <1>1, <1>2, <1>3, LeavesKeepsLock
<1>5. /\ \A d \in ZipChats : d # c => word'[d] = word[d]
      /\ word'[c] = IF writer[w].kind \in Clicks THEN writer[w].kind ELSE word[c]
      /\ word' \in [ZipChats -> Clicks \cup {"none"}]
  BY <1>3 DEF ZipTypes
<1>6. ZipTypes'
  BY <1>3, <1>4, <1>5 DEF ZipTypes
<1>7. w \in InLock(c) /\ Final(zip[c], writer[w].todo) = zip[c]
  BY <1>1, <1>3, FinalOf DEF InLock, Queue
<1>8. /\ Whole(zip[c]) /\ Obeys(zip[c], word'[c])
      /\ writer[w].kind = "deletes" => zip[c].item # "agent"
  BY <1>5, <1>7 DEF WritersObey
<1>9. \A d \in ZipChats : d # c => \A v \in InLock(d) :
        writer'[v].todo = writer[v].todo /\ writer'[v].kind = writer[v].kind
  BY <1>1, <1>4 DEF InLock, Queue
<1>10. WritersObey'
  <2> SUFFICES ASSUME NEW d \in ZipChats
      PROVE  /\ InLock(d)' = {} => Whole(zip[d]) /\ Obeys(zip[d], word'[d])
             /\ \A v \in InLock(d)' :
                  /\ Whole(Final(zip[d], writer'[v].todo))
                  /\ Obeys(Final(zip[d], writer'[v].todo),
                           IF writer'[v].kind \in Clicks THEN writer'[v].kind ELSE word'[d])
                  /\ writer'[v].kind = "deletes"
                       => Final(zip[d], writer'[v].todo).item # "agent"
    BY <1>3 DEF WritersObey
  <2>1. CASE d = c
    BY <1>4, <1>8, <2>1
  <2>2. CASE d # c
    BY <1>4, <1>5, <1>9, <2>2 DEF WritersObey
  <2> QED BY <2>1, <2>2
<1>11. \A d \in ZipChats : Released(d) => Released(d)'
  BY <1>3, <1>4, <1>9 DEF Released
<1>12. VisitedAreReleased'
  <2> SUFFICES ASSUME NEW d \in ZipChats,
                      ~agent.stored \/ (agent.marked /\ d \notin toRelease /\ Deleter \notin Queue(d)')
               PROVE  Released(d)'
    BY <1>3 DEF VisitedAreReleased
  <2>1. CASE d = c /\ w = Deleter
    <3>1. writer[w].kind = "deletes"
      BY <1>3, <2>1 DEF FlowsFit
    <3> QED BY <1>3, <1>4, <1>8, <2>1, <3>1 DEF Released
  <2>2. CASE d # c \/ w # Deleter
    <3>1. Deleter \notin Queue(d)' => Deleter \notin Queue(d)
      BY <1>4, <2>2
    <3> QED BY <1>11, <3>1 DEF VisitedAreReleased
  <2> QED BY <2>1, <2>2
<1> QED BY <1>4, <1>6, <1>10, <1>12

\* The steps of the delete but its visits.
LEMMA DeleteKeepsInv ==
  ASSUME ZipInv, AgentIsMarked \/ AgentIsDeleted \/ MarkGoes
  PROVE  ZipInv'
<1> USE DEF ZipInv
<1>1. UNCHANGED <<zip, tails, writer, word>>
  BY DEF AgentIsMarked, AgentIsDeleted, MarkGoes
<1>2. ZipTypes'
  BY <1>1 DEF ZipTypes, AgentIsMarked, AgentIsDeleted, MarkGoes
<1>3. \A c \in ZipChats : Queue(c)' = Queue(c) /\ InLock(c)' = InLock(c)
  BY <1>1 DEF Queue, InLock
<1>4. QueueIsALine'
  BY <1>1, <1>3 DEF QueueIsALine
<1>5. FlowsFit' /\ WritersObey'
  BY <1>1, <1>3 DEF FlowsFit, WritersObey
<1>6. \A c \in ZipChats : Released(c)' = Released(c)
  BY <1>1, <1>3 DEF Released
<1>7. CASE AgentIsDeleted
  <2>1. \A c \in ZipChats : Deleter \notin Queue(c)
    BY <1>7 DEF AgentIsDeleted, Queue
  <2>2. \A c \in ZipChats : Released(c)
    BY <1>7, <2>1 DEF AgentIsDeleted, VisitedAreReleased
  <2>3. VisitedAreReleased'
    BY <1>6, <2>2 DEF VisitedAreReleased
  <2> QED BY <1>2, <1>4, <1>5, <2>3
<1>8. CASE MarkGoes
  <2>1. agent'.stored = agent.stored /\ ~agent'.marked
    BY <1>8 DEF MarkGoes, ZipTypes
  <2>2. VisitedAreReleased'
    BY <1>6, <2>1 DEF VisitedAreReleased
  <2> QED BY <1>2, <1>4, <1>5, <2>2
<1>9. CASE AgentIsMarked
  <2>1. agent'.stored /\ toRelease' = ZipChats
    BY <1>9 DEF AgentIsMarked, ZipTypes
  <2>2. VisitedAreReleased'
    BY <2>1 DEF VisitedAreReleased
  <2> QED BY <1>2, <1>4, <1>5, <2>2
<1> QED BY <1>7, <1>8, <1>9

LEMMA ZipInvNext ==
  ASSUME ZipInv, [ZipNext]_zipVars
  PROVE  ZipInv'
<1>1. CASE UNCHANGED zipVars
  <2>1. UNCHANGED <<zip, tails, writer, agent, toRelease, word>>
    BY <1>1 DEF zipVars
  <2>2. ZipTypes' /\ FlowsFit'
    BY <2>1 DEF ZipInv, ZipTypes, FlowsFit
  <2>3. \A c \in ZipChats : Queue(c)' = Queue(c) /\ InLock(c)' = InLock(c)
    BY <2>1 DEF Queue, InLock
  <2>4. QueueIsALine' /\ WritersObey' /\ VisitedAreReleased'
    BY <2>1, <2>3 DEF ZipInv, QueueIsALine, WritersObey, VisitedAreReleased, Released
  <2> QED BY <2>2, <2>4 DEF ZipInv
<1>2. CASE \E w \in ZipWriters, c \in ZipChats, kind \in Clicks \cup ReplySteps :
             WriterBegins(w, c, kind)
  BY <1>2, BeginsKeepsInv
<1>3. CASE \E w \in Lockers : WriterEnters(w) \/ WriterWrites(w) \/ WriterLeaves(w)
  BY <1>3, EntersKeepsInv, WritesKeepsInv, LeavesKeepsInv
<1>4. CASE AgentIsMarked \/ AgentIsDeleted \/ MarkGoes
  BY <1>4, DeleteKeepsInv
<1>5. CASE \E c \in ZipChats : ReleasesIn(c)
  BY <1>5, ReleasesInKeepsInv
<1> QED BY <1>1, <1>2, <1>3, <1>4, <1>5 DEF ZipNext

\* The invariant holds in every state that the zip writers can reach: each chat's lock
\* is a line with one writer in it, and what is decided there is what ends up written.
THEOREM ZipInvariant == ZipSpec => []ZipInv
<1>1. ZipInit => ZipInv
  BY ZipInvInit
<1>2. ZipInv /\ [ZipNext]_zipVars => ZipInv'
  BY ZipInvNext
<1> QED BY <1>1, <1>2, PTL DEF ZipSpec

\* The user's last click stands, whatever reply ends and countdowns write beside it.
THEOREM WordStands == ZipSpec => []UsersWordStands
<1>1. ZipInv => UsersWordStands
  <2> SUFFICES ASSUME ZipInv, NEW c \in ZipChats,
                      \A w \in Lockers : ~(writer[w].place = "inside" /\ writer[w].chat = c)
               PROVE  Whole(zip[c]) /\ Obeys(zip[c], word[c])
    BY DEF UsersWordStands, Whole, Obeys
  <2>1. InLock(c) = {}
    BY DEF InLock, Queue
  <2> QED BY <2>1 DEF ZipInv, WritersObey
<1> QED BY <1>1, ZipInvariant, PTL

\* An agent that is gone holds nothing, in any chat.
THEOREM GoneAgentsHoldNothing == ZipSpec => []NoHoldOutlivesItsAgent
<1>1. ZipInv => NoHoldOutlivesItsAgent
  BY DEF ZipInv, VisitedAreReleased, Released, NoHoldOutlivesItsAgent
<1> QED BY <1>1, ZipInvariant, PTL
=============================================================================
