---------------------------- MODULE SandboxGate ----------------------------
(***************************************************************************)
(* One named execution sandbox: the gate that owns its lifecycle            *)
(* (sandboxLifecycleGate.ts), the tool calls that run commands in it, and   *)
(* who removes it: the sweeps of the turns of its chat, the prune every     *)
(* chat runs, and, for a sandbox of no chat, the last command in it.        *)
(* Gates of different names share nothing.  How a turn comes by the chat's  *)
(* lock, and loses it, is SessionTurns; here it may lose it at any time.    *)
(***************************************************************************)
EXTENDS Naturals, Sequences

CONSTANTS
  Calls,    \* the tool calls that use the sandbox
  Turns,    \* the turns of the chat
  TurnOf,   \* the turn a call belongs to
  Nobody

ASSUME GateAssumption ==
  /\ TurnOf \in [Calls -> Turns]
  /\ Calls \cap Turns = {} /\ Nobody \notin Calls \cup Turns

VARIABLES
  owner,      \* whose sandbox it is: a chat's, of Docker or of Apple, or nobody's
  box,        \* the sandbox, as its CLI lists it
  ops,        \* the gate's chain of operations; the head is running or next
  stage,      \* how far the head has come
  leases,     \* the calls that hold a lease
  call,       \* each call's place
  used,       \* dockerSandboxSessionsUsed has the chat (Apple's keeps no such set)
  pruned,     \* the prune's place
  holder,     \* the turn that holds the chat's lock
  present,    \* the registered turns of the chat (runningRequests)
  turn,       \* each turn's place
  late        \* <<u, t>>: t took the chat while a sweep of u was under way

gateVars == <<owner, box, ops, stage, leases, call, used, pruned, holder, present, turn, late>>
callVars == <<leases, call>>
turnVars == <<holder, present, turn, late>>

\* absent, or there: in use or stopped a short while ago, stopped for an hour,
\* or in a state no command can run in.
Boxes == {"absent", "usable", "abandoned", "broken"}
\* A sandbox of no chat goes with the last command in it.
Owners == {"docker", "apple", "nobody"}
Kinds == {"ensure", "ifIdle", "ifAbandoned", "sweep"}
Stages == {"next", "checking", "replacing", "creating", "policy", "removing"}
CallPlaces == {"idle", "ensuring", "executing", "removing", "done"}
TurnPlaces == { "idle", "starting", "startListed", "running",
                "ending", "endListed", "leaving", "done" }

Operations ==
  [ kind     : Kinds,
    by       : Calls \cup Turns \cup {Nobody},   \* whom a removal is for
    joined   : SUBSET Calls,                     \* whom an ensure is for
    open     : BOOLEAN,                          \* it is the inFlightEnsure
    earlier  : SUBSET Calls ]                    \* who held a lease when it was queued

GateInit ==
  /\ owner \in Owners
  /\ box = "absent" /\ ops = <<>> /\ stage = "next"
  /\ leases = {} /\ call = [c \in Calls |-> "idle"]
  /\ used = FALSE /\ pruned = "idle"
  /\ holder = Nobody /\ present = {} /\ turn = [t \in Turns |-> "idle"] /\ late = {}

-----------------------------------------------------------------------------
(* The gate.                                                                *)

IsBusy == leases # {} \/ ops # <<>>

Operation(kind, who, joined) ==
  [kind |-> kind, by |-> who, joined |-> joined, open |-> kind = "ensure", earlier |-> leases]

\* ensure: join the one in flight, or queue one.
JoinOrEnsure(q, c) ==
  IF \E i \in DOMAIN q : q[i].open
  THEN [i \in DOMAIN q |->
          IF q[i].open THEN [q[i] EXCEPT !.joined = @ \cup {c}] ELSE q[i]]
  ELSE Append(q, Operation("ensure", Nobody, {c}))

\* A mistake: the removal leaves the ensure that is queued before it in flight.
EnqueueRemovalStillOpen(q, kind, who) == Append(q, Operation(kind, who, {}))

\* enqueueRemoval: who comes after it may not join an ensure from before it.
EnqueueRemoval(q, kind, who) ==
  Append([i \in DOMAIN q |-> [q[i] EXCEPT !.open = FALSE]], Operation(kind, who, {}))

HeadIs(kind, at) == ops # <<>> /\ Head(ops).kind = kind /\ stage = at

Go(at) == stage' = at /\ UNCHANGED <<ops, call, leases, used, pruned, turn>>

\* The head is settled: the next one's turn comes, and whom it was for resumes.
\* A call whose ensure failed returns, and so lets its lease go.
HeadSettles(ok) ==
  LET op == Head(ops)
  IN  /\ ops' = Tail(ops) /\ stage' = "next"
      /\ leases' = IF ok THEN leases ELSE leases \ op.joined
      /\ call' = [c \in Calls |->
                    IF c \in op.joined THEN IF ok THEN "executing" ELSE "done"
                    ELSE IF c = op.by THEN "done" ELSE call[c]]
      /\ used' = (used \/ (ok /\ op.kind = "ensure" /\ owner = "docker"))
      /\ pruned' = IF op.kind = "ifAbandoned" THEN "idle" ELSE pruned
      /\ turn' = [t \in Turns |->
                    IF t # op.by THEN turn[t]
                    ELSE IF turn[t] = "startListed" THEN "running" ELSE "leaving"]

ChainUnchanged == UNCHANGED <<owner, holder, present, late>>

-----------------------------------------------------------------------------
(* The operations (startDockerSandbox, bestEffortRemoveDockerSandbox).      *)

EnsureLooks ==
  /\ HeadIs("ensure", "next")
  /\ \/ Go(CASE box = "absent" -> "creating" [] box = "broken" -> "replacing" [] OTHER -> "policy")
     \/ HeadSettles(FALSE)
  /\ UNCHANGED box /\ ChainUnchanged

EnsureReplaces ==
  /\ HeadIs("ensure", "replacing")
  /\ \/ box' = "absent" /\ Go("creating")
     \/ UNCHANGED box /\ HeadSettles(FALSE)
  /\ ChainUnchanged

EnsureCreates ==
  /\ HeadIs("ensure", "creating")
  /\ \/ box' = "usable" /\ Go("policy")
     \/ UNCHANGED box /\ HeadSettles(FALSE)
  /\ ChainUnchanged

\* A sandbox that is not running stays stopped until a command starts it.
EnsureEnds ==
  /\ HeadIs("ensure", "policy")
  /\ \E ok \in BOOLEAN : HeadSettles(ok)
  /\ UNCHANGED box /\ ChainUnchanged

\* A removal's turn: whether a lease is out is asked now.
TurnComes(kind) ==
  IF kind # "sweep" /\ leases # {} THEN HeadSettles(TRUE)
  ELSE Go(IF kind = "ifAbandoned" THEN "checking" ELSE "removing")

RemovalStarts(kind) ==
  /\ kind # "ensure" /\ HeadIs(kind, "next")
  /\ TurnComes(kind)
  /\ UNCHANGED box /\ ChainUnchanged

\* The prune's list is old by now.
StillAbandoned ==
  /\ HeadIs("ifAbandoned", "checking")
  /\ IF box = "abandoned" THEN Go("removing") ELSE HeadSettles(TRUE)
  /\ UNCHANGED box /\ ChainUnchanged

Removes ==
  /\ ops # <<>> /\ stage = "removing"
  /\ box' \in {"absent", box}
  /\ HeadSettles(TRUE) /\ ChainUnchanged

GateStep ==
  \/ EnsureLooks \/ EnsureReplaces \/ EnsureCreates \/ EnsureEnds
  \/ \E kind \in Kinds : RemovalStarts(kind)
  \/ StillAbandoned \/ Removes

-----------------------------------------------------------------------------
(* The calls (runDockerSandboxCommand).                                     *)

CallBegins(c) ==
  /\ call[c] = "idle"
  /\ owner = "nobody" \/ turn[TurnOf[c]] = "running"
  /\ leases' = leases \cup {c}
  /\ ops' = JoinOrEnsure(ops, c)
  /\ call' = [call EXCEPT ![c] = "ensuring"]
  /\ UNCHANGED <<owner, box, stage, used, pruned>> /\ UNCHANGED turnVars

\* A command ends, with its own end, a Stop's, or its sandbox's.
CallEnds(c) ==
  /\ call[c] = "executing"
  /\ leases' = leases \ {c}
  /\ IF owner = "nobody"
     THEN /\ ops' = EnqueueRemoval(ops, "ifIdle", c)
          /\ call' = [call EXCEPT ![c] = "removing"]
     ELSE /\ ops' = ops
          /\ call' = [call EXCEPT ![c] = "done"]
  /\ UNCHANGED <<owner, box, stage, used, pruned>> /\ UNCHANGED turnVars

\* What becomes of a sandbox by itself.
BoxAges ==
  /\ \/ /\ box = "usable" /\ box' = "abandoned"
        /\ \A c \in Calls : call[c] # "executing"
     \/ box \in {"usable", "abandoned"} /\ box' = "broken"
  /\ UNCHANGED <<owner, ops, stage, used, pruned>> /\ UNCHANGED <<callVars, turnVars>>

\* A command in a stopped sandbox starts it.
CommandStarts ==
  /\ box = "abandoned" /\ \E c \in Calls : call[c] = "executing"
  /\ box' = "usable"
  /\ UNCHANGED <<owner, ops, stage, used, pruned>> /\ UNCHANGED <<callVars, turnVars>>

\* The prune, by whichever chat: its list, and later its removal.
PruneLists ==
  /\ pruned = "idle" /\ box = "abandoned" /\ ~IsBusy
  /\ pruned' = "listed"
  /\ UNCHANGED <<owner, box, ops, stage, used>> /\ UNCHANGED <<callVars, turnVars>>

PruneQueues ==
  /\ pruned = "listed"
  /\ ops' = EnqueueRemoval(ops, "ifAbandoned", Nobody) /\ pruned' = "queued"
  /\ UNCHANGED <<owner, box, stage, used>> /\ UNCHANGED <<callVars, turnVars>>

-----------------------------------------------------------------------------
(* The turns and their sweeps.                                              *)

\* cleanupDockerSandboxesForSession (cleanupApple...: no such set), up to its first await.
ListingBegins(t, listing, past) ==
  /\ turn' = [turn EXCEPT ![t] = IF used \/ owner = "apple" THEN listing ELSE past]
  /\ used' = FALSE

\* The pre-run sweep stands aside for a request that still runs.
TurnStarts(t) ==
  /\ owner # "nobody" /\ turn[t] = "idle" /\ holder = Nobody
  /\ holder' = t /\ present' = present \cup {t}
  /\ LET gone == {u \in present : turn[u] \in TurnPlaces \ {"running", "leaving"}}
     IN  late' = late \cup {<<u, t>> : u \in gone}
  /\ IF present = {}
     THEN ListingBegins(t, "starting", "running")
     ELSE turn' = [turn EXCEPT ![t] = "running"] /\ used' = used
  /\ UNCHANGED <<owner, box, ops, stage, pruned>> /\ UNCHANGED callVars

LockGoes ==
  /\ holder # Nobody
  /\ holder' = Nobody
  /\ UNCHANGED <<owner, box, ops, stage, used, pruned, present, turn, late>>
  /\ UNCHANGED callVars

\* A mistake: the run-end sweep does not ask who holds the chat.
MaySweepAtEnd(t) == TRUE

\* isSessionTurnHeldByAnother
MaySweep(t) == holder \in {t, Nobody}

TurnEnds(t) ==
  /\ turn[t] = "running"
  /\ IF MaySweep(t)
     THEN ListingBegins(t, "ending", "leaving")
     ELSE turn' = [turn EXCEPT ![t] = "leaving"] /\ used' = used
  /\ UNCHANGED <<owner, box, ops, stage, pruned, holder, present, late>>
  /\ UNCHANGED callVars

\* The sweep's list has come: it removes what is on it, leased or not.
SweepListed(t) ==
  /\ turn[t] \in {"starting", "ending"}
  /\ LET atStart == turn[t] = "starting"
     IN  IF box = "absent"
         THEN ops' = ops /\ turn' = [turn EXCEPT ![t] = IF atStart THEN "running" ELSE "leaving"]
         ELSE /\ ops' = EnqueueRemoval(ops, "sweep", t)
              /\ turn' = [turn EXCEPT ![t] = IF atStart THEN "startListed" ELSE "endListed"]
  /\ UNCHANGED <<owner, box, stage, used, pruned, holder, present, late>>
  /\ UNCHANGED callVars

TurnLeaves(t) ==
  /\ turn[t] = "leaving"
  /\ holder' = IF holder = t THEN Nobody ELSE holder
  /\ present' = present \ {t}
  /\ turn' = [turn EXCEPT ![t] = "done"]
  /\ UNCHANGED <<owner, box, ops, stage, used, pruned, late>> /\ UNCHANGED callVars

GateNext ==
  \/ GateStep
  \/ \E c \in Calls : CallBegins(c) \/ CallEnds(c)
  \/ BoxAges \/ CommandStarts \/ PruneLists \/ PruneQueues \/ LockGoes
  \/ \E t \in Turns : TurnStarts(t) \/ TurnEnds(t) \/ SweepListed(t) \/ TurnLeaves(t)

GateSpec == GateInit /\ [][GateNext]_gateVars

-----------------------------------------------------------------------------
(* Properties.                                                              *)

\* The variables' types; whoever runs or awaits a command holds a lease.
GateTypeOK ==
  /\ owner \in Owners /\ box \in Boxes
  /\ ops \in Seq(Operations) /\ stage \in Stages
  /\ leases \subseteq Calls /\ call \in [Calls -> CallPlaces]
  /\ used \in BOOLEAN /\ pruned \in {"idle", "listed", "queued"}
  /\ holder \in Turns \cup {Nobody} /\ present \subseteq Turns
  /\ turn \in [Turns -> TurnPlaces] /\ late \subseteq Turns \X Turns

\* The sandbox that a call was told is ready is taken away.
Taken(c) == call[c] = "executing" /\ box \in {"usable", "abandoned"} /\ box' = "absent"

\* A sandbox goes from under a call only by a sweep, and only by one that was
\* queued when the call was there already: no prune, no other command's end and
\* no removal that waited while the call asked for the sandbox takes it.
OnlyLaterSweepsTake ==
  [][\A c \in Calls :
       Taken(c) => Head(ops).kind = "sweep" /\ c \in Head(ops).earlier]_gateVars

\* A sweep takes the sandbox from a call of another turn that holds the chat (a
\* pre-run sweep: of any other turn that runs) only if that turn came while the sweep,
\* which had asked who holds the chat, was under way.
SweepsSpareTheLiveTurn ==
  [][\A c \in Calls, u \in Turns :
       LET t == TurnOf[c]
       IN  /\ owner # "nobody" /\ Taken(c) /\ Head(ops).by = u /\ t # u
           /\ holder = t \/ (turn[u] = "startListed" /\ t \in present)
           => <<u, t>> \in late]_gateVars
=============================================================================
