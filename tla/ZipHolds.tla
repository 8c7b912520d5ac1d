------------------------------ MODULE ZipHolds ------------------------------
(***************************************************************************)
(* The zip state of an agent's chats, its writers and their lock            *)
(* (zipStateLock.ts): the user's clicks (api/unzipping), the agent's hold   *)
(* and the countdown at a reply's end (zipHolds.ts), and the delete of the  *)
(* agent, which releases its holds chat by chat (redis.ts).  One zip of     *)
(* each chat is enough: zips of a chat are written apart.  A nested call    *)
(* for the same chat runs as a part of its outer one.                       *)
(***************************************************************************)
EXTENDS Sequences, FiniteSets

CONSTANTS
  ZipChats,
  ZipWriters,   \* one click, or one step of a reply's end, each
  Deleter,      \* the request that deletes the agent
  NoWriter

ASSUME ZipAssumption == Deleter \notin ZipWriters /\ NoWriter \notin ZipWriters \cup {Deleter}

Lockers == ZipWriters \cup {Deleter}

VARIABLES
  zip,        \* each chat's zip: member of the unzipped set, its item, rezipped
  tails,      \* tails of the lock, by chat
  writer,     \* each locker's flow: its place, chat, kind, what it waits for, what it
              \* has still to write
  agent,      \* the agent's record, and its mark
  toRelease,  \* the chats the delete has still to visit
  word        \* the user's last click in each chat

zipVars == <<zip, tails, writer, agent, toRelease, word>>

\* An item is held by the user, or for two more messages, or one, or by the agent.
Items == {"none", "user", "two", "one", "agent"}
Clicks == {"hold", "count", "release", "zip"}
ReplySteps == {"agent holds", "agent releases", "countdown"}
NoFlow == [place |-> "idle", chat |-> NoWriter, kind |-> "none", after |-> NoWriter,
           todo |-> <<>>]

ZipInit ==
  /\ zip = [c \in ZipChats |-> [member |-> FALSE, item |-> "none", rezipped |-> FALSE]]
  /\ tails = [c \in ZipChats |-> NoWriter]
  /\ writer = [w \in Lockers |-> NoFlow]
  /\ agent = [stored |-> TRUE, marked |-> FALSE]
  /\ toRelease = {}
  /\ word = [c \in ZipChats |-> "none"]

-----------------------------------------------------------------------------
(* withZipStateLock.                                                        *)

AsksLock(w, c, kind) ==
  /\ tails' = [tails EXCEPT ![c] = w]
  /\ writer' = [writer EXCEPT ![w] =
       [place |-> "waiting", chat |-> c, kind |-> kind, after |-> tails[c], todo |-> <<>>]]

\* The promise that w waits for, its predecessor's, has resolved, or there was none.
Resolved(w) == writer[w].after = NoWriter

\* w lets go: its own promise resolves, to whoever waits for it.
LetsGo(w, place) ==
  writer' = [v \in Lockers |->
    IF v = w THEN [writer[v] EXCEPT !.place = place]
    ELSE IF writer[v].after = w THEN [writer[v] EXCEPT !.after = NoWriter] ELSE writer[v]]

\* A mistake: whoever leaves takes the tail along.
ClearsTail(w) == tails' = [tails EXCEPT ![writer[w].chat] = NoWriter]

\* Only the last in line takes the tail along.
ClearsOwnTail(w) ==
  tails' = IF tails[writer[w].chat] = w THEN [tails EXCEPT ![writer[w].chat] = NoWriter] ELSE tails

-----------------------------------------------------------------------------
(* What a writer reads, and then writes.                                    *)

\* A write of some fields, or of all.
Applied(z, write) ==
  [field \in DOMAIN z |-> IF field \in DOMAIN write THEN write[field] ELSE z[field]]

\* One MULTI (returnToAutomatic, writeUnzippedItem).
Multi(member, item) == [member |-> member, item |-> item, rezipped |-> FALSE]
Automatic == <<Multi(FALSE, "none")>>

\* A mistake: a mark of the delete is not asked about.
OnRecord == agent.stored

\* agentMayWriteZipState.
MayWrite == ~agent.marked /\ agent.stored

\* The writes a flow decides on, at what it finds.  The clicks' are not in one MULTI.
Decides(kind, z) ==
  CASE kind = "hold"    -> <<[member |-> TRUE], [rezipped |-> FALSE], [item |-> "user"]>>
    [] kind = "count"   -> <<[member |-> TRUE], [rezipped |-> FALSE], [item |-> "two"]>>
    [] kind = "release" -> <<[member |-> FALSE], [item |-> "none"], [rezipped |-> FALSE]>>
    [] kind = "zip"     -> <<[member |-> FALSE], [item |-> "none"], [rezipped |-> TRUE]>>
    [] kind = "countdown" ->
         IF ~z.member \/ z.item \notin {"two", "one"} THEN <<>>
         ELSE IF z.item = "two" THEN <<[item |-> "one"]>> ELSE Automatic
    [] kind = "agent holds" ->
         IF MayWrite /\ ~z.rezipped /\ ~(z.member /\ z.item \in {"user", "two", "one"})
         THEN <<Multi(TRUE, "agent")>> ELSE <<>>
    [] kind = "agent releases" ->
         IF MayWrite /\ z.member /\ z.item = "agent" THEN Automatic ELSE <<>>
    [] kind = "deletes" -> IF z.member /\ z.item = "agent" THEN Automatic ELSE <<>>

-----------------------------------------------------------------------------
WriterBegins(w, c, kind) ==
  /\ writer[w].place = "idle" /\ AsksLock(w, c, kind)
  /\ UNCHANGED <<zip, agent, toRelease, word>>

\* Its turn has come: it reads, and decides.
WriterEnters(w) ==
  /\ writer[w].place = "waiting" /\ Resolved(w)
  /\ writer' = [writer EXCEPT ![w].place = "inside",
                              ![w].todo = Decides(writer[w].kind, zip[writer[w].chat])]
  /\ UNCHANGED <<zip, tails, agent, toRelease, word>>

WriterWrites(w) ==
  /\ writer[w].todo # <<>>
  /\ zip' = [zip EXCEPT ![writer[w].chat] = Applied(@, Head(writer[w].todo))]
  /\ writer' = [writer EXCEPT ![w].todo = Tail(@)]
  /\ UNCHANGED <<tails, agent, toRelease, word>>

WriterLeaves(w) ==
  /\ writer[w].place = "inside" /\ writer[w].todo = <<>>
  /\ ClearsOwnTail(w)
  /\ LetsGo(w, IF w = Deleter THEN "idle" ELSE "gone")
  /\ word' = IF writer[w].kind \in Clicks THEN [word EXCEPT ![writer[w].chat] = writer[w].kind]
                                          ELSE word
  /\ UNCHANGED <<zip, agent, toRelease>>

-----------------------------------------------------------------------------
(* deleteAgent.                                                             *)

AgentIsMarked ==
  /\ agent.stored /\ ~agent.marked /\ agent' = [agent EXCEPT !.marked = TRUE]
  /\ toRelease' = ZipChats
  /\ UNCHANGED <<zip, tails, writer, word>>

ReleasesIn(c) ==
  /\ agent.marked /\ writer[Deleter].place = "idle"
  /\ c \in toRelease /\ toRelease' = toRelease \ {c}
  /\ AsksLock(Deleter, c, "deletes")
  /\ UNCHANGED <<zip, agent, word>>

\* Every chat was visited: the record goes, and then the mark.
AgentIsDeleted ==
  /\ agent.marked /\ agent.stored /\ toRelease = {} /\ writer[Deleter].place = "idle"
  /\ agent' = [agent EXCEPT !.stored = FALSE]
  /\ UNCHANGED <<zip, tails, writer, toRelease, word>>

\* At the end, or where the delete failed.
MarkGoes ==
  /\ agent.marked /\ writer[Deleter].place = "idle"
  /\ agent' = [agent EXCEPT !.marked = FALSE] /\ toRelease' = {}
  /\ UNCHANGED <<zip, tails, writer, word>>

ZipNext ==
  \/ \E w \in ZipWriters, c \in ZipChats, kind \in Clicks \cup ReplySteps :
       WriterBegins(w, c, kind)
  \/ \E w \in Lockers : WriterEnters(w) \/ WriterWrites(w) \/ WriterLeaves(w)
  \/ AgentIsMarked \/ AgentIsDeleted \/ MarkGoes
  \/ \E c \in ZipChats : ReleasesIn(c)

ZipSpec == ZipInit /\ [][ZipNext]_zipVars

-----------------------------------------------------------------------------
(* Properties.                                                              *)

ZipTypeOK ==
  /\ zip \in [ZipChats -> [member : BOOLEAN, item : Items, rezipped : BOOLEAN]]
  /\ tails \in [ZipChats -> Lockers \cup {NoWriter}]
  /\ \A w \in Lockers :
       /\ writer[w].place \in {"idle", "waiting", "inside", "gone"}
       /\ writer[w].chat \in ZipChats \cup {NoWriter}
       /\ writer[w].after \in Lockers \cup {NoWriter}
       /\ writer[w].kind \in Clicks \cup ReplySteps \cup {"none", "deletes"}
  /\ agent \in [stored : BOOLEAN, marked : BOOLEAN]
  /\ toRelease \subseteq ZipChats
  /\ word \in [ZipChats -> Clicks \cup {"none"}]

\* With nobody in a chat's lock: what is open has its item, and the reverse, and is
\* not forced compressed; and the user's last click there stands, whatever reply
\* ends and countdowns read before it and wrote after it.
UsersWordStands ==
  \A c \in ZipChats :
    (\A w \in Lockers : ~(writer[w].place = "inside" /\ writer[w].chat = c)) =>
      /\ zip[c].member = (zip[c].item # "none")
      /\ ~(zip[c].member /\ zip[c].rezipped)
      /\ word[c] = "hold" => zip[c].item = "user"
      /\ word[c] = "count" => zip[c].item # "user"
      /\ word[c] = "release" => zip[c].item \in {"none", "agent"} /\ ~zip[c].rezipped
      /\ word[c] = "zip" => zip[c].rezipped

\* An agent that is gone holds nothing, in a chat that its delete had visited before
\* one of its turns ended there just as well.
NoHoldOutlivesItsAgent == ~agent.stored => \A c \in ZipChats : zip[c].item # "agent"
=============================================================================
