--------------------------- MODULE ContextSurgery ---------------------------
(***************************************************************************)
(* Context operations on a conversation that goes on: the commands the     *)
(* runner takes (command-handler.ts, context-ops.ts), on the memory of the *)
(* CLI while its socket is connected and on the transcript otherwise, with *)
(* turns, compactions, snapshots, a fork and its merge-back (run-turn.ts,  *)
(* merge-back.ts) in between.  Every await is a step's end, and the CLI    *)
(* changes its messages meanwhile.                                         *)
(***************************************************************************)
EXTENDS MemIpc

CONSTANTS
  Merge,      \* the operation that is the merge-back of the fork
  Keep,       \* keep_last_n of the truncations
  Faults      \* a set of "breaks", "compacts", "forks", "sidechain"

ASSUME OpsAssumption == Merge \in Ops /\ Keep \in Nat \ {0}

\* The uuids are handed out in order: the bound on the messages is their number,
\* and the conversations it begins with have up to three.
ASSUME UuidsAssumption ==
  IsFiniteSet(Uuids) /\ Uuids = 1 .. Cardinality(Uuids) /\ Cardinality(Uuids) >= 3

VARIABLES
  file,        \* the transcript of the session sdkSessionId names
  made,        \* the number of messages made so far
  turn,        \* "idle", "running", "snapshot" (awaits emitSnapshot), "forking"
  forked,      \* has a forked session become the foreground?
  background,  \* "none", "running", "merging", "told": the turn a fork left
  ops,         \* the operations: where each stands and how it ended
  stale,       \* the operations since whose read positions have shifted
  applied      \* the operations whose change has been made

surgeryVars == <<file, made, turn, forked, background, ops, stale, applied>>
vars == <<ipcVars, surgeryVars>>

Reads == {"get_context", "get_stats", "snapshot"}
Edits == {"remove", "inject", "truncate", "rewind", "merge"}

Off == [pc |-> "off", kind |-> "get_context", uuid |-> End, new |-> Root, seen |-> <<>>,
        result |-> "none"]

TypeOK ==
  /\ IpcTypeOK
  /\ file \in Seq(Records)
  /\ made \in Nat
  /\ turn \in {"idle", "running", "snapshot", "forking"}
  /\ forked \in BOOLEAN
  /\ background \in {"none", "running", "merging", "told"}
  /\ ops \in [Ops -> [pc : {"off", "reading", "rereading", "editing", "done"},
                      kind : Reads \cup Edits, uuid : Uuids \cup {Start, End},
                      new : Uuids \cup {Root}, seen : Seq(Uuids),
                      result : {"none", "ok", "unchanged", "lost"}]]
  /\ stale \in SUBSET Ops /\ applied \in SUBSET Ops

Message(u, parent, type) == [uuid |-> u, parent |-> parent, type |-> type, isSidechain |-> FALSE]

(***************************************************************************)
(* The first turn runs and its session id has arrived: line 121 of         *)
(* run-turn.ts has called ensureIpcConnected(), once and for all.  Either  *)
(* the conversation is new, or the runner was started on one of a user and *)
(* an assistant message, to continue at the first (FORK_FROM, FORK_AT).    *)
(***************************************************************************)
Init ==
  /\ \/ /\ file = <<Message(1, Root, "user")>>
        /\ mm = <<1>> /\ made = 1
     \/ /\ file = <<Message(1, Root, "user"), Message(2, 1, "assistant"), Message(3, 1, "user")>>
        /\ mm = <<1, 3>> /\ made = 3
  /\ ipc = "unset" /\ pending = <<>> /\ wire = <<>> /\ answers = <<>>
  /\ turn = "running" /\ forked = FALSE /\ background = "none"
  /\ ops = [o \in Ops |-> Off]
  /\ stale = {} /\ applied = {}

Fresh == made + 1
CanMake == Fresh \in Uuids

\* The operations between their first call and their answer.
UnderWay == {o \in Ops : ops[o].pc \notin {"off", "done"}}

\* The operation is answered: what it held is gone.  "unchanged" is the answer
\* to a read, to a refused command and to one that found nothing to do.
Finish(o, result) == ops' = [ops EXCEPT ![o] = [Off EXCEPT !.pc = "done", !.result = result]]
-----------------------------------------------------------------------------
\* ensureIpcConnected() connects to the CLI, or gives up after 31 attempts.
ConnectIpc ==
  /\ ipc = "unset"
  /\ \/ ipc' = "on" /\ UNCHANGED mm
     \/ "breaks" \in Faults /\ ipc' = "off" /\ mm' = <<>>
  /\ UNCHANGED <<pending, wire, answers, surgeryVars>>

(***************************************************************************)
(* The operations on the transcript, one step each.                        *)
(***************************************************************************)
Jsonl(o, kind, u) ==
  LET unchanged == Finish(o, "unchanged") /\ UNCHANGED <<file, applied>>
      change(records, new) ==
        /\ file' = records /\ applied' = applied \cup {o}
        /\ ops' = [ops EXCEPT ![o] = [Off EXCEPT !.pc = "done", !.kind = kind, !.uuid = u,
                                                 !.new = new, !.result = "ok"]]
  IN  CASE kind \in Reads \cup {"rewind"} -> unchanged /\ UNCHANGED made
        [] kind = "remove" ->
             /\ IF u \in UuidsOf(file) THEN change(RemoveMessage(file, u), Root)
                ELSE unchanged
             /\ UNCHANGED made
        [] kind = "inject" ->
             IF u \in UuidsOf(file) \cup {Start, End}
             THEN CanMake /\ made' = Fresh /\ change(InjectMessage(file, Fresh, u), Fresh)
             ELSE unchanged /\ UNCHANGED made
        [] kind = "truncate" ->
             LET kept == TruncateToLastN(file, Keep)
             IN  /\ IF kept # file THEN change(kept, Root) ELSE unchanged
                 /\ UNCHANGED made

FirstCall(kind) == IF kind \in {"truncate", "get_stats"} THEN "get_length" ELSE "get_messages"

\* The first call of an operation over the socket.
BeginIpc(o, kind, u) ==
  /\ ops' = [ops EXCEPT ![o].pc = "reading", ![o].kind = kind, ![o].uuid = u]
  /\ Send(pending, Read(o, FirstCall(kind)))
  /\ UNCHANGED <<ipc, answers, mm>>

\* A context command is refused while a turn runs.
AcceptsSurgery == turn = "idle"

\* The runner receives a context command or a rewind.
HandleContext(o) ==
  /\ o # Merge /\ ops[o].pc = "off"
  /\ \E kind \in {"get_context", "get_stats", "remove", "inject", "truncate", "rewind"},
        u \in Uuids \cup {Start, End} :
       /\ u \in Uuids => kind \in {"remove", "inject", "rewind"}
       /\ u = Start => kind = "inject"
       /\ u = End => kind \notin {"remove", "rewind"}
       /\ \/ /\ ~AcceptsSurgery
             /\ Finish(o, "unchanged")
             /\ UNCHANGED <<ipcVars, file, made, applied>>
          \/ /\ AcceptsSurgery /\ ipc # "on"
             /\ Jsonl(o, kind, u)
             /\ UNCHANGED ipcVars
          \/ /\ AcceptsSurgery /\ ipc = "on"
             /\ BeginIpc(o, kind, u)
             /\ UNCHANGED <<file, made, applied>>
  /\ UNCHANGED <<turn, forked, background, stale>>

\* The answer is sent, and the next command may be received.
SendAnswer(o) ==
  /\ o # Merge /\ ops[o].pc = "done"
  /\ ops' = [ops EXCEPT ![o] = Off]
  /\ applied' = applied \ {o}
  /\ UNCHANGED <<ipcVars, file, made, turn, forked, background, stale>>
-----------------------------------------------------------------------------
\* The index JavaScript gives a message: from zero, and -1 when it is not there.
FindIndex(messages, u) ==
  IF \E i \in DOMAIN messages : messages[i] = u
  THEN (CHOOSE i \in DOMAIN messages : messages[i] = u) - 1 ELSE -1

\* The operation names a message.
Names(o) == ops[o].uuid \in Uuids

\* Mutant of Edit: the message goes before the one it was to follow.
EditBefore(o, seen) ==
  IF Names(o) /\ ops[o].kind = "inject" THEN Splice(o, FindIndex(seen, ops[o].uuid), 0, <<Fresh>>)
  ELSE Push(o, <<Fresh>>)

(***************************************************************************)
(* The command that changes the messages the operation has read, by index. *)
(***************************************************************************)
Edit(o, seen) ==
  LET idx == FindIndex(seen, ops[o].uuid)
  IN  CASE ops[o].kind = "remove" -> Splice(o, idx, 1, <<>>)
        [] ops[o].kind = "rewind" -> Splice(o, idx + 1, Len(seen) - (idx + 1), <<>>)
        [] ops[o].kind = "truncate" -> Splice(o, 0, Len(seen) - Keep, <<>>)
        [] ops[o].kind = "inject" /\ ops[o].uuid = Start -> Splice(o, 0, 0, <<Fresh>>)
        [] ops[o].kind = "inject" /\ Names(o) -> Splice(o, idx + 1, 0, <<Fresh>>)
        [] OTHER -> Push(o, <<Fresh>>)

NotThere(o, seen) == Names(o) /\ FindIndex(seen, ops[o].uuid) = -1

\* Mutant of NothingToDo: truncate splices however few messages there are.
NothingFollows(o, seen) == ops[o].kind = "rewind" /\ FindIndex(seen, ops[o].uuid) + 1 = Len(seen)

\* Nothing follows the message, or there are no more than to be kept.
NothingToDo(o, seen) ==
  \/ ops[o].kind = "truncate" /\ Len(seen) <= Keep
  \/ ops[o].kind = "rewind" /\ FindIndex(seen, ops[o].uuid) + 1 = Len(seen)

\* The operation goes on with the answer to its read.
ReadAnswered(o, seen, waiting) ==
  LET next(pc) == ops' = [ops EXCEPT ![o].pc = pc]
  IN  CASE ops[o].kind = "get_context" ->
             Finish(o, "unchanged") /\ pending' = waiting /\ UNCHANGED <<wire, made>>
        [] ops[o].kind = "get_stats" ->
             next("editing") /\ Send(waiting, Read(o, "get_roles")) /\ UNCHANGED made
        [] ops[o].kind = "snapshot" ->
             next("rereading") /\ Send(waiting, Read(o, "get_length")) /\ UNCHANGED made
        [] ops[o].kind \in Edits /\ (NotThere(o, seen) \/ NothingToDo(o, seen)) ->
             Finish(o, "unchanged") /\ pending' = waiting /\ UNCHANGED <<wire, made>>
        [] OTHER ->
             LET makes == ops[o].kind \in {"inject", "merge"}
             IN  /\ makes => CanMake
                 /\ made' = IF makes THEN Fresh ELSE made
                 /\ ops' = [ops EXCEPT ![o].pc = "editing", ![o].seen = seen,
                                       ![o].new = IF makes THEN Fresh ELSE Root]
                 /\ Send(waiting, Edit(o, seen))

\* A line arrives on the socket: the call that has waited longest is resolved.
OnData ==
  /\ answers # <<>> /\ pending # <<>>
  /\ LET o == Head(pending)
         seen == Head(answers).messages
         waiting == Tail(pending)
     IN  \/ ops[o].pc = "reading" /\ ReadAnswered(o, seen, waiting)
         \/ /\ ops[o].pc = "rereading"
            /\ ops' = [ops EXCEPT ![o].pc = "editing"]
            /\ Send(waiting, Read(o, "get_roles"))
            /\ UNCHANGED made
         \/ /\ ops[o].pc = "editing"
            /\ Finish(o, IF ops[o].kind \in Reads THEN "unchanged" ELSE "ok")
            /\ pending' = waiting
            /\ UNCHANGED <<wire, made>>
  /\ answers' = Tail(answers)
  /\ stale' = {o \in stale : ops'[o].pc # "done"}
  /\ UNCHANGED <<ipc, mm, file, turn, forked, background, applied>>

\* The CLI runs a command: reads are up to date, what shifts positions makes
\* the others' stale.
RunCmd ==
  /\ HandleCmd
  /\ LET c == Head(wire)
     IN  /\ applied' = IF c.cmd \in {"splice", "push"} THEN applied \cup {c.op} ELSE applied
         /\ stale' = CASE c.cmd = "splice" -> stale \cup (UnderWay \ {c.op})
                       [] c.cmd \in {"get_messages", "get_length"} -> stale \ {c.op}
                       [] OTHER -> stale
  /\ UNCHANGED <<file, made, turn, forked, background, ops>>
-----------------------------------------------------------------------------
LastOfChain == IF ReadSessionChain(file) = <<>> THEN Root ELSE Last(ReadSessionChain(file))

\* The CLI adds a message to the conversation, in its memory and on disk.
AddMessage(type) ==
  /\ CanMake /\ made' = Fresh
  /\ mm' = IF ipc = "off" THEN mm ELSE Append(mm, Fresh)
  /\ file' = Append(file, Message(Fresh, LastOfChain, type))

\* A message to the idle runner.
TurnBegins ==
  /\ turn = "idle" /\ turn' = "running"
  /\ IF forked THEN UNCHANGED <<made, mm, file>> ELSE AddMessage("user")
  /\ UNCHANGED <<ipc, pending, wire, answers, forked, background, ops, stale, applied>>

\* The turn in front, or the one a fork left in the background, goes on.
TurnSpeaks ==
  /\ (turn = "running" /\ ~forked) \/ background = "running"
  /\ \/ AddMessage("assistant")
     \/ /\ "sidechain" \in Faults /\ \A i \in DOMAIN file : ~file[i].isSidechain
        /\ CanMake /\ made' = Fresh
        /\ file' = Append(file, [Message(Fresh, Root, "assistant") EXCEPT !.isSidechain = TRUE])
        /\ UNCHANGED mm
  /\ UNCHANGED <<ipc, pending, wire, answers, turn, forked, background, ops, stale, applied>>

\* A compaction replaces the messages by a summary.
TurnCompacts ==
  /\ "compacts" \in Faults /\ turn = "running" /\ ~forked
  /\ CanMake /\ made' = Fresh
  /\ mm' = IF ipc = "off" THEN mm ELSE <<Fresh>>
  /\ file' = Append(file, Message(Fresh, Root, "system"))
  /\ stale' = UnderWay
  /\ UNCHANGED <<ipc, pending, wire, answers, turn, forked, background, ops, applied>>

TurnEnds ==
  /\ turn = "running" /\ turn' = "idle"
  /\ UNCHANGED <<ipcVars, file, made, forked, background, ops, stale, applied>>

\* A steer was executed: emitSnapshot() between the turns of the loop.
Snapshot(o) ==
  /\ turn = "running" /\ ipc = "on"
  /\ o # Merge /\ ops[o].pc = "off"
  /\ turn' = "snapshot"
  /\ BeginIpc(o, "snapshot", End)
  /\ UNCHANGED <<file, made, forked, background, stale, applied>>

SnapshotDone ==
  /\ turn = "snapshot" /\ turn' = "running"
  /\ \A o \in UnderWay : ops[o].kind # "snapshot"
  /\ UNCHANGED <<ipcVars, file, made, forked, background, ops, stale, applied>>
-----------------------------------------------------------------------------
\* Mutant of Rejected: a lost call counts as one that changed nothing.
RejectedAsUnchanged ==
  /\ ops' = [o \in Ops |-> IF o \in UnderWay
                            THEN [Off EXCEPT !.pc = "done", !.result = "unchanged"] ELSE ops[o]]
  /\ stale' = {}

\* The calls under way are rejected, and their operations fail.
Rejected ==
  /\ ops' = [o \in Ops |-> IF o \in UnderWay
                            THEN [Off EXCEPT !.pc = "done", !.result = "lost"] ELSE ops[o]]
  /\ stale' = {}

\* The CLI of the session dies or is closed: nobody connects to the next one.
IpcBreaks ==
  /\ "breaks" \in Faults /\ ipc = "on"
  /\ Reject /\ Rejected
  /\ mm' = <<>>
  /\ UNCHANGED <<file, made, turn, forked, background, applied>>

\* maybeHandleForkAndSteer() up to its await: the turn goes on in the background.
ForkBegins ==
  /\ "forks" \in Faults /\ turn = "running" /\ background = "none"
  /\ turn' = "forking" /\ background' = "running"
  /\ UNCHANGED <<ipcVars, file, made, forked, ops, stale, applied>>

\* The forked session is in front; sdkSessionId still names the other.
ForkSucceeds ==
  /\ turn = "forking" /\ turn' = "running"
  /\ forked' = TRUE
  /\ Reject /\ Rejected
  /\ mm' = <<>>
  /\ UNCHANGED <<file, made, background, applied>>

ForkFails ==
  /\ turn = "forking" /\ turn' = "running"
  /\ UNCHANGED <<ipcVars, file, made, forked, background, ops, stale, applied>>

\* drainBackground() has its result, or failed: it is merged back if a socket
\* is connected, a failure without a look at the messages.  Nothing writes the
\* placeholder mergeBackResult() looks for.
BackgroundEnds ==
  /\ background = "running"
  /\ \/ /\ ipc = "on" /\ background' = "merging"
        /\ BeginIpc(Merge, "merge", End)
        /\ UNCHANGED made
     \/ /\ ipc = "on" /\ background' = "merging"
        /\ CanMake /\ made' = Fresh
        /\ ops' = [ops EXCEPT ![Merge].pc = "editing", ![Merge].kind = "merge", ![Merge].new = Fresh]
        /\ Send(pending, Push(Merge, <<Fresh>>))
        /\ UNCHANGED <<ipc, answers, mm>>
     \/ /\ ipc # "on" /\ background' = "told"
        /\ UNCHANGED <<ipcVars, ops, made>>
  /\ UNCHANGED <<file, turn, forked, stale, applied>>

\* "background_complete" is sent, whatever became of the merge.
BackgroundTold ==
  /\ background = "merging" /\ ops[Merge].pc = "done"
  /\ background' = "told"
  /\ UNCHANGED <<ipcVars, file, made, turn, forked, ops, stale, applied>>
-----------------------------------------------------------------------------
Next ==
  \/ ConnectIpc \/ OnData \/ RunCmd
  \/ \E o \in Ops : HandleContext(o) \/ SendAnswer(o) \/ Snapshot(o)
  \/ TurnBegins \/ TurnSpeaks \/ TurnCompacts \/ TurnEnds \/ SnapshotDone
  \/ IpcBreaks \/ ForkBegins \/ ForkSucceeds \/ ForkFails \/ BackgroundEnds \/ BackgroundTold

Spec == Init /\ [][Next]_vars
-----------------------------------------------------------------------------
\* Whatever fails in between, an answer goes to the call it belongs to.
AnswersMatch ==
  /\ Len(pending) = Len(answers) + Len(wire)
  /\ \A i \in DOMAIN pending :
       pending[i] = IF i <= Len(answers) THEN answers[i].op ELSE wire[i - Len(answers)].op

\* An operation that waits will be answered or rejected: its call is queued
\* once.  None hangs on a socket that is gone.
WaitingIsPending ==
  \A o \in Ops :
    Cardinality({i \in DOMAIN pending : pending[i] = o}) =
      IF o \in UnderWay THEN 1 ELSE 0

\* after holds what before does but for gone, in the same order.
Without(after, before, gone) ==
  /\ IsInjective(after) /\ Range(after) = Range(before) \ gone
  /\ \A i, j \in DOMAIN after : i < j =>
       \E k, l \in DOMAIN before : k < l /\ before[k] = after[i] /\ before[l] = after[j]

\* The messages there are now become those the operation was asked for.
DoesAsAsked(o) ==
  LET seen == ops[o].seen
      idx(messages) == FindIndex(messages, ops[o].uuid) + 1
      without(gone) == Without(mm', mm, gone)
  IN  CASE ops[o].kind = "remove" -> without({ops[o].uuid})
        [] ops[o].kind = "rewind" -> without({seen[i] : i \in (idx(seen) + 1) .. Len(seen)})
        [] ops[o].kind = "truncate" -> without({seen[i] : i \in 1 .. (Len(seen) - Keep)})
        [] ops[o].kind = "inject" /\ ops[o].uuid = Start -> mm' = <<ops[o].new>> \o mm
        [] ops[o].kind = "inject" /\ Names(o) -> mm' = InsertAt(mm, idx(mm) + 1, ops[o].new)
        [] OTHER -> mm' = Append(mm, ops[o].new)

Changes(o) == /\ wire # <<>> /\ Head(wire).op = o /\ Head(wire).cmd \in {"splice", "push"}
              /\ Len(answers') = Len(answers) + 1

\* A turn that goes on while an operation is between its read and its write
\* (the command came in time) does not make it hit other messages than those
\* it names: only a compaction or another operation does.
LiveSurgeryExact == [][\A o \in Ops : Changes(o) /\ o \notin stale => DoesAsAsked(o)]_vars

\* The conversation on disk before and after an operation.
Chain == ReadSessionChain(file)

\* Where in it the messages of users and assistants stand.
Spoken == {i \in DOMAIN Chain : BuildChain(file)[i].type # "system"}

ChangesFile(o) == ops[o].pc = "off" /\ ops'[o].result = "ok"

\* An operation on the transcript does to the conversation what it says, side
\* chains and abandoned branches or not, if the message it names is part of it,
\* but for the removal of the last message when another branch, or a side
\* chain, ends in a leaf.
FileSurgeryExact ==
  [][\A o \in Ops : ChangesFile(o) =>
       LET u == ops'[o].uuid
           new == ops'[o].new
           idx == FindIndex(Chain, u) + 1
       IN  CASE ops'[o].kind = "remove" ->
                  idx > 0 /\ (Last(Chain) # u \/ Cardinality(AllLeaves(file)) = 1) =>
                    Chain' = Picked(Chain, {i \in DOMAIN Chain : Chain[i] # u})
             [] ops'[o].kind = "inject" ->
                  /\ u = Start => Chain' = <<new>> \o Chain
                  /\ u = End => Chain' = Append(Chain, new)
                  /\ idx > 0 => Chain' = InsertAt(Chain, idx + 1, new)
             [] ops'[o].kind = "truncate" -> /\ IsSuffix(Chain', Chain)
                                             /\ 1 \in Spoken' /\ Cardinality(Spoken') = 2 * Keep]_vars

\* The answer to a change tells whether it was made; only when the connection
\* is lost can that be either.
AnsweredTruthfully ==
  \A o \in Ops :
    ops[o].pc = "done" =>
      /\ ops[o].result = "ok" => o \in applied
      /\ ops[o].result = "unchanged" => o \notin applied
-----------------------------------------------------------------------------
\* What the documentation says and the code does not do.

\* merge-back.ts: "Merges a background session's result back into the
\* foreground session's mutableMessages via IPC.  [...] On failure: pushes an
\* error message".  When a background turn is reported, the model in front has
\* heard of it, the fork having succeeded and no connection being lost.
MergeReachesForeground ==
  background = "told" /\ forked => ops[Merge].result = "ok"
=============================================================================
