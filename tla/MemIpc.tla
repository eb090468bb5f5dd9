------------------------------- MODULE MemIpc -------------------------------
(***************************************************************************)
(* runner/src/mem-ipc.ts and the memory-ipc patch of the CLI: a client     *)
(* that writes commands to a Unix socket, and the server in the CLI that   *)
(* runs them on the messages of its conversation, one after the other, and *)
(* answers in that order.  An answer carries no id: it belongs to the call *)
(* that has waited longest.                                                *)
(***************************************************************************)
EXTENDS Transcript

CONSTANT Ops   \* the operations of the runner that may have a call under way

VARIABLES
  ipc,      \* state.ipc: "unset" (not connected yet), "on", "off"
  pending,  \* the calls that wait, longest first: the operation of each
  wire,     \* the commands the CLI has not read yet
  answers,  \* the answers the runner has not read yet
  mm        \* mutableMessages of the CLI at the other end

ipcVars == <<ipc, pending, wire, answers, mm>>

Commands == [op : Ops, cmd : {"get_messages", "get_length", "get_roles", "splice", "push"},
             start : Nat, deleteCount : Nat, items : Seq(Uuids)]

IpcTypeOK ==
  /\ ipc \in {"unset", "on", "off"}
  /\ pending \in Seq(Ops)
  /\ \A i \in DOMAIN wire : wire[i] \in Commands
  /\ answers \in Seq([op : Ops, messages : Seq(Uuids)])
  /\ mm \in Seq(Uuids)

Read(o, c) == [op |-> o, cmd |-> c, start |-> 0, deleteCount |-> 0, items |-> <<>>]
Splice(o, s, n, new) == [op |-> o, cmd |-> "splice", start |-> s, deleteCount |-> n, items |-> new]
Push(o, new) == [op |-> o, cmd |-> "push", start |-> 0, deleteCount |-> 0, items |-> new]

\* Mutant of Send: the call is put before the others that wait.
SendFirst(waiting, c) ==
  /\ pending' = <<c.op>> \o waiting
  /\ wire' = Append(wire, c)

\* send(): the promise is queued behind those that wait, the line is written.
Send(waiting, c) ==
  /\ pending' = Append(waiting, c.op)
  /\ wire' = Append(wire, c)

\* splice() of JavaScript: an index past the end is the end.
Spliced(messages, start, n, new) ==
  LET from == IF start < Len(messages) THEN start ELSE Len(messages)
      to   == IF from + n < Len(messages) THEN from + n ELSE Len(messages)
  IN  SubSeq(messages, 1, from) \o new \o SubSeq(messages, to + 1, Len(messages))

\* _handleCmd(): the CLI runs one command on its messages.
Effect(c) ==
  CASE c.cmd = "splice" -> Spliced(mm, c.start, c.deleteCount, c.items)
    [] c.cmd = "push"   -> mm \o c.items
    [] OTHER            -> mm

\* The answer: the messages a read found (get_length tells only how many).
Answer(c) == [op |-> c.op, messages |-> mm]

HandleCmd ==
  /\ wire # <<>>
  /\ mm' = Effect(Head(wire))
  /\ answers' = Append(answers, Answer(Head(wire)))
  /\ wire' = Tail(wire)
  /\ UNCHANGED <<ipc, pending>>

\* Mutant of Reject: what waits for the old socket goes on waiting.
RejectNone == ipc' = "off" /\ wire' = <<>> /\ answers' = <<>> /\ UNCHANGED pending

\* The "error" and "close" handlers and disconnect(): every call that waits is
\* rejected.  Commands the CLI has read may have been run.
Reject == ipc' = "off" /\ wire' = <<>> /\ answers' = <<>> /\ pending' = <<>>
=============================================================================
