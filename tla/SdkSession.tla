----------------------------- MODULE SdkSession -----------------------------
(***************************************************************************)
(* The sessions of the Claude Agent SDK, as the runner uses them: send()   *)
(* queues a prompt, the SDK works on the prompts in order, and what it     *)
(* yields waits in the session until somebody iterates stream().  A result *)
(* ends a turn.  A reader that leaves the stream early leaves the rest of  *)
(* the turn in the session: background-drainer.ts goes on reading there.   *)
(* interrupt() only makes a turn end sooner than it would have, and when a *)
(* turn ends is open here anyway.                                          *)
(***************************************************************************)
EXTENDS Naturals, Sequences

CONSTANTS
  Commands,   \* the commands that carry a prompt, each named by its request_id
  Sdks,       \* names of SDK session objects; one nobody holds is used again
  None        \* "null" or "undefined"

VARIABLE sdk  \* name -> [open, prompts not answered yet, what is yielded and not read]

EventTypes == {"delta", "result"}
Events     == [type : EventTypes, of : Commands]

Closed == [open |-> FALSE, prompts |-> <<>>, yielded |-> <<>>]
Opened == [Closed EXCEPT !.open = TRUE]

SdkStates == [open : BOOLEAN, prompts : Seq(Commands), yielded : Seq(Events)]

SdkTypeOK == sdk \in [Sdks -> SdkStates]

SendPrompt(s, c) == sdk' = [sdk EXCEPT ![s].prompts = Append(@, c)]

\* close(), or the end of the process: whoever iterates sees the stream end.
CloseSdk(s) == sdk' = [sdk EXCEPT ![s] = Closed]

Working(s) == sdk[s].open /\ sdk[s].prompts # <<>>

\* Part of an answer: no more than one is kept unread.
YieldDelta(s) ==
  /\ Working(s) /\ sdk[s].yielded = <<>>
  /\ sdk' = [sdk EXCEPT ![s].yielded = <<[type |-> "delta", of |-> Head(sdk[s].prompts)]>>]

YieldResult(s) ==
  /\ Working(s)
  /\ sdk' = [sdk EXCEPT ![s].yielded = Append(@, [type |-> "result", of |-> Head(sdk[s].prompts)]),
                        ![s].prompts = Tail(@)]

\* One step of an iteration of stream().
Readable(s)    == sdk[s].yielded # <<>>
NextEvent(s)   == Head(sdk[s].yielded)
TakeEvent(s)   == sdk' = [sdk EXCEPT ![s].yielded = Tail(@)]
StreamEnded(s) == ~sdk[s].open
=============================================================================
