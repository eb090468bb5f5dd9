------------------------- MODULE ContextSurgeryProofs -------------------------
(***************************************************************************)
(* Theorems about ContextSurgery and the socket of MemIpc, for any number  *)
(* of operations and messages, any Keep and any faults: which call an      *)
(* answer goes to, that none hangs, what it says, what the edits make of   *)
(* the messages in memory, that the transcript is a tree and what the      *)
(* operations make of the conversation in it.                              *)
(***************************************************************************)
EXTENDS ContextSurgery, TranscriptProofs, SequenceTheorems, FiniteSetTheorems, TLAPS

OpStates == [pc : {"off", "reading", "rereading", "editing", "done"},
             kind : Reads \cup Edits, uuid : Uuids \cup {Start, End},
             new : Uuids \cup {Root}, seen : Seq(Uuids),
             result : {"none", "ok", "unchanged", "lost"}]

AnswerTypes == [op : Ops, messages : Seq(Uuids)]

\* The types, but that of the transcript.
LiveTypes ==
  /\ ipc \in {"unset", "on", "off"}
  /\ pending \in Seq(Ops) /\ wire \in Seq(Commands) /\ answers \in Seq(AnswerTypes)
  /\ mm \in Seq(Uuids) /\ made \in Nat
  /\ turn \in {"idle", "running", "snapshot", "forking"}
  /\ forked \in BOOLEAN
  /\ background \in {"none", "running", "merging", "told"}
  /\ ops \in [Ops -> OpStates]
  /\ stale \in SUBSET Ops /\ applied \in SUBSET Ops

\* What removes a message or what follows it names the message, only a snapshot
\* reads twice, and nothing is merged before there is something to merge.
ShapeInv ==
  /\ \A o \in Ops : ops[o].kind \in {"remove", "rewind"} => Names(o)
  /\ \A o \in Ops : ops[o].pc = "rereading" => ops[o].kind = "snapshot"
  /\ background \in {"none", "running"} => ops[Merge].pc = "off"

TypeInv == LiveTypes /\ ShapeInv

\* The calls that wait are those of the operations under way, once each, in the
\* order of the answers and the commands.
QueueInv == AnswersMatch /\ IsInjective(pending) /\ Range(pending) = UnderWay

Edited(o) == ops[o].pc = "editing" /\ ops[o].kind \in Edits

\* A change is made when its command is run, not before it and not without it.
NotYetInv == \A o \in Ops : ops[o].pc # "done" /\ ~Edited(o) => o \notin applied

WrittenInv == \A c \in Range(wire) : /\ c.cmd \in {"splice", "push"} <=> Edited(c.op)
                                     /\ Edited(c.op) => c.op \notin applied

RunInv == \A x \in Range(answers) : Edited(x.op) => x.op \in applied

AppliedInv == NotYetInv /\ WrittenInv /\ RunInv /\ AnsweredTruthfully

SurgeryInv == TypeInv /\ QueueInv /\ AppliedInv
-----------------------------------------------------------------------------
(***************************************************************************)
(* Queues.                                                                 *)
(***************************************************************************)
\* Each call in p waits for the answer at its place in a or, behind these, for
\* that to the command in w.
Matches(p, a, w) ==
  /\ Len(p) = Len(a) + Len(w)
  /\ \A i \in DOMAIN p : p[i] = IF i <= Len(a) THEN a[i].op ELSE w[i - Len(a)].op

LEMMA MatchesSend ==
  ASSUME NEW p \in Seq(Ops), NEW a \in Seq(AnswerTypes), NEW w \in Seq(Commands), NEW c \in Commands,
         Matches(p, a, w)
  PROVE  Matches(Append(p, c.op), a, Append(w, c))
<1>1. /\ Len(p) \in Nat /\ Len(a) \in Nat /\ Len(w) \in Nat /\ Len(p) = Len(a) + Len(w)
      /\ DOMAIN p = 1 .. Len(p)
  BY DEF Matches
<1>2. /\ Len(Append(p, c.op)) = Len(p) + 1 /\ DOMAIN Append(p, c.op) = 1 .. (Len(p) + 1)
      /\ \A i \in 1 .. Len(p) : Append(p, c.op)[i] = p[i]
      /\ Append(p, c.op)[Len(p) + 1] = c.op
  <2>1. c.op \in Ops
    BY DEF Commands
  <2> QED
    BY <2>1, AppendProperties
<1>3. /\ Len(Append(w, c)) = Len(w) + 1
      /\ \A i \in 1 .. Len(w) : Append(w, c)[i] = w[i]
      /\ Append(w, c)[Len(w) + 1] = c
  BY AppendProperties
<1>4. ASSUME NEW i \in 1 .. Len(p)
      PROVE  p[i] = IF i <= Len(a) THEN a[i].op ELSE Append(w, c)[i - Len(a)].op
  <2>1. i > Len(a) => i - Len(a) \in 1 .. Len(w)
    BY <1>1
  <2> QED
    BY <1>1, <1>3, <2>1 DEF Matches
<1>5. Len(p) + 1 > Len(a) /\ (Len(p) + 1) - Len(a) = Len(w) + 1
  BY <1>1
<1> QED
  BY <1>1, <1>2, <1>3, <1>4, <1>5 DEF Matches

LEMMA MatchesAnswered ==
  ASSUME NEW p \in Seq(Ops), NEW a \in Seq(AnswerTypes), NEW w \in Seq(Commands), Matches(p, a, w),
         p # <<>>, a # <<>>
  PROVE  Matches(Tail(p), Tail(a), w) /\ Head(p) = Head(a).op
<1>1. /\ Tail(p) \in Seq(Ops) /\ Len(Tail(p)) = Len(p) - 1 /\ Head(p) = p[1]
      /\ \A i \in 1 .. Len(p) - 1 : Tail(p)[i] = p[i + 1]
      /\ Len(p) \in Nat \ {0} /\ DOMAIN p = 1 .. Len(p) /\ DOMAIN Tail(p) = 1 .. Len(p) - 1
  BY HeadTailProperties
<1>2. /\ Tail(a) \in Seq(AnswerTypes) /\ Len(Tail(a)) = Len(a) - 1 /\ Head(a) = a[1]
      /\ \A i \in 1 .. Len(a) - 1 : Tail(a)[i] = a[i + 1]
      /\ Len(a) \in Nat \ {0} /\ Len(w) \in Nat
  BY HeadTailProperties
<1>3. ASSUME NEW i \in 1 .. Len(p) - 1
      PROVE  Tail(p)[i] = IF i <= Len(Tail(a)) THEN Tail(a)[i].op ELSE w[i - Len(Tail(a))].op
  <2>1. /\ i + 1 \in 1 .. Len(p) /\ (i <= Len(Tail(a)) <=> i + 1 <= Len(a))
        /\ i - Len(Tail(a)) = (i + 1) - Len(a)
    BY <1>1, <1>2
  <2>2. i <= Len(Tail(a)) => i \in 1 .. Len(a) - 1
    BY <1>1, <1>2
  <2> QED
    BY <1>1, <1>2, <2>1, <2>2 DEF Matches
<1> QED
  BY <1>1, <1>2, <1>3 DEF Matches

LEMMA MatchesRun ==
  ASSUME NEW p \in Seq(Ops), NEW a \in Seq(AnswerTypes), NEW w \in Seq(Commands), Matches(p, a, w),
         w # <<>>, NEW x \in AnswerTypes, x.op = Head(w).op
  PROVE  Matches(p, Append(a, x), Tail(w))
BY AppendProperties, HeadTailProperties DEF Matches

LEMMA QueueAppend ==
  ASSUME NEW S, NEW p \in Seq(S), NEW o \in S, IsInjective(p), o \notin Range(p)
  PROVE  IsInjective(Append(p, o)) /\ Range(Append(p, o)) = Range(p) \cup {o}
<1>1. /\ Append(p, o) \in Seq(S) /\ Len(Append(p, o)) = Len(p) + 1
      /\ \A i \in 1 .. Len(p) : Append(p, o)[i] = p[i]
      /\ Append(p, o)[Len(p) + 1] = o
  BY AppendProperties
<1>2. DOMAIN p = 1 .. Len(p) /\ DOMAIN Append(p, o) = 1 .. (Len(p) + 1) /\ Len(p) \in Nat
  BY <1>1
<1> QED
  BY <1>1, <1>2 DEF IsInjective, Range

LEMMA QueueTail ==
  ASSUME NEW S, NEW p \in Seq(S), p # <<>>, IsInjective(p)
  PROVE  /\ IsInjective(Tail(p)) /\ Range(Tail(p)) = Range(p) \ {Head(p)} /\ Head(p) \in Range(p)
         /\ Tail(p) \in Seq(S) /\ Head(p) \in S
<1>1. /\ Tail(p) \in Seq(S) /\ Len(Tail(p)) = Len(p) - 1 /\ Head(p) = p[1] /\ Len(p) \in Nat \ {0}
      /\ \A i \in 1 .. Len(p) - 1 : Tail(p)[i] = p[i + 1]
  BY HeadTailProperties
<1>2. DOMAIN p = 1 .. Len(p) /\ DOMAIN Tail(p) = 1 .. Len(p) - 1
  BY <1>1
<1>3. IsInjective(Tail(p))
  BY <1>1, <1>2 DEF IsInjective
<1>4. \A x \in Range(Tail(p)) : x \in Range(p) /\ x # p[1]
  BY <1>1, <1>2 DEF IsInjective, Range
<1>5. \A x \in Range(p) : x # p[1] => x \in Range(Tail(p))
  <2> SUFFICES ASSUME NEW i \in 1 .. Len(p), p[i] # p[1] PROVE p[i] \in Range(Tail(p))
    BY <1>2 DEF Range
  <2>1. i - 1 \in 1 .. Len(p) - 1 /\ Tail(p)[i - 1] = p[i]
    BY <1>1
  <2> QED
    BY <1>2, <2>1 DEF Range
<1>6. Head(p) \in Range(p)
  BY <1>1, <1>2 DEF Range
<1>7. Head(p) \in S
  BY <1>1
<1>8. Range(Tail(p)) = Range(p) \ {Head(p)}
  BY <1>1, <1>4, <1>5
<1> QED
  BY <1>1, <1>3, <1>6, <1>7, <1>8

LEMMA RangeAppend ==
  ASSUME NEW S, NEW s \in Seq(S), NEW e \in S
  PROVE  Range(Append(s, e)) = Range(s) \cup {e}
<1>1. /\ \A i \in 1 .. Len(s) : Append(s, e)[i] = s[i]
      /\ Append(s, e)[Len(s) + 1] = e
      /\ DOMAIN s = 1 .. Len(s) /\ DOMAIN Append(s, e) = 1 .. (Len(s) + 1) /\ Len(s) \in Nat
  BY AppendProperties
<1> QED
  BY <1>1 DEF Range

LEMMA RangeTail ==
  ASSUME NEW S, NEW s \in Seq(S), s # <<>>
  PROVE  Range(Tail(s)) \subseteq Range(s) /\ Head(s) \in Range(s) /\ Range(s) \subseteq S
<1>1. /\ Len(Tail(s)) = Len(s) - 1 /\ Head(s) = s[1] /\ Len(s) \in Nat \ {0}
      /\ \A i \in 1 .. Len(s) - 1 : Tail(s)[i] = s[i + 1]
      /\ DOMAIN s = 1 .. Len(s) /\ DOMAIN Tail(s) = 1 .. Len(s) - 1
  BY HeadTailProperties
<1>2. Range(Tail(s)) \subseteq Range(s)
  BY <1>1 DEF Range
<1>3. Head(s) \in Range(s)
  BY <1>1 DEF Range
<1>4. Range(s) \subseteq S
  BY <1>1 DEF Range
<1> QED
  BY <1>2, <1>3, <1>4

\* Who has an answer or a command in the queues has a call that waits.
LEMMA QueuedWait ==
  ASSUME NEW p \in Seq(Ops), NEW a \in Seq(AnswerTypes), NEW w \in Seq(Commands), Matches(p, a, w)
  PROVE  /\ \A x \in Range(a) : x.op \in Range(p)
         /\ \A c \in Range(w) : c.op \in Range(p)
<1>1. /\ Len(p) \in Nat /\ Len(a) \in Nat /\ Len(w) \in Nat /\ Len(p) = Len(a) + Len(w)
      /\ DOMAIN p = 1 .. Len(p) /\ DOMAIN a = 1 .. Len(a) /\ DOMAIN w = 1 .. Len(w)
  BY DEF Matches
<1>2. ASSUME NEW i \in 1 .. Len(a)
      PROVE  a[i].op \in Range(p)
  <2>1. i \in 1 .. Len(p) /\ p[i] = a[i].op
    BY <1>1 DEF Matches
  <2> QED
    BY <1>1, <2>1 DEF Range
<1>3. ASSUME NEW i \in 1 .. Len(w)
      PROVE  w[i].op \in Range(p)
  <2>1. i + Len(a) \in 1 .. Len(p) /\ ~(i + Len(a) <= Len(a)) /\ (i + Len(a)) - Len(a) = i
    BY <1>1
  <2>2. p[i + Len(a)] = w[i].op
    BY <1>1, <2>1 DEF Matches
  <2> QED
    BY <1>1, <2>1, <2>2 DEF Range
<1> QED
  BY <1>1, <1>2, <1>3 DEF Range

\* The command run next is that of a call that waits, and of no other command.
LEMMA HeadRunsOnce ==
  ASSUME NEW p \in Seq(Ops), NEW a \in Seq(AnswerTypes), NEW w \in Seq(Commands), Matches(p, a, w),
         IsInjective(p), w # <<>>
  PROVE  /\ \A c \in Range(Tail(w)) : c.op # Head(w).op
         /\ \A x \in Range(a) : x.op # Head(w).op
<1>1. /\ Len(p) \in Nat /\ Len(a) \in Nat /\ Len(w) \in Nat /\ Len(p) = Len(a) + Len(w)
      /\ DOMAIN p = 1 .. Len(p) /\ DOMAIN a = 1 .. Len(a) /\ Len(w) > 0
  BY HeadTailProperties DEF Matches
<1>2. /\ Tail(w) \in Seq(Commands) /\ Len(Tail(w)) = Len(w) - 1 /\ Head(w) = w[1]
      /\ \A i \in 1 .. Len(w) - 1 : Tail(w)[i] = w[i + 1]
      /\ DOMAIN Tail(w) = 1 .. Len(w) - 1
  BY HeadTailProperties
<1>3. Len(a) + 1 \in 1 .. Len(p) /\ p[Len(a) + 1] = w[1].op
  <2>1. ~(Len(a) + 1 <= Len(a)) /\ (Len(a) + 1) - Len(a) = 1 /\ Len(a) + 1 \in 1 .. Len(p)
    BY <1>1
  <2> QED
    BY <1>1, <2>1 DEF Matches
<1>4. ASSUME NEW i \in 1 .. Len(w) - 1
      PROVE  Tail(w)[i].op # Head(w).op
  <2> DEFINE j == i + 1 + Len(a)
  <2>1. j \in 1 .. Len(p) /\ j # Len(a) + 1 /\ ~(j <= Len(a)) /\ j - Len(a) = i + 1
    BY <1>1
  <2>2. p[j] = w[i + 1].op
    BY <1>1, <2>1 DEF Matches
  <2>3. p[j] # p[Len(a) + 1]
    BY <1>1, <1>3, <2>1 DEF IsInjective
  <2> QED
    BY <1>2, <1>3, <2>2, <2>3
<1>5. ASSUME NEW i \in 1 .. Len(a)
      PROVE  a[i].op # Head(w).op
  <2>1. i \in 1 .. Len(p) /\ i # Len(a) + 1 /\ p[i] = a[i].op
    BY <1>1 DEF Matches
  <2> QED
    BY SMTT(30), <1>1, <1>2, <1>3, <2>1 DEF IsInjective
<1> QED
  BY <1>1, <1>2, <1>4, <1>5 DEF Range
-----------------------------------------------------------------------------
(***************************************************************************)
(* The queues and the changes, by what a step does to a call.              *)
(***************************************************************************)
LEMMA MatchesIsAnswersMatch == AnswersMatch <=> Matches(pending, answers, wire)
BY DEF AnswersMatch, Matches

\* Nothing happens to the calls.
LEMMA NoCallChanges ==
  ASSUME QueueInv, AppliedInv, UNCHANGED <<pending, wire, answers, ops, applied>>
  PROVE  QueueInv' /\ AppliedInv'
BY DEF QueueInv, AppliedInv, NotYetInv, WrittenInv, RunInv, AnswersMatch, UnderWay,
       AnsweredTruthfully, Edited

\* An operation that has no call under way, before or after, begins or is answered.
LEMMA AnsweredAtOnce ==
  ASSUME TypeInv, QueueInv, AppliedInv, NEW o \in Ops, UNCHANGED <<pending, wire, answers>>,
         ops' \in [Ops -> OpStates], \A p \in Ops \ {o} : ops'[p] = ops[p] /\ (p \in applied' <=> p \in applied),
         ops[o].pc \in {"off", "done"}, ops'[o].pc \in {"off", "done"},
         ops'[o].pc = "off" => o \notin applied',
         ops'[o].pc = "done" => /\ ops'[o].result = "ok" => o \in applied'
                                /\ ops'[o].result = "unchanged" => o \notin applied'
  PROVE  QueueInv' /\ AppliedInv'
<1>1. UnderWay' = UnderWay
  BY DEF UnderWay
<1>2. QueueInv'
  BY <1>1 DEF QueueInv, AnswersMatch
<1>3. \A p \in Ops : p \in UnderWay => p # o
  BY DEF UnderWay
<1>4. /\ \A x \in Range(answers) : x.op \in Ops /\ x.op # o
      /\ \A c \in Range(wire) : c.op \in Ops /\ c.op # o
  <2>1. Matches(pending, answers, wire) /\ Range(pending) = UnderWay
    BY MatchesIsAnswersMatch DEF QueueInv
  <2>2. /\ \A x \in Range(answers) : x.op \in UnderWay
        /\ \A c \in Range(wire) : c.op \in UnderWay
    BY <2>1, QueuedWait DEF TypeInv, LiveTypes
  <2> QED
    BY <2>2, <1>3 DEF UnderWay
<1>5. ~Edited(o)' /\ \A p \in Ops \ {o} : Edited(p)' <=> Edited(p)
  BY DEF Edited
<1>6. NotYetInv'
  BY <1>5 DEF AppliedInv, NotYetInv
<1>7. WrittenInv'
  <2> SUFFICES ASSUME NEW c \in Range(wire)
               PROVE  /\ c.cmd \in {"splice", "push"} <=> Edited(c.op)'
                      /\ Edited(c.op)' => c.op \notin applied'
    BY DEF WrittenInv
  <2>1. c.op \in Ops \ {o}
    BY <1>4
  <2>2. Edited(c.op)' <=> Edited(c.op)
    BY <2>1, <1>5
  <2> QED
    BY <2>1, <2>2 DEF AppliedInv, WrittenInv
<1>8. RunInv'
  <2> SUFFICES ASSUME NEW x \in Range(answers)
               PROVE  Edited(x.op)' => x.op \in applied'
    BY DEF RunInv
  <2>1. x.op \in Ops \ {o}
    BY <1>4
  <2>2. Edited(x.op)' <=> Edited(x.op)
    BY <2>1, <1>5
  <2> QED
    BY <2>1, <2>2 DEF AppliedInv, RunInv
<1>9. AnsweredTruthfully'
  BY DEF AppliedInv, AnsweredTruthfully
<1> QED
  BY <1>2, <1>6, <1>7, <1>8, <1>9 DEF AppliedInv

\* An operation makes a call: its first one, or the next one after an answer.
\* The calls q and the answers a are those that are left but for it.
LEMMA CallSent ==
  ASSUME TypeInv, QueueInv, AppliedInv, NEW o \in Ops, NEW c \in Commands, c.op = o,
         NEW q \in Seq(Ops), NEW a \in Seq(AnswerTypes),
         Matches(q, a, wire), IsInjective(q), Range(q) = UnderWay \ {o}, Range(a) \subseteq Range(answers),
         ops' \in [Ops -> OpStates], \A p \in Ops \ {o} : ops'[p] = ops[p],
         ops[o].pc # "done", ~Edited(o), ops'[o].pc \notin {"off", "done"},
         c.cmd \in {"splice", "push"} <=> Edited(o)',
         Send(q, c), answers' = a, applied' = applied
  PROVE  QueueInv' /\ AppliedInv'
<1>1. wire \in Seq(Commands)
  BY DEF TypeInv, LiveTypes
<1>2. UnderWay' = UnderWay \cup {o} /\ o \notin Range(q)
  BY DEF UnderWay
<1>3. QueueInv'
  <2>1. Matches(pending', answers', wire')
    <3>1. Matches(Append(q, c.op), a, Append(wire, c))
      BY <1>1, MatchesSend
    <3> QED
      BY <3>1 DEF Send
  <2>2. IsInjective(pending)' /\ Range(pending)' = Range(q) \cup {o}
    BY <1>2, QueueAppend DEF Send
  <2>3. Range(q) \cup {o} = UnderWay'
    BY <1>2
  <2>4. AnswersMatch'
    BY <2>1 DEF AnswersMatch, Matches
  <2> QED
    BY <2>2, <2>3, <2>4 DEF QueueInv
<1>4. /\ \A x \in Range(a) : x.op \in Ops \ {o}
      /\ \A d \in Range(wire) : d.op \in Ops \ {o}
  <2>1. /\ \A x \in Range(a) : x.op \in Range(q)
        /\ \A d \in Range(wire) : d.op \in Range(q)
    BY <1>1, QueuedWait
  <2> QED
    BY <2>1 DEF UnderWay
<1>5. Range(wire)' = Range(wire) \cup {c}
  BY <1>1, RangeAppend DEF Send
<1>6. \A p \in Ops \ {o} : Edited(p)' <=> Edited(p)
  BY DEF Edited
<1>7. o \notin applied
  BY DEF AppliedInv, NotYetInv
<1>8. NotYetInv'
  BY <1>6, <1>7 DEF AppliedInv, NotYetInv
<1>9. WrittenInv'
  <2> SUFFICES ASSUME NEW d \in Range(wire) \cup {c}
               PROVE  /\ d.cmd \in {"splice", "push"} <=> Edited(d.op)'
                      /\ Edited(d.op)' => d.op \notin applied'
    BY <1>5 DEF WrittenInv
  <2>1. CASE d = c
    BY <2>1, <1>7
  <2>2. CASE d \in Range(wire)
    <3>1. Edited(d.op)' <=> Edited(d.op)
      BY <2>2, <1>4, <1>6
    <3> QED
      BY <2>2, <3>1 DEF AppliedInv, WrittenInv
  <2> QED
    BY <2>1, <2>2
<1>10. RunInv'
  <2> SUFFICES ASSUME NEW x \in Range(a)
               PROVE  Edited(x.op)' => x.op \in applied'
    BY DEF RunInv
  <2>1. Edited(x.op)' <=> Edited(x.op)
    BY <1>4, <1>6
  <2> QED
    BY <2>1 DEF AppliedInv, RunInv
<1>11. AnsweredTruthfully'
  BY DEF AppliedInv, AnsweredTruthfully
<1> QED
  BY <1>3, <1>8, <1>9, <1>10, <1>11 DEF AppliedInv

\* The call that has waited longest is answered, and its operation is done.
LEMMA CallAnswered ==
  ASSUME TypeInv, QueueInv, AppliedInv, answers # <<>>, pending # <<>>,
         NEW o \in Ops, o = Head(pending),
         ops' \in [Ops -> OpStates], \A p \in Ops \ {o} : ops'[p] = ops[p],
         ops'[o].pc = "done",
         ops'[o].result = "ok" => Edited(o),
         ops'[o].result = "unchanged" => ~Edited(o),
         pending' = Tail(pending), answers' = Tail(answers), UNCHANGED <<wire, applied>>
  PROVE  QueueInv' /\ AppliedInv'
<1>1. /\ pending \in Seq(Ops) /\ answers \in Seq(AnswerTypes) /\ wire \in Seq(Commands)
      /\ Matches(pending, answers, wire) /\ IsInjective(pending) /\ Range(pending) = UnderWay
  BY MatchesIsAnswersMatch DEF TypeInv, LiveTypes, QueueInv
<1>2. Matches(Tail(pending), Tail(answers), wire) /\ o = Head(answers).op
  BY <1>1, MatchesAnswered
<1>3. /\ IsInjective(Tail(pending)) /\ Range(Tail(pending)) = UnderWay \ {o} /\ o \in UnderWay
      /\ Tail(pending) \in Seq(Ops)
  BY <1>1, QueueTail
<1>4. Range(Tail(answers)) \subseteq Range(answers) /\ Head(answers) \in Range(answers)
  BY <1>1, RangeTail
<1>5. Tail(answers) \in Seq(AnswerTypes)
  BY <1>1, HeadTailProperties
<1>6. \A p \in Ops \ {o} : ops'[p] = ops[p]
  OBVIOUS
<1>7. ops'[o].pc = "done"
  OBVIOUS
<1>8. UnderWay' = UnderWay \ {o}
  BY <1>3, <1>6, <1>7 DEF UnderWay
<1>9. QueueInv'
  <2>1. Matches(pending', answers', wire')
    BY <1>2
  <2> QED
    BY <2>1, <1>3, <1>8 DEF QueueInv, AnswersMatch, Matches
<1>10. /\ \A x \in Range(Tail(answers)) : x.op \in Ops \ {o}
       /\ \A c \in Range(wire) : c.op \in Ops \ {o}
  <2>1. /\ \A x \in Range(Tail(answers)) : x.op \in Range(Tail(pending))
        /\ \A c \in Range(wire) : c.op \in Range(Tail(pending))
    BY <1>1, <1>2, <1>3, <1>5, QueuedWait
  <2> QED
    BY <2>1, <1>3 DEF UnderWay
<1>11. /\ ~Edited(o)'
       /\ \A p \in Ops \ {o} : Edited(p)' <=> Edited(p)
  BY <1>6, <1>7 DEF Edited
<1>12. NotYetInv'
  BY <1>6, <1>7, <1>11 DEF AppliedInv, NotYetInv
<1>13. WrittenInv'
  <2> SUFFICES ASSUME NEW c \in Range(wire)
               PROVE  /\ c.cmd \in {"splice", "push"} <=> Edited(c.op)'
                      /\ Edited(c.op)' => c.op \notin applied'
    BY DEF WrittenInv
  <2>1. Edited(c.op)' <=> Edited(c.op)
    BY <1>10, <1>11
  <2> QED
    BY <2>1 DEF AppliedInv, WrittenInv
<1>14. RunInv'
  <2> SUFFICES ASSUME NEW x \in Range(Tail(answers))
               PROVE  Edited(x.op)' => x.op \in applied'
    BY DEF RunInv
  <2>1. Edited(x.op)' <=> Edited(x.op)
    BY <1>10, <1>11
  <2> QED
    BY <2>1, <1>4 DEF AppliedInv, RunInv
<1>15. AnsweredTruthfully'
  <2>1. /\ ops'[o].result = "ok" => o \in applied
        /\ ops'[o].result = "unchanged" => o \notin applied
    <3>1. Edited(o) => o \in applied
      BY <1>2, <1>4 DEF AppliedInv, RunInv
    <3>2. ~Edited(o) => o \notin applied
      BY <1>3 DEF AppliedInv, NotYetInv, UnderWay
    <3> QED
      BY <3>1, <3>2
  <2> QED
    BY <2>1, <1>6 DEF AppliedInv, AnsweredTruthfully
<1> QED
  BY <1>9, <1>12, <1>13, <1>14, <1>15 DEF AppliedInv

LEMMA OffTyped == Off \in OpStates
<1>1. <<>> \in Seq(Uuids) /\ "get_context" \in Reads \cup Edits
  BY DEF Reads
<1> QED
  BY <1>1 DEF Off, OpStates

LEMMA DoneTyped ==
  ASSUME NEW r \in {"none", "ok", "unchanged", "lost"}
  PROVE  [Off EXCEPT !.pc = "done", !.result = r] \in OpStates
BY OffTyped DEF OpStates

\* The connection is gone: no call waits, no command or answer is left.
LEMMA CallsRejected ==
  ASSUME TypeInv, QueueInv, AppliedInv, Reject, Rejected, applied' = applied
  PROVE  QueueInv' /\ AppliedInv' /\ ops' \in [Ops -> OpStates]
<1>1. /\ ops \in [Ops -> OpStates]
      /\ ops' = [o \in Ops |-> IF o \in UnderWay
                               THEN [Off EXCEPT !.pc = "done", !.result = "lost"] ELSE ops[o]]
  BY DEF TypeInv, LiveTypes, Rejected
<1>2. [Off EXCEPT !.pc = "done", !.result = "lost"] \in OpStates
  BY DoneTyped
<1>3. \A o \in Ops : o \in UnderWay => ops'[o].pc = "done" /\ ops'[o].result = "lost"
  BY <1>1 DEF Off
<1>4. \A o \in Ops : o \notin UnderWay => ops'[o] = ops[o] /\ ops[o].pc \in {"off", "done"}
  BY <1>1 DEF UnderWay
<1>5. UnderWay' = {} /\ \A o \in Ops : ~Edited(o)'
  BY <1>3, <1>4 DEF UnderWay, Edited
<1>6. pending' = <<>> /\ wire' = <<>> /\ answers' = <<>> /\ Range(<<>>) = {}
  BY DEF Reject, Range
<1>7. QueueInv'
  BY <1>5, <1>6 DEF QueueInv, AnswersMatch, IsInjective
<1>8. NotYetInv'
  BY <1>3, <1>4 DEF AppliedInv, NotYetInv, Edited
<1>9. WrittenInv' /\ RunInv'
  BY <1>6 DEF WrittenInv, RunInv
<1>10. AnsweredTruthfully'
  BY <1>3, <1>4 DEF AppliedInv, AnsweredTruthfully
<1>11. ops' \in [Ops -> OpStates]
  BY <1>1, <1>2
<1> QED
  BY <1>7, <1>8, <1>9, <1>10, <1>11 DEF AppliedInv

\* The CLI runs a command: a change is made now, and then alone.
LEMMA CommandRun ==
  ASSUME TypeInv, QueueInv, AppliedInv, RunCmd
  PROVE  QueueInv' /\ AppliedInv'
<1> DEFINE c == Head(wire)
<1>1. /\ pending \in Seq(Ops) /\ answers \in Seq(AnswerTypes) /\ wire \in Seq(Commands)
      /\ Matches(pending, answers, wire) /\ IsInjective(pending) /\ Range(pending) = UnderWay
      /\ wire # <<>> /\ mm \in Seq(Uuids)
  BY MatchesIsAnswersMatch DEF TypeInv, LiveTypes, QueueInv, RunCmd, HandleCmd
<1>2. /\ c \in Commands /\ c \in Range(wire) /\ Range(Tail(wire)) \subseteq Range(wire)
      /\ Tail(wire) \in Seq(Commands)
  BY <1>1, RangeTail, HeadTailProperties
<1>3. c.op \in Ops /\ c.op \in UnderWay
  BY <1>1, <1>2, QueuedWait DEF Commands
<1>4. /\ \A d \in Range(Tail(wire)) : d.op # c.op
      /\ \A x \in Range(answers) : x.op # c.op
  BY <1>1, HeadRunsOnce
<1>5. Answer(c) \in AnswerTypes /\ Answer(c).op = c.op
  BY <1>1, <1>3 DEF Answer, AnswerTypes
<1>6. Matches(pending, Append(answers, Answer(c)), Tail(wire))
  BY <1>1, <1>5, MatchesRun
<1> HIDE DEF c
<1>7. /\ answers' = Append(answers, Answer(c)) /\ wire' = Tail(wire) /\ pending' = pending
      /\ ops' = ops
      /\ applied' = IF c.cmd \in {"splice", "push"} THEN applied \cup {c.op} ELSE applied
  BY DEF RunCmd, HandleCmd, c
<1>8. Range(answers') = Range(answers) \cup {Answer(c)}
  BY <1>1, <1>5, <1>7, RangeAppend
<1>9. QueueInv'
  BY <1>1, <1>6, <1>7 DEF QueueInv, AnswersMatch, Matches, UnderWay
<1>10. /\ \A o \in Ops : Edited(o)' <=> Edited(o)
       /\ c.cmd \in {"splice", "push"} <=> Edited(c.op)
  BY <1>2, <1>7 DEF Edited, AppliedInv, WrittenInv
<1>11. \A p \in Ops : p # c.op => (p \in applied' <=> p \in applied)
  BY <1>7
<1>12. NotYetInv'
  BY <1>3, <1>7, <1>10, <1>11 DEF AppliedInv, NotYetInv, UnderWay
<1>13. WrittenInv'
  <2> SUFFICES ASSUME NEW d \in Range(Tail(wire))
               PROVE  /\ d.cmd \in {"splice", "push"} <=> Edited(d.op)'
                      /\ Edited(d.op)' => d.op \notin applied'
    BY <1>7 DEF WrittenInv
  <2>1. d \in Range(wire) /\ d.op # c.op
    BY <1>2, <1>4
  <2>2. d.op \in Ops
    BY <2>1, <1>1, QueuedWait DEF UnderWay
  <2> QED
    BY <2>1, <2>2, <1>10, <1>11 DEF AppliedInv, WrittenInv
<1>14. RunInv'
  <2> SUFFICES ASSUME NEW x \in Range(answers) \cup {Answer(c)}
               PROVE  Edited(x.op)' => x.op \in applied'
    BY <1>8 DEF RunInv
  <2>1. CASE x \in Range(answers)
    <3>1. x.op \in Ops /\ x.op # c.op
      BY <2>1, <1>1, <1>4, QueuedWait DEF UnderWay
    <3> QED
      BY <2>1, <3>1, <1>10, <1>11 DEF AppliedInv, RunInv
  <2>2. CASE x = Answer(c)
    BY <2>2, <1>3, <1>5, <1>7, <1>10
  <2> QED
    BY <2>1, <2>2
<1>15. AnsweredTruthfully'
  BY <1>3, <1>7, <1>11 DEF AppliedInv, AnsweredTruthfully, UnderWay
<1> QED
  BY <1>9, <1>12, <1>13, <1>14, <1>15 DEF AppliedInv
-----------------------------------------------------------------------------
(***************************************************************************)
(* Types.                                                                  *)
(***************************************************************************)
LEMMA SpliceTyped ==
  ASSUME NEW s \in Seq(Uuids), NEW start \in Nat, NEW n \in Nat, NEW new \in Seq(Uuids)
  PROVE  Spliced(s, start, n, new) \in Seq(Uuids)
<1> DEFINE from == IF start < Len(s) THEN start ELSE Len(s)
           to == IF from + n < Len(s) THEN from + n ELSE Len(s)
<1>1. Len(s) \in Nat /\ from \in 0 .. Len(s) /\ to \in 0 .. Len(s)
  OBVIOUS
<1> HIDE DEF from, to
<1>2. SubSeq(s, 1, from) \in Seq(Uuids) /\ SubSeq(s, to + 1, Len(s)) \in Seq(Uuids)
  <2>1. /\ \A i \in 1 .. from : s[i] \in Uuids
        /\ \A i \in (to + 1) .. Len(s) : s[i] \in Uuids
    BY <1>1, ElementOfSeq
  <2> QED
    BY <1>1, <2>1, SubSeqProperties
<1>3. SubSeq(s, 1, from) \o new \in Seq(Uuids)
  BY <1>2, ConcatProperties
<1>4. SubSeq(s, 1, from) \o new \o SubSeq(s, to + 1, Len(s)) \in Seq(Uuids)
  BY <1>2, <1>3, ConcatProperties
<1> QED
  BY <1>4 DEF Spliced, from, to

LEMMA EffectTyped ==
  ASSUME LiveTypes, NEW c \in Commands
  PROVE  Effect(c) \in Seq(Uuids)
<1>1. c.start \in Nat /\ c.deleteCount \in Nat /\ c.items \in Seq(Uuids) /\ mm \in Seq(Uuids)
  BY DEF Commands, LiveTypes
<1>2. Spliced(mm, c.start, c.deleteCount, c.items) \in Seq(Uuids)
  BY <1>1, SpliceTyped
<1>3. mm \o c.items \in Seq(Uuids)
  BY <1>1, ConcatProperties
<1> QED
  BY <1>1, <1>2, <1>3 DEF Effect

LEMMA FindIndexTyped ==
  ASSUME NEW s \in Seq(Uuids), NEW u
  PROVE  FindIndex(s, u) \in -1 .. Len(s) - 1
<1>1. Len(s) \in Nat /\ DOMAIN s = 1 .. Len(s)
  OBVIOUS
<1>2. CASE \E i \in DOMAIN s : s[i] = u
  <2> DEFINE j == CHOOSE i \in DOMAIN s : s[i] = u
  <2>1. j \in DOMAIN s
    BY <1>2
  <2> HIDE DEF j
  <2> QED
    BY <1>1, <1>2, <2>1 DEF FindIndex, j
<1>3. CASE ~(\E i \in DOMAIN s : s[i] = u)
  BY <1>1, <1>3 DEF FindIndex
<1> QED
  BY <1>2, <1>3

LEMMA FreshTyped ==
  ASSUME LiveTypes, CanMake
  PROVE  Fresh \in Uuids /\ Fresh \in Nat /\ <<Fresh>> \in Seq(Uuids)
BY DEF LiveTypes, CanMake, Fresh

LEMMA ReadTyped ==
  ASSUME NEW o \in Ops, NEW c \in {"get_messages", "get_length", "get_roles"}
  PROVE  Read(o, c) \in Commands /\ Read(o, c).op = o /\ Read(o, c).cmd \notin {"splice", "push"}
<1>1. <<>> \in Seq(Uuids)
  OBVIOUS
<1> QED
  BY <1>1 DEF Read, Commands

LEMMA PushTyped ==
  ASSUME NEW o \in Ops, NEW new \in Seq(Uuids)
  PROVE  Push(o, new) \in Commands /\ Push(o, new).op = o /\ Push(o, new).cmd \in {"splice", "push"}
BY DEF Push, Commands

LEMMA SpliceCommandTyped ==
  ASSUME NEW o \in Ops, NEW start \in Nat, NEW n \in Nat, NEW new \in Seq(Uuids)
  PROVE  /\ Splice(o, start, n, new) \in Commands /\ Splice(o, start, n, new).op = o
         /\ Splice(o, start, n, new).cmd \in {"splice", "push"}
BY DEF Splice, Commands

\* The command of an edit: its indices are indices when the message is there
\* and there is something to do.
LEMMA EditTyped ==
  ASSUME TypeInv, NEW o \in Ops, NEW seen \in Seq(Uuids), ops[o].kind \in Edits,
         ~NotThere(o, seen), ~NothingToDo(o, seen), ops[o].kind \in {"inject", "merge"} => CanMake
  PROVE  Edit(o, seen) \in Commands /\ Edit(o, seen).op = o /\ Edit(o, seen).cmd \in {"splice", "push"}
<1> DEFINE idx == FindIndex(seen, ops[o].uuid)
           IsEdit(c) == c \in Commands /\ c.op = o /\ c.cmd \in {"splice", "push"}
<1> HIDE DEF IsEdit
<1>1. Len(seen) \in Nat /\ idx \in -1 .. Len(seen) - 1 /\ Keep \in Nat
  BY FindIndexTyped, OpsAssumption
<1>2. Names(o) => idx \in 0 .. Len(seen) - 1
  BY <1>1 DEF NotThere
<1> HIDE DEF idx
<1>3. <<>> \in Seq(Uuids)
  OBVIOUS
<1>4. ops[o].kind \in {"inject", "merge"} => <<Fresh>> \in Seq(Uuids)
  BY FreshTyped DEF TypeInv
<1>5. CASE ops[o].kind = "remove"
  <2>1. Names(o)
    BY <1>5 DEF TypeInv, ShapeInv
  <2>2. Edit(o, seen) = Splice(o, idx, 1, <<>>)
    BY <1>5 DEF Edit, idx
  <2>3. idx \in Nat /\ 1 \in Nat
    BY <1>1, <1>2, <2>1
  <2>4. IsEdit(Splice(o, idx, 1, <<>>))
    BY <1>3, <2>3, SpliceCommandTyped DEF IsEdit
  <2> QED
    BY <2>2, <2>4 DEF IsEdit
<1>6. CASE ops[o].kind = "rewind"
  <2>1. Names(o)
    BY <1>6 DEF TypeInv, ShapeInv
  <2>2. Edit(o, seen) = Splice(o, idx + 1, Len(seen) - (idx + 1), <<>>)
    BY <1>6 DEF Edit, idx
  <2>3. idx + 1 \in Nat /\ Len(seen) - (idx + 1) \in Nat
    BY <1>1, <1>2, <2>1
  <2>4. IsEdit(Splice(o, idx + 1, Len(seen) - (idx + 1), <<>>))
    BY <1>3, <2>3, SpliceCommandTyped DEF IsEdit
  <2> QED
    BY <2>2, <2>4 DEF IsEdit
<1>7. CASE ops[o].kind = "truncate"
  <2>1. Edit(o, seen) = Splice(o, 0, Len(seen) - Keep, <<>>)
    BY <1>7 DEF Edit
  <2>2. Len(seen) - Keep \in Nat
    BY <1>1, <1>7 DEF NothingToDo
  <2>3. IsEdit(Splice(o, 0, Len(seen) - Keep, <<>>))
    BY <1>3, <2>2, SpliceCommandTyped DEF IsEdit
  <2> QED
    BY <2>1, <2>3 DEF IsEdit
<1>8. CASE ops[o].kind \in {"inject", "merge"}
  <2>1. \/ Edit(o, seen) = Splice(o, 0, 0, <<Fresh>>)
        \/ Names(o) /\ Edit(o, seen) = Splice(o, idx + 1, 0, <<Fresh>>)
        \/ Edit(o, seen) = Push(o, <<Fresh>>)
    BY <1>8 DEF Edit, idx
  <2>2. Names(o) => idx + 1 \in Nat
    BY <1>1, <1>2
  <2>3. Names(o) => IsEdit(Splice(o, idx + 1, 0, <<Fresh>>))
    BY <1>4, <1>8, <2>2, SpliceCommandTyped DEF IsEdit
  <2>4. IsEdit(Splice(o, 0, 0, <<Fresh>>)) /\ IsEdit(Push(o, <<Fresh>>))
    <3>1. <<Fresh>> \in Seq(Uuids) /\ 0 \in Nat
      BY <1>4, <1>8
    <3>2. IsEdit(Splice(o, 0, 0, <<Fresh>>))
      BY <3>1, SpliceCommandTyped DEF IsEdit
    <3>3. IsEdit(Push(o, <<Fresh>>))
      BY <3>1, PushTyped DEF IsEdit
    <3> QED
      BY <3>2, <3>3
  <2>5. IsEdit(Edit(o, seen))
    BY <2>1, <2>3, <2>4
  <2> QED
    BY <2>5 DEF IsEdit
<1> QED
  BY <1>5, <1>6, <1>7, <1>8 DEF Edits
-----------------------------------------------------------------------------
(***************************************************************************)
(* The steps.                                                              *)
(***************************************************************************)
LEMMA SurgeryInit == Init => SurgeryInv
<1> SUFFICES ASSUME Init PROVE SurgeryInv
  OBVIOUS
<1>1. 1 \in Uuids /\ 2 \in Uuids /\ 3 \in Uuids
  <2>1. Cardinality(Uuids) \in Nat
    BY UuidsAssumption, FS_CardinalityType
  <2> QED
    BY <2>1, UuidsAssumption
<1>2. <<1>> \in Seq(Uuids) /\ <<1, 3>> \in Seq(Uuids)
  BY <1>1
<1>3. /\ pending = <<>> /\ wire = <<>> /\ answers = <<>> /\ applied = {}
      /\ ops = [o \in Ops |-> Off] /\ background = "none"
      /\ Range(<<>>) = {}
  BY DEF Init, Range
<1>4. /\ \A o \in Ops : ops[o].pc = "off" /\ ops[o].kind = "get_context"
      /\ UnderWay = {}
  BY <1>3 DEF UnderWay, Off
<1>5. LiveTypes
  <2>1. <<>> \in Seq(Ops) /\ <<>> \in Seq(Commands) /\ <<>> \in Seq(AnswerTypes)
    OBVIOUS
  <2>2. ops \in [Ops -> OpStates]
    BY <1>3, OffTyped
  <2>3. mm \in Seq(Uuids) /\ made \in Nat
    <3>1. (mm = <<1>> /\ made = 1) \/ (mm = <<1, 3>> /\ made = 3)
      BY DEF Init
    <3>2. CASE mm = <<1>> /\ made = 1
      BY <1>2, <3>2, Zenon
    <3>3. CASE mm = <<1, 3>> /\ made = 3
      BY <1>2, <3>3, Zenon
    <3> QED
      BY <3>1, <3>2, <3>3
  <2>4. ipc = "unset" /\ turn = "running" /\ forked = FALSE /\ stale = {}
    BY DEF Init
  <2> QED
    BY <1>3, <2>1, <2>2, <2>3, <2>4 DEF LiveTypes
<1>6. ShapeInv
  BY <1>4, OpsAssumption DEF ShapeInv
<1>7. QueueInv
  BY <1>3, <1>4 DEF QueueInv, AnswersMatch, IsInjective
<1>8. AppliedInv
  BY <1>3, <1>4 DEF AppliedInv, NotYetInv, WrittenInv, RunInv, AnsweredTruthfully
<1> QED
  BY <1>5, <1>6, <1>7, <1>8 DEF SurgeryInv, TypeInv

\* A step that leaves the calls and the operations alone.
LEMMA QuietStep ==
  ASSUME SurgeryInv, UNCHANGED <<pending, wire, answers, ops, applied>>,
         ipc' \in {"unset", "on", "off"}, mm' \in Seq(Uuids), made' \in Nat,
         turn' \in {"idle", "running", "snapshot", "forking"}, forked' \in BOOLEAN,
         background' \in {"none", "running", "merging", "told"}, stale' \in SUBSET Ops,
         background' \in {"none", "running"} => background \in {"none", "running"}
  PROVE  SurgeryInv'
<1>1. QueueInv' /\ AppliedInv'
  BY NoCallChanges DEF SurgeryInv
<1>2. LiveTypes'
  BY DEF SurgeryInv, TypeInv, LiveTypes
<1>3. ShapeInv'
  BY DEF SurgeryInv, TypeInv, ShapeInv, Names
<1> QED
  BY <1>1, <1>2, <1>3 DEF SurgeryInv, TypeInv

LEMMA AddMessageTyped ==
  ASSUME LiveTypes, NEW type, AddMessage(type)
  PROVE  made' \in Nat /\ mm' \in Seq(Uuids)
<1>1. Fresh \in Uuids /\ Fresh \in Nat /\ mm \in Seq(Uuids)
  BY FreshTyped DEF AddMessage, LiveTypes
<1>2. Append(mm, Fresh) \in Seq(Uuids)
  BY <1>1, AppendProperties
<1> QED
  BY <1>1, <1>2 DEF AddMessage

\* The turns, the forks and the connection at its beginning leave the calls alone.
LEMMA QuietSteps ==
  ASSUME SurgeryInv,
         \/ ConnectIpc \/ TurnBegins \/ TurnSpeaks \/ TurnCompacts \/ TurnEnds \/ SnapshotDone
         \/ ForkBegins \/ ForkFails \/ BackgroundTold
  PROVE  SurgeryInv'
<1>1. /\ ipc \in {"unset", "on", "off"} /\ mm \in Seq(Uuids) /\ made \in Nat
      /\ turn \in {"idle", "running", "snapshot", "forking"} /\ forked \in BOOLEAN
      /\ background \in {"none", "running", "merging", "told"} /\ stale \in SUBSET Ops
      /\ LiveTypes /\ <<>> \in Seq(Uuids)
  BY DEF SurgeryInv, TypeInv, LiveTypes
<1>2. CASE ConnectIpc
  <2>1. /\ UNCHANGED <<pending, wire, answers, ops, applied, made, turn, forked, background, stale>>
        /\ ipc' \in {"on", "off"} /\ mm' \in {mm, <<>>}
    BY <1>2 DEF ConnectIpc, surgeryVars
  <2> QED
    BY <1>1, <2>1, QuietStep
<1>3. CASE TurnBegins
  <2>1. /\ UNCHANGED <<pending, wire, answers, ops, applied, ipc, forked, background, stale>>
        /\ turn' = "running"
    BY <1>3 DEF TurnBegins
  <2>2. made' \in Nat /\ mm' \in Seq(Uuids)
    BY <1>1, <1>3, AddMessageTyped DEF TurnBegins
  <2> QED
    BY <1>1, <2>1, <2>2, QuietStep
<1>4. CASE TurnSpeaks
  <2>1. UNCHANGED <<pending, wire, answers, ops, applied, ipc, turn, forked, background, stale>>
    BY <1>4 DEF TurnSpeaks
  <2>2. made' \in Nat /\ mm' \in Seq(Uuids)
    <3>1. AddMessage("assistant") \/ (made' = Fresh /\ CanMake /\ mm' = mm)
      BY <1>4 DEF TurnSpeaks
    <3> QED
      BY <1>1, <3>1, AddMessageTyped, FreshTyped
  <2> QED
    BY <1>1, <2>1, <2>2, QuietStep
<1>5. CASE TurnCompacts
  <2>1. /\ UNCHANGED <<pending, wire, answers, ops, applied, ipc, turn, forked, background>>
        /\ CanMake /\ made' = Fresh /\ stale' = UnderWay
        /\ mm' = IF ipc = "off" THEN mm ELSE <<Fresh>>
    BY <1>5 DEF TurnCompacts
  <2>2. made' \in Nat /\ mm' \in Seq(Uuids) /\ stale' \in SUBSET Ops
    BY <1>1, <2>1, FreshTyped DEF UnderWay
  <2> QED
    BY <1>1, <2>1, <2>2, QuietStep
<1>6. CASE TurnEnds \/ SnapshotDone \/ ForkFails
  <2>1. /\ UNCHANGED <<pending, wire, answers, ops, applied, ipc, mm, made, forked, background, stale>>
        /\ turn' \in {"idle", "running"}
    BY <1>6 DEF TurnEnds, SnapshotDone, ForkFails, ipcVars
  <2> QED
    BY <1>1, <2>1, QuietStep
<1>7. CASE ForkBegins
  <2>1. /\ UNCHANGED <<pending, wire, answers, ops, applied, ipc, mm, made, forked, stale>>
        /\ turn' = "forking" /\ background = "none" /\ background' = "running"
    BY <1>7 DEF ForkBegins, ipcVars
  <2> QED
    BY <1>1, <2>1, QuietStep
<1>8. CASE BackgroundTold
  <2>1. /\ UNCHANGED <<pending, wire, answers, ops, applied, ipc, mm, made, turn, forked, stale>>
        /\ background' = "told"
    BY <1>8 DEF BackgroundTold, ipcVars
  <2> QED
    BY <1>1, <2>1, QuietStep
<1> QED
  BY <1>2, <1>3, <1>4, <1>5, <1>6, <1>7, <1>8

\* The command that opens an operation, over the socket.
LEMMA BeginStep ==
  ASSUME SurgeryInv, NEW o \in Ops, ops[o].pc = "off", NEW kind \in Reads \cup Edits,
         NEW u \in Uuids \cup {Start, End}, kind \in {"remove", "rewind"} => u \in Uuids,
         BeginIpc(o, kind, u), UNCHANGED <<made, forked, stale, applied>>,
         turn' \in {"idle", "running", "snapshot", "forking"},
         background' \in {"none", "running", "merging", "told"},
         background' \in {"none", "running"} => o # Merge /\ background \in {"none", "running"}
  PROVE  SurgeryInv'
<1> DEFINE c == Read(o, FirstCall(kind))
<1>1. /\ ops \in [Ops -> OpStates] /\ pending \in Seq(Ops) /\ wire \in Seq(Commands)
      /\ answers \in Seq(AnswerTypes)
  BY DEF SurgeryInv, TypeInv, LiveTypes
<1>2. c \in Commands /\ c.op = o /\ c.cmd \notin {"splice", "push"}
  <2>1. FirstCall(kind) \in {"get_messages", "get_length", "get_roles"}
    BY DEF FirstCall
  <2> HIDE DEF FirstCall
  <2> QED
    BY <2>1, ReadTyped
<1>3. Send(pending, c) /\ answers' = answers /\ ipc' = ipc /\ mm' = mm
  BY DEF BeginIpc
<1> HIDE DEF c
<1>4. /\ ops' \in [Ops -> OpStates] /\ \A p \in Ops \ {o} : ops'[p] = ops[p]
      /\ ops'[o].pc = "reading" /\ ops'[o].kind = kind /\ ops'[o].uuid = u
  <2>1. [ops[o] EXCEPT !.pc = "reading", !.kind = kind, !.uuid = u] \in OpStates
    BY <1>1 DEF OpStates
  <2>2. ops' = [ops EXCEPT ![o] = [ops[o] EXCEPT !.pc = "reading", !.kind = kind, !.uuid = u]]
    BY <1>1 DEF BeginIpc
  <2>3. ops[o] \in OpStates
    BY <1>1
  <2> QED
    BY <1>1, <2>1, <2>2, <2>3 DEF OpStates
<1>5. pending' \in Seq(Ops) /\ wire' \in Seq(Commands)
  BY <1>1, <1>2, <1>3, AppendProperties DEF Send
<1>6. LiveTypes'
  BY <1>3, <1>4, <1>5 DEF SurgeryInv, TypeInv, LiveTypes
<1>7. ShapeInv'
  <2>1. \A p \in Ops : ops'[p].kind \in {"remove", "rewind"} => ops'[p].uuid \in Uuids
    BY <1>4 DEF SurgeryInv, TypeInv, ShapeInv, Names
  <2>2. background' \in {"none", "running"} => ops'[Merge].pc = "off"
    BY <1>4, OpsAssumption DEF SurgeryInv, TypeInv, ShapeInv
  <2>3. \A p \in Ops : ops'[p].pc = "rereading" => ops'[p].kind = "snapshot"
    BY <1>4 DEF SurgeryInv, TypeInv, ShapeInv
  <2> QED
    BY <2>1, <2>2, <2>3 DEF ShapeInv, Names
<1>8. QueueInv' /\ AppliedInv'
  <2>1. /\ Matches(pending, answers, wire) /\ IsInjective(pending) /\ Range(pending) = UnderWay \ {o}
        /\ TypeInv /\ QueueInv /\ AppliedInv
    BY MatchesIsAnswersMatch DEF SurgeryInv, QueueInv, UnderWay
  <2>2. ops[o].pc # "done" /\ ~Edited(o) /\ ops'[o].pc \notin {"off", "done"}
    BY <1>4 DEF Edited
  <2>3. c.cmd \in {"splice", "push"} <=> Edited(o)'
    BY <1>2, <1>4 DEF Edited
  <2> QED
    BY <1>1, <1>2, <1>3, <1>4, <2>1, <2>2, <2>3, CallSent
<1> QED
  BY <1>6, <1>7, <1>8 DEF SurgeryInv, TypeInv

\* An operation on the transcript, or one that is refused, is answered at once.
LEMMA JsonlStep ==
  ASSUME SurgeryInv, NEW o \in Ops, o # Merge, ops[o].pc = "off",
         NEW kind \in {"get_context", "get_stats", "remove", "inject", "truncate", "rewind"},
         NEW u \in Uuids \cup {Start, End}, kind \in {"remove", "rewind"} => u \in Uuids,
         Jsonl(o, kind, u) \/ (Finish(o, "unchanged") /\ UNCHANGED <<made, applied>>),
         UNCHANGED <<ipcVars, turn, forked, background, stale>>
  PROVE  SurgeryInv'
<1>1. /\ ops \in [Ops -> OpStates] /\ applied \in SUBSET Ops /\ LiveTypes
      /\ TypeInv /\ QueueInv /\ AppliedInv
  BY DEF SurgeryInv, TypeInv, LiveTypes
<1> DEFINE Done(new) == [Off EXCEPT !.pc = "done", !.kind = kind, !.uuid = u, !.new = new, !.result = "ok"]
           Unchanged == Finish(o, "unchanged") /\ applied' = applied /\ made' \in Nat
           Changed(new) == ops' = [ops EXCEPT ![o] = Done(new)] /\ applied' = applied \cup {o} /\ made' \in Nat
<1>2. Unchanged \/ \E new \in Uuids \cup {Root} : Changed(new)
  <2>1. made \in Nat /\ (CanMake => Fresh \in Uuids /\ Fresh \in Nat)
    BY <1>1, FreshTyped DEF LiveTypes
  <2>2. CASE Finish(o, "unchanged") /\ UNCHANGED <<made, applied>>
    BY <2>1, <2>2
  <2>3. CASE Jsonl(o, kind, u) /\ kind \in {"get_context", "get_stats", "rewind"}
    BY <2>1, <2>3 DEF Jsonl, Reads
  <2>4. CASE Jsonl(o, kind, u) /\ kind = "remove"
    BY <2>1, <2>4 DEF Jsonl, Reads
  <2>5. CASE Jsonl(o, kind, u) /\ kind = "inject"
    BY <2>1, <2>5 DEF Jsonl, Reads
  <2>6. CASE Jsonl(o, kind, u) /\ kind = "truncate"
    BY <2>1, <2>6 DEF Jsonl, Reads
  <2> QED
    BY <2>2, <2>3, <2>4, <2>5, <2>6
<1>3. /\ ops' \in [Ops -> OpStates] /\ \A p \in Ops \ {o} : ops'[p] = ops[p]
      /\ ops'[o].pc = "done" /\ (ops'[o].kind \in {"remove", "rewind"} => ops'[o].uuid \in Uuids)
      /\ ops'[o].result = "ok" => o \in applied'
      /\ ops'[o].result = "unchanged" => o \notin applied'
      /\ \A p \in Ops \ {o} : p \in applied' <=> p \in applied
      /\ applied' \in SUBSET Ops /\ made' \in Nat
  <2>1. CASE Unchanged
    <3>1. ops' = [ops EXCEPT ![o] = [Off EXCEPT !.pc = "done", !.result = "unchanged"]]
      BY <2>1 DEF Finish
    <3>2. o \notin applied
      BY <1>1 DEF AppliedInv, NotYetInv, Edited
    <3> QED
      BY <1>1, <2>1, <3>1, <3>2, DoneTyped DEF Off
  <2>2. ASSUME NEW new \in Uuids \cup {Root}, Changed(new)
        PROVE  /\ ops' \in [Ops -> OpStates] /\ \A p \in Ops \ {o} : ops'[p] = ops[p]
               /\ ops'[o].pc = "done" /\ (ops'[o].kind \in {"remove", "rewind"} => ops'[o].uuid \in Uuids)
               /\ ops'[o].result = "ok" => o \in applied'
               /\ ops'[o].result = "unchanged" => o \notin applied'
               /\ \A p \in Ops \ {o} : p \in applied' <=> p \in applied
               /\ applied' \in SUBSET Ops /\ made' \in Nat
    <3>1. kind \in Reads \cup Edits
      BY DEF Reads, Edits
    <3>2. Done(new) \in OpStates
      BY <3>1, OffTyped DEF OpStates
    <3>3. Done(new).pc = "done" /\ Done(new).kind = kind /\ Done(new).uuid = u /\ Done(new).result = "ok"
      BY DEF Off
    <3> HIDE DEF Done
    <3> QED
      BY <1>1, <2>2, <3>2, <3>3
  <2> QED
    BY <1>2, <2>1, <2>2
<1>4. UNCHANGED <<pending, wire, answers, ipc, mm>>
  BY DEF ipcVars
<1>5. QueueInv' /\ AppliedInv'
  <2>1. /\ \A p \in Ops \ {o} : ops'[p] = ops[p] /\ (p \in applied' <=> p \in applied)
        /\ ops[o].pc \in {"off", "done"} /\ ops'[o].pc \in {"off", "done"}
        /\ ops'[o].pc = "off" => o \notin applied'
        /\ ops'[o].pc = "done" => /\ ops'[o].result = "ok" => o \in applied'
                                  /\ ops'[o].result = "unchanged" => o \notin applied'
    BY <1>3
  <2> QED
    BY <1>1, <1>3, <1>4, <2>1, AnsweredAtOnce
<1>6. LiveTypes'
  BY <1>1, <1>3, <1>4 DEF LiveTypes
<1>7. ShapeInv'
  <2>1. \A p \in Ops : ops'[p].kind \in {"remove", "rewind"} => ops'[p].uuid \in Uuids
    BY <1>3 DEF SurgeryInv, TypeInv, ShapeInv, Names
  <2>2. background' \in {"none", "running"} => ops'[Merge].pc = "off"
    BY <1>3, OpsAssumption DEF SurgeryInv, TypeInv, ShapeInv
  <2>3. \A p \in Ops : ops'[p].pc = "rereading" => ops'[p].kind = "snapshot"
    BY <1>3 DEF SurgeryInv, TypeInv, ShapeInv
  <2> QED
    BY <2>1, <2>2, <2>3 DEF ShapeInv, Names
<1> QED
  BY <1>5, <1>6, <1>7 DEF SurgeryInv, TypeInv

LEMMA HandleContextStep ==
  ASSUME SurgeryInv, NEW o \in Ops, HandleContext(o)
  PROVE  SurgeryInv'
<1>1. PICK kind \in {"get_context", "get_stats", "remove", "inject", "truncate", "rewind"},
           u \in Uuids \cup {Start, End} :
        /\ u = Start => kind = "inject"
        /\ u = End => kind \notin {"remove", "rewind"}
        /\ \/ Finish(o, "unchanged") /\ UNCHANGED <<ipcVars, made, applied>>
           \/ Jsonl(o, kind, u) /\ UNCHANGED ipcVars
           \/ BeginIpc(o, kind, u) /\ UNCHANGED <<made, applied>>
  BY DEF HandleContext
<1>2. o # Merge /\ ops[o].pc = "off" /\ UNCHANGED <<turn, forked, background, stale>>
  BY DEF HandleContext
<1>3. kind \in {"remove", "rewind"} => u \in Uuids
  BY <1>1
<1>4. CASE UNCHANGED ipcVars
          /\ (Jsonl(o, kind, u) \/ (Finish(o, "unchanged") /\ UNCHANGED <<made, applied>>))
  BY <1>2, <1>3, <1>4, JsonlStep
<1>5. CASE BeginIpc(o, kind, u) /\ UNCHANGED <<made, applied>>
  <2>1. kind \in Reads \cup Edits
    BY DEF Reads, Edits
  <2>2. /\ turn' \in {"idle", "running", "snapshot", "forking"}
        /\ background' \in {"none", "running", "merging", "told"}
    BY <1>2 DEF SurgeryInv, TypeInv, LiveTypes
  <2> QED
    BY <1>2, <1>3, <1>5, <2>1, <2>2, BeginStep
<1> QED
  BY <1>1, <1>4, <1>5

LEMMA SendAnswerStep ==
  ASSUME SurgeryInv, NEW o \in Ops, SendAnswer(o)
  PROVE  SurgeryInv'
<1>1. /\ o # Merge /\ ops[o].pc = "done" /\ ops' = [ops EXCEPT ![o] = Off] /\ applied' = applied \ {o}
      /\ UNCHANGED <<pending, wire, answers, ipc, mm, made, turn, forked, background, stale>>
  BY DEF SendAnswer, ipcVars
<1>2. ops \in [Ops -> OpStates] /\ TypeInv /\ QueueInv /\ AppliedInv
  BY DEF SurgeryInv, TypeInv, LiveTypes
<1>3. /\ ops' \in [Ops -> OpStates] /\ ops'[o].pc = "off" /\ ops'[o].kind = "get_context"
      /\ \A p \in Ops \ {o} : ops'[p] = ops[p]
      /\ \A p \in Ops \ {o} : p \in applied' <=> p \in applied
      /\ o \notin applied'
  BY <1>1, <1>2, OffTyped DEF Off
<1>4. QueueInv' /\ AppliedInv'
  <2>1. /\ \A p \in Ops \ {o} : ops'[p] = ops[p] /\ (p \in applied' <=> p \in applied)
        /\ ops[o].pc \in {"off", "done"} /\ ops'[o].pc \in {"off", "done"}
        /\ ops'[o].pc = "off" => o \notin applied'
        /\ ops'[o].pc = "done" => /\ ops'[o].result = "ok" => o \in applied'
                                  /\ ops'[o].result = "unchanged" => o \notin applied'
    BY <1>1, <1>3
  <2> QED
    BY <1>1, <1>2, <1>3, <2>1, AnsweredAtOnce
<1>5. LiveTypes'
  BY <1>1, <1>2, <1>3 DEF TypeInv, LiveTypes
<1>6. ShapeInv'
  <2>1. \A p \in Ops : ops'[p].kind \in {"remove", "rewind"} => ops'[p].uuid \in Uuids
    BY <1>3 DEF SurgeryInv, TypeInv, ShapeInv, Names
  <2>2. background' \in {"none", "running"} => ops'[Merge].pc = "off"
    BY <1>1, <1>3, OpsAssumption DEF SurgeryInv, TypeInv, ShapeInv
  <2>3. \A p \in Ops : ops'[p].pc = "rereading" => ops'[p].kind = "snapshot"
    BY <1>3 DEF SurgeryInv, TypeInv, ShapeInv
  <2> QED
    BY <2>1, <2>2, <2>3 DEF ShapeInv, Names
<1> QED
  BY <1>4, <1>5, <1>6 DEF SurgeryInv, TypeInv

LEMMA SnapshotStep ==
  ASSUME SurgeryInv, NEW o \in Ops, Snapshot(o)
  PROVE  SurgeryInv'
<1>1. /\ o # Merge /\ ops[o].pc = "off" /\ turn' = "snapshot" /\ BeginIpc(o, "snapshot", End)
      /\ UNCHANGED <<made, forked, background, stale, applied>>
  BY DEF Snapshot
<1>2. background' \in {"none", "running", "merging", "told"}
  BY <1>1 DEF SurgeryInv, TypeInv, LiveTypes
<1>3. "snapshot" \in Reads \cup Edits
  BY DEF Reads
<1> QED
  BY <1>1, <1>2, <1>3, BeginStep

\* The types, and the merge, of a step that leaves the others' names alone.
LEMMA TypesKept ==
  ASSUME TypeInv, ops' \in [Ops -> OpStates],
         \A o \in Ops : \/ ops'[o].kind = ops[o].kind /\ ops'[o].uuid = ops[o].uuid
                        \/ ops'[o].kind \notin {"remove", "rewind"},
         \A o \in Ops : ops'[o].pc = "rereading" => ops'[o].kind = "snapshot",
         background' \in {"none", "running"} => ops'[Merge].pc = "off",
         pending' \in Seq(Ops), wire' \in Seq(Commands), answers' \in Seq(AnswerTypes),
         ipc' \in {"unset", "on", "off"}, mm' \in Seq(Uuids), made' \in Nat,
         turn' \in {"idle", "running", "snapshot", "forking"}, forked' \in BOOLEAN,
         background' \in {"none", "running", "merging", "told"},
         stale' \in SUBSET Ops, applied' \in SUBSET Ops
  PROVE  TypeInv'
<1>1. LiveTypes'
  BY DEF LiveTypes
<1>2. \A p \in Ops : ops'[p].kind \in {"remove", "rewind"} => ops'[p].uuid \in Uuids
  BY DEF TypeInv, ShapeInv, Names
<1> QED
  BY <1>1, <1>2 DEF TypeInv, ShapeInv, Names

\* The connection breaks, or the forked session comes to the front.
LEMMA RejectStep ==
  ASSUME SurgeryInv, Reject, Rejected, mm' = <<>>, UNCHANGED <<made, background, applied>>,
         turn' \in {"idle", "running", "snapshot", "forking"}, forked' \in BOOLEAN
  PROVE  SurgeryInv'
<1>1. /\ QueueInv' /\ AppliedInv' /\ ops' \in [Ops -> OpStates]
      /\ TypeInv /\ ops \in [Ops -> OpStates]
  BY CallsRejected DEF SurgeryInv, TypeInv, LiveTypes
<1>2. /\ \A o \in Ops : ops'[o] = ops[o] \/ (ops'[o].kind = "get_context" /\ ops'[o].pc = "done")
      /\ \A o \in Ops : ops[o].pc = "off" => ops'[o] = ops[o]
  BY <1>1 DEF Rejected, UnderWay, Off
<1>3. background' \in {"none", "running"} => ops'[Merge].pc = "off"
  BY <1>2, OpsAssumption DEF SurgeryInv, TypeInv, ShapeInv
<1>4. /\ pending' \in Seq(Ops) /\ wire' \in Seq(Commands) /\ answers' \in Seq(AnswerTypes)
      /\ ipc' = "off" /\ mm' \in Seq(Uuids) /\ stale' \in SUBSET Ops
  BY DEF Reject, Rejected
<1>5. made' \in Nat /\ background' \in {"none", "running", "merging", "told"} /\ applied' \in SUBSET Ops
  BY DEF SurgeryInv, TypeInv, LiveTypes
<1>6. \A o \in Ops : \/ ops'[o].kind = ops[o].kind /\ ops'[o].uuid = ops[o].uuid
                     \/ ops'[o].kind \notin {"remove", "rewind"}
  BY <1>2
<1>7. TypeInv'
  <2>1. \A p \in Ops : ops'[p].pc = "rereading" => ops'[p].kind = "snapshot"
    BY <1>2 DEF SurgeryInv, TypeInv, ShapeInv
  <2> QED
    BY <1>1, <1>3, <1>4, <1>5, <1>6, <2>1, TypesKept
<1> QED
  BY <1>1, <1>7 DEF SurgeryInv

LEMMA RunCmdStep ==
  ASSUME SurgeryInv, RunCmd
  PROVE  SurgeryInv'
<1>1. QueueInv' /\ AppliedInv'
  BY CommandRun DEF SurgeryInv
<1>2. /\ wire # <<>> /\ mm' = Effect(Head(wire)) /\ answers' = Append(answers, Answer(Head(wire)))
      /\ wire' = Tail(wire) /\ UNCHANGED <<ipc, pending, made, turn, forked, background, ops>>
      /\ applied' \in {applied, applied \cup {Head(wire).op}}
      /\ stale' \in {stale, stale \cup (UnderWay \ {Head(wire).op}), stale \ {Head(wire).op}}
  BY DEF RunCmd, HandleCmd
<1>3. LiveTypes
  BY DEF SurgeryInv, TypeInv
<1>4. Head(wire) \in Commands /\ Tail(wire) \in Seq(Commands)
  BY <1>2, <1>3, HeadTailProperties DEF LiveTypes
<1>5. Effect(Head(wire)) \in Seq(Uuids) /\ Head(wire).op \in Ops
  BY <1>3, <1>4, EffectTyped DEF Commands
<1>6. Answer(Head(wire)) \in AnswerTypes
  BY <1>3, <1>5 DEF Answer, AnswerTypes, LiveTypes
<1>7. Append(answers, Answer(Head(wire))) \in Seq(AnswerTypes)
  BY <1>3, <1>6, AppendProperties DEF LiveTypes
<1>8. LiveTypes'
  BY <1>2, <1>3, <1>4, <1>5, <1>7 DEF LiveTypes, UnderWay
<1>9. ShapeInv'
  BY <1>2 DEF SurgeryInv, TypeInv, ShapeInv, Names
<1> QED
  BY <1>1, <1>8, <1>9 DEF SurgeryInv, TypeInv

LEMMA BackgroundEndsStep ==
  ASSUME SurgeryInv, BackgroundEnds
  PROVE  SurgeryInv'
<1>1. /\ background = "running" /\ UNCHANGED <<turn, forked, stale, applied>>
      /\ ops[Merge].pc = "off" /\ Merge \in Ops
      /\ turn' \in {"idle", "running", "snapshot", "forking"} /\ forked' \in BOOLEAN /\ stale' \in SUBSET Ops
      /\ applied' \in SUBSET Ops /\ TypeInv /\ LiveTypes
  BY OpsAssumption DEF BackgroundEnds, SurgeryInv, TypeInv, LiveTypes, ShapeInv
<1>2. CASE background' = "merging" /\ BeginIpc(Merge, "merge", End) /\ made' = made
  <2>1. "merge" \in Reads \cup Edits
    BY DEF Edits
  <2> QED
    BY <1>1, <1>2, <2>1, BeginStep
<1>3. CASE /\ background' = "merging" /\ CanMake /\ made' = Fresh
           /\ ops' = [ops EXCEPT ![Merge].pc = "editing", ![Merge].kind = "merge", ![Merge].new = Fresh]
           /\ Send(pending, Push(Merge, <<Fresh>>)) /\ UNCHANGED <<ipc, answers, mm>>
  <2> DEFINE c == Push(Merge, <<Fresh>>)
  <2>1. Fresh \in Uuids /\ Fresh \in Nat /\ <<Fresh>> \in Seq(Uuids)
    BY <1>1, <1>3, FreshTyped
  <2>2. c \in Commands /\ c.op = Merge /\ c.cmd \in {"splice", "push"}
    BY <1>1, <2>1, PushTyped
  <2>3. Send(pending, c)
    BY <1>3
  <2> HIDE DEF c
  <2>4. /\ pending \in Seq(Ops) /\ wire \in Seq(Commands) /\ answers \in Seq(AnswerTypes)
        /\ ops \in [Ops -> OpStates] /\ ops[Merge] \in OpStates /\ mm \in Seq(Uuids)
        /\ ipc \in {"unset", "on", "off"}
    BY <1>1 DEF LiveTypes
  <2>5. /\ ops' \in [Ops -> OpStates] /\ \A p \in Ops \ {Merge} : ops'[p] = ops[p]
        /\ ops'[Merge].pc = "editing" /\ ops'[Merge].kind = "merge"
    <3>1. [ops[Merge] EXCEPT !.pc = "editing", !.kind = "merge", !.new = Fresh] \in OpStates
      BY <2>1, <2>4 DEF OpStates, Edits
    <3>2. ops' = [ops EXCEPT ![Merge] = [ops[Merge] EXCEPT !.pc = "editing", !.kind = "merge", !.new = Fresh]]
      BY <1>3, <2>4
    <3> QED
      BY <1>1, <2>4, <3>1, <3>2 DEF OpStates
  <2>6. pending' \in Seq(Ops) /\ wire' \in Seq(Commands)
    BY <1>1, <2>2, <2>3, <2>4, AppendProperties DEF Send
  <2>7. QueueInv' /\ AppliedInv'
    <3>1. /\ Matches(pending, answers, wire) /\ IsInjective(pending) /\ Range(pending) = UnderWay \ {Merge}
          /\ QueueInv /\ AppliedInv
      BY <1>1, MatchesIsAnswersMatch DEF SurgeryInv, QueueInv, UnderWay
    <3>2. ops[Merge].pc # "done" /\ ~Edited(Merge) /\ ops'[Merge].pc \notin {"off", "done"}
      BY <1>1, <2>5 DEF Edited
    <3>3. c.cmd \in {"splice", "push"} <=> Edited(Merge)'
      BY <2>2, <2>5 DEF Edited, Edits
    <3>4. answers' = answers /\ Range(answers) \subseteq Range(answers)
      BY <1>3
    <3> QED
      BY <1>1, <2>2, <2>3, <2>4, <2>5, <3>1, <3>2, <3>3, <3>4, CallSent
  <2>8. \A o \in Ops : \/ ops'[o].kind = ops[o].kind /\ ops'[o].uuid = ops[o].uuid
                       \/ ops'[o].kind \notin {"remove", "rewind"}
    BY <2>5
  <2>9. TypeInv'
    <3>1. /\ made' \in Nat /\ answers' \in Seq(AnswerTypes) /\ ipc' \in {"unset", "on", "off"}
          /\ mm' \in Seq(Uuids)
      BY <1>3, <2>1, <2>4
    <3>2. \A p \in Ops : ops'[p].pc = "rereading" => ops'[p].kind = "snapshot"
      BY <2>5 DEF SurgeryInv, TypeInv, ShapeInv
    <3> QED
      BY <1>1, <1>3, <2>5, <2>6, <2>8, <3>1, <3>2, TypesKept
  <2> QED
    BY <2>7, <2>9 DEF SurgeryInv
<1>4. CASE background' = "told" /\ UNCHANGED <<ipcVars, ops, made>>
  <2>1. /\ UNCHANGED <<pending, wire, answers, ops, applied>>
        /\ ipc' \in {"unset", "on", "off"} /\ mm' \in Seq(Uuids) /\ made' \in Nat
    BY <1>1, <1>4 DEF ipcVars, LiveTypes
  <2> QED
    BY <1>1, <1>4, <2>1, QuietStep
<1> QED
  BY <1>2, <1>3, <1>4 DEF BackgroundEnds

\* An answer arrives and the operation makes its next call.
LEMMA GoesOn ==
  ASSUME SurgeryInv, answers # <<>>, pending # <<>>, NEW o \in Ops, o = Head(pending),
         NEW c \in Commands, c.op = o,
         ops' \in [Ops -> OpStates], \A p \in Ops \ {o} : ops'[p] = ops[p],
         ops'[o].kind = ops[o].kind, ops'[o].uuid = ops[o].uuid, ops'[o].pc \in {"rereading", "editing"},
         ops'[o].pc = "rereading" => ops[o].kind = "snapshot", ~Edited(o), c.cmd \in {"splice", "push"} <=> Edited(o)',
         Send(Tail(pending), c), answers' = Tail(answers), made' \in Nat, stale' \in SUBSET Ops,
         UNCHANGED <<ipc, mm, turn, forked, background, applied>>
  PROVE  SurgeryInv'
<1>1. /\ pending \in Seq(Ops) /\ answers \in Seq(AnswerTypes) /\ wire \in Seq(Commands)
      /\ Matches(pending, answers, wire) /\ IsInjective(pending) /\ Range(pending) = UnderWay
      /\ TypeInv /\ QueueInv /\ AppliedInv
  BY MatchesIsAnswersMatch DEF SurgeryInv, TypeInv, LiveTypes, QueueInv
<1>2. Matches(Tail(pending), Tail(answers), wire)
  BY <1>1, MatchesAnswered
<1>3. /\ IsInjective(Tail(pending)) /\ Range(Tail(pending)) = UnderWay \ {o} /\ o \in UnderWay
      /\ Tail(pending) \in Seq(Ops)
  BY <1>1, QueueTail
<1>4. Range(Tail(answers)) \subseteq Range(answers) /\ Tail(answers) \in Seq(AnswerTypes)
  BY <1>1, RangeTail, HeadTailProperties
<1>5. ops[o].pc \notin {"off", "done"} /\ ops'[o].pc \notin {"off", "done"}
  BY <1>3 DEF UnderWay
<1>6. QueueInv' /\ AppliedInv'
  BY <1>1, <1>2, <1>3, <1>4, <1>5, CallSent
<1>7. pending' \in Seq(Ops) /\ wire' \in Seq(Commands) /\ answers' \in Seq(AnswerTypes)
  BY <1>1, <1>3, <1>4, AppendProperties DEF Send
<1>8. \A p \in Ops : ops'[p].kind = ops[p].kind /\ ops'[p].uuid = ops[p].uuid
  OBVIOUS
<1>9. background' \in {"none", "running"} => ops'[Merge].pc = "off"
  BY <1>5, OpsAssumption DEF SurgeryInv, TypeInv, ShapeInv
<1>10. /\ ipc' \in {"unset", "on", "off"} /\ mm' \in Seq(Uuids)
       /\ turn' \in {"idle", "running", "snapshot", "forking"} /\ forked' \in BOOLEAN
       /\ background' \in {"none", "running", "merging", "told"} /\ applied' \in SUBSET Ops
  BY <1>1 DEF TypeInv, LiveTypes
<1>11. TypeInv'
  <2>1. \A p \in Ops : ops'[p].pc = "rereading" => ops'[p].kind = "snapshot"
    BY DEF SurgeryInv, TypeInv, ShapeInv
  <2> QED
    BY <1>1, <1>7, <1>8, <1>9, <1>10, <2>1, TypesKept
<1> QED
  BY <1>6, <1>11 DEF SurgeryInv

\* An answer arrives and the operation is done.
LEMMA Ends ==
  ASSUME SurgeryInv, answers # <<>>, pending # <<>>, NEW o \in Ops, o = Head(pending),
         NEW r \in {"ok", "unchanged"}, r = "ok" <=> Edited(o),
         Finish(o, r), pending' = Tail(pending), answers' = Tail(answers), stale' \in SUBSET Ops,
         UNCHANGED <<wire, ipc, mm, made, turn, forked, background, applied>>
  PROVE  SurgeryInv'
<1>1. /\ pending \in Seq(Ops) /\ answers \in Seq(AnswerTypes) /\ wire \in Seq(Commands)
      /\ IsInjective(pending) /\ Range(pending) = UnderWay /\ ops \in [Ops -> OpStates]
      /\ TypeInv /\ QueueInv /\ AppliedInv
  BY DEF SurgeryInv, TypeInv, LiveTypes, QueueInv
<1>2. /\ ops' \in [Ops -> OpStates] /\ \A p \in Ops \ {o} : ops'[p] = ops[p]
      /\ ops'[o].pc = "done" /\ ops'[o].result = r /\ ops'[o].kind = "get_context"
  <2>1. ops' = [ops EXCEPT ![o] = [Off EXCEPT !.pc = "done", !.result = r]]
    BY DEF Finish
  <2>2. [Off EXCEPT !.pc = "done", !.result = r] \in OpStates
    BY DoneTyped
  <2> QED
    BY <1>1, <2>1, <2>2 DEF Off
<1>3. QueueInv' /\ AppliedInv'
  <2>1. /\ ops'[o].result = "ok" => Edited(o)
        /\ ops'[o].result = "unchanged" => ~Edited(o)
    BY <1>2
  <2> QED
    BY <1>1, <1>2, <2>1, CallAnswered
<1>4. o \in UnderWay
  BY <1>1, QueueTail
<1>5. background' \in {"none", "running"} => ops'[Merge].pc = "off"
  BY <1>2, <1>4, OpsAssumption DEF SurgeryInv, TypeInv, ShapeInv, UnderWay
<1>6. \A p \in Ops : \/ ops'[p].kind = ops[p].kind /\ ops'[p].uuid = ops[p].uuid
                     \/ ops'[p].kind \notin {"remove", "rewind"}
  BY <1>2
<1>7. pending' \in Seq(Ops) /\ wire' \in Seq(Commands) /\ answers' \in Seq(AnswerTypes)
  BY <1>1, HeadTailProperties
<1>8. /\ ipc' \in {"unset", "on", "off"} /\ mm' \in Seq(Uuids) /\ made' \in Nat
      /\ turn' \in {"idle", "running", "snapshot", "forking"} /\ forked' \in BOOLEAN
      /\ background' \in {"none", "running", "merging", "told"} /\ applied' \in SUBSET Ops
  BY <1>1 DEF TypeInv, LiveTypes
<1>9. TypeInv'
  <2>1. \A p \in Ops : ops'[p].pc = "rereading" => ops'[p].kind = "snapshot"
    BY <1>2 DEF SurgeryInv, TypeInv, ShapeInv
  <2> QED
    BY <1>1, <1>2, <1>5, <1>6, <1>7, <1>8, <2>1, TypesKept
<1> QED
  BY <1>3, <1>9 DEF SurgeryInv

\* A line arrives on the socket.
LEMMA OnDataStep ==
  ASSUME SurgeryInv, OnData
  PROVE  SurgeryInv'
<1> DEFINE seen == Head(answers).messages
           waiting == Tail(pending)
<1>1. /\ answers # <<>> /\ pending # <<>> /\ answers' = Tail(answers)
      /\ UNCHANGED <<ipc, mm, file, turn, forked, background, applied>>
  BY DEF OnData
<1>2. /\ pending \in Seq(Ops) /\ answers \in Seq(AnswerTypes) /\ IsInjective(pending)
      /\ Range(pending) = UnderWay /\ ops \in [Ops -> OpStates] /\ made \in Nat
      /\ TypeInv /\ LiveTypes
  BY DEF SurgeryInv, TypeInv, LiveTypes, QueueInv
<1>3. seen \in Seq(Uuids)
  <2>1. Head(answers) \in AnswerTypes
    BY <1>1, <1>2, RangeTail
  <2> QED
    BY <2>1 DEF AnswerTypes
<1>4. PICK o \in Ops : o = Head(pending)
  BY <1>1, <1>2, QueueTail
<1>5. ops[o] \in OpStates
  BY <1>2
<1>6. stale' \in SUBSET Ops
  BY <1>2 DEF OnData, LiveTypes
<1> HIDE DEF seen
\* The operation makes its next call, and reads on.
<1>7. ASSUME NEW pc \in {"rereading", "editing"}, NEW cmd \in {"get_length", "get_roles"},
             ops' = [ops EXCEPT ![o].pc = pc], Send(waiting, Read(o, cmd)), made' = made,
             ops[o].kind \in Reads, pc = "rereading" => ops[o].kind = "snapshot"
      PROVE  SurgeryInv'
  <2>1. Read(o, cmd) \in Commands /\ Read(o, cmd).op = o /\ Read(o, cmd).cmd \notin {"splice", "push"}
    BY ReadTyped
  <2>2. /\ ops' \in [Ops -> OpStates] /\ \A p \in Ops \ {o} : ops'[p] = ops[p]
        /\ ops'[o].kind = ops[o].kind /\ ops'[o].uuid = ops[o].uuid /\ ops'[o].pc = pc
    BY <1>2, <1>5, <1>7 DEF OpStates
  <2>3. ~Edited(o) /\ ~Edited(o)'
    BY <1>7, <2>2 DEF Edited, Edits, Reads
  <2> DEFINE c == Read(o, cmd)
  <2>4. /\ c.cmd \in {"splice", "push"} <=> Edited(o)'
        /\ Send(Tail(pending), c) /\ c \in Commands /\ c.op = o
    BY <1>7, <2>1, <2>3
  <2>5. made' \in Nat /\ (ops'[o].pc = "rereading" => ops[o].kind = "snapshot")
    BY <1>2, <1>7, <2>2
  <2> HIDE DEF c
  <2> QED
    BY <1>1, <1>4, <1>6, <2>2, <2>3, <2>4, <2>5, GoesOn
\* The operation is done.
<1>8. ASSUME NEW r \in {"ok", "unchanged"}, r = "ok" <=> Edited(o), Finish(o, r),
             pending' = waiting, UNCHANGED <<wire, made>>
      PROVE  SurgeryInv'
  BY <1>1, <1>4, <1>6, <1>8, Ends
<1>9. CASE ops[o].pc = "reading" /\ ReadAnswered(o, seen, waiting)
  <2>1. ~Edited(o)
    BY <1>9 DEF Edited
  <2>2. CASE ops[o].kind = "get_context"
    <3>1. Finish(o, "unchanged") /\ pending' = waiting /\ UNCHANGED <<wire, made>>
      BY <1>9, <2>2 DEF ReadAnswered
    <3> QED
      BY <1>8, <2>1, <3>1
  <2>3. CASE ops[o].kind = "get_stats"
    <3>1. ops' = [ops EXCEPT ![o].pc = "editing"] /\ Send(waiting, Read(o, "get_roles")) /\ made' = made
      BY <1>9, <2>3 DEF ReadAnswered, Edits
    <3> QED
      BY <1>7, <2>3, <3>1 DEF Reads
  <2>4. CASE ops[o].kind = "snapshot"
    <3>1. ops' = [ops EXCEPT ![o].pc = "rereading"] /\ Send(waiting, Read(o, "get_length")) /\ made' = made
      BY <1>9, <2>4 DEF ReadAnswered, Edits
    <3> QED
      BY <1>7, <2>4, <3>1 DEF Reads
  <2>5. CASE ops[o].kind \in Edits /\ (NotThere(o, seen) \/ NothingToDo(o, seen))
    <3>1. Finish(o, "unchanged") /\ pending' = waiting /\ UNCHANGED <<wire, made>>
      BY <1>9, <2>5 DEF ReadAnswered, Edits
    <3> QED
      BY <1>8, <2>1, <3>1
  <2>6. CASE ops[o].kind \in Edits /\ ~NotThere(o, seen) /\ ~NothingToDo(o, seen)
    <3> DEFINE makes == ops[o].kind \in {"inject", "merge"}
               c == Edit(o, seen)
               new == IF makes THEN Fresh ELSE Root
    <3>1. /\ makes => CanMake
          /\ made' = IF makes THEN Fresh ELSE made
          /\ ops' = [ops EXCEPT ![o].pc = "editing", ![o].seen = seen, ![o].new = new]
          /\ Send(waiting, c)
      BY <1>9, <2>6 DEF ReadAnswered, Edits
    <3>2. c \in Commands /\ c.op = o /\ c.cmd \in {"splice", "push"}
      BY <1>2, <1>3, <2>6, <3>1, EditTyped
    <3>3. new \in Uuids \cup {Root} /\ made' \in Nat
      BY <1>2, <3>1, FreshTyped
    <3> HIDE DEF c, new
    <3>4. /\ ops' \in [Ops -> OpStates] /\ \A p \in Ops \ {o} : ops'[p] = ops[p]
          /\ ops'[o].kind = ops[o].kind /\ ops'[o].uuid = ops[o].uuid /\ ops'[o].pc = "editing"
      <4>1. [ops[o] EXCEPT !.pc = "editing", !.seen = seen, !.new = new] \in OpStates
        BY <1>3, <1>5, <3>3 DEF OpStates
      <4>2. ops' = [ops EXCEPT ![o] = [ops[o] EXCEPT !.pc = "editing", !.seen = seen, !.new = new]]
        BY <1>2, <3>1
      <4> QED
        BY <1>2, <1>5, <4>1, <4>2 DEF OpStates
    <3>5. c.cmd \in {"splice", "push"} <=> Edited(o)'
      BY <2>6, <3>2, <3>4 DEF Edited
    <3>6. Send(Tail(pending), c)
      BY <3>1
    <3> QED
      BY <1>1, <1>4, <1>6, <2>1, <3>2, <3>3, <3>4, <3>5, <3>6, GoesOn
  <2> QED
    BY <1>5, <2>2, <2>3, <2>4, <2>5, <2>6 DEF OpStates, Reads
<1>10. CASE /\ ops[o].pc = "rereading" /\ ops' = [ops EXCEPT ![o].pc = "editing"]
            /\ Send(waiting, Read(o, "get_roles")) /\ UNCHANGED made
  <2>1. ops[o].kind = "snapshot"
    BY <1>2, <1>10 DEF TypeInv, ShapeInv
  <2> QED
    BY <1>7, <1>10, <2>1 DEF Reads
<1>11. CASE /\ ops[o].pc = "editing"
            /\ Finish(o, IF ops[o].kind \in Reads THEN "unchanged" ELSE "ok")
            /\ pending' = waiting /\ UNCHANGED <<wire, made>>
  <2>1. Edited(o) <=> ops[o].kind \notin Reads
    BY <1>5, <1>11 DEF Edited, OpStates, Reads, Edits
  <2> QED
    BY <1>8, <1>11, <2>1
<1> QED
  BY <1>4, <1>9, <1>10, <1>11 DEF OnData, seen

LEMMA SurgeryStep == SurgeryInv /\ [Next]_vars => SurgeryInv'
<1> SUFFICES ASSUME SurgeryInv, [Next]_vars PROVE SurgeryInv'
  OBVIOUS
<1>1. CASE \/ ConnectIpc \/ TurnBegins \/ TurnSpeaks \/ TurnCompacts \/ TurnEnds \/ SnapshotDone
           \/ ForkBegins \/ ForkFails \/ BackgroundTold
  BY <1>1, QuietSteps
<1>2. CASE OnData
  BY <1>2, OnDataStep
<1>3. CASE RunCmd
  BY <1>3, RunCmdStep
<1>4. ASSUME NEW o \in Ops, HandleContext(o) \/ SendAnswer(o) \/ Snapshot(o)
      PROVE  SurgeryInv'
  BY <1>4, HandleContextStep, SendAnswerStep, SnapshotStep
<1>5. CASE IpcBreaks
  <2>1. /\ Reject /\ Rejected /\ mm' = <<>> /\ UNCHANGED <<made, turn, forked, background, applied>>
    BY <1>5 DEF IpcBreaks
  <2>2. turn' \in {"idle", "running", "snapshot", "forking"} /\ forked' \in BOOLEAN
    BY <2>1 DEF SurgeryInv, TypeInv, LiveTypes
  <2> QED
    BY <2>1, <2>2, RejectStep
<1>6. CASE ForkSucceeds
  <2>1. /\ Reject /\ Rejected /\ mm' = <<>> /\ UNCHANGED <<made, background, applied>>
        /\ turn' = "running" /\ forked' = TRUE
    BY <1>6 DEF ForkSucceeds
  <2> QED
    BY <2>1, RejectStep
<1>7. CASE BackgroundEnds
  BY <1>7, BackgroundEndsStep
<1>8. CASE UNCHANGED vars
  <2>1. /\ UNCHANGED <<pending, wire, answers, ops, applied>>
        /\ UNCHANGED <<ipc, mm, made, turn, forked, background, stale>>
    BY <1>8 DEF vars, ipcVars, surgeryVars
  <2>2. LiveTypes
    BY DEF SurgeryInv, TypeInv
  <2> QED
    BY <2>1, <2>2, QuietStep DEF LiveTypes
<1> QED
  BY <1>1, <1>2, <1>3, <1>4, <1>5, <1>6, <1>7, <1>8 DEF Next

LEMMA SurgeryInvariant == Spec => []SurgeryInv
BY SurgeryInit, SurgeryStep, PTL DEF Spec

(***************************************************************************)
(* An answer carries no id, and yet it always goes to the call it answers: *)
(* the calls wait in the order in which the CLI runs and answers them,     *)
(* whatever edits, snapshots, breaks and forks come in between.            *)
(***************************************************************************)
THEOREM AnswersGoToTheirCalls == Spec => []AnswersMatch
<1>1. SurgeryInv => AnswersMatch
  BY DEF SurgeryInv, QueueInv
<1> QED
  BY <1>1, SurgeryInvariant, PTL

(***************************************************************************)
(* An operation under way has exactly one call in the queue of the socket, *)
(* which is answered or rejected with it, and no other operation has one:  *)
(* none waits for a socket that is gone.                                   *)
(***************************************************************************)
THEOREM WaitingIsAlwaysPending == Spec => []WaitingIsPending
<1>1. SurgeryInv => WaitingIsPending
  <2> SUFFICES ASSUME SurgeryInv, NEW o \in Ops
               PROVE  Cardinality({i \in DOMAIN pending : pending[i] = o}) =
                        IF o \in UnderWay THEN 1 ELSE 0
    BY DEF WaitingIsPending
  <2>1. IsInjective(pending) /\ Range(pending) = UnderWay
    BY DEF SurgeryInv, QueueInv
  <2>2. CASE o \in UnderWay
    <3>1. PICK i \in DOMAIN pending : pending[i] = o
      BY <2>1, <2>2 DEF Range
    <3>2. {j \in DOMAIN pending : pending[j] = o} = {i}
      BY <2>1, <3>1 DEF IsInjective
    <3> QED
      BY <2>2, <3>2, FS_Singleton
  <2>3. CASE o \notin UnderWay
    <3>1. {j \in DOMAIN pending : pending[j] = o} = {}
      BY <2>1, <2>3 DEF Range
    <3> QED
      BY <2>3, <3>1, FS_EmptySet
  <2> QED
    BY <2>2, <2>3
<1> QED
  BY <1>1, SurgeryInvariant, PTL

(***************************************************************************)
(* The answer to a change tells whether the messages were changed: "ok"    *)
(* only when they were, and a refusal only when they were not.  After a    *)
(* lost connection the answer is neither.                                  *)
(***************************************************************************)
THEOREM AnswersTellTheTruth == Spec => []AnsweredTruthfully
<1>1. SurgeryInv => AnsweredTruthfully
  BY DEF SurgeryInv, AppliedInv
<1> QED
  BY <1>1, SurgeryInvariant, PTL

(***************************************************************************)
(* What the runner and the CLI hold has its type: the indices of a splice  *)
(* are indices, and a message that is made has a uuid.                     *)
(***************************************************************************)
LEMMA LiveTypesAlways == Spec => []LiveTypes
<1>1. SurgeryInv => LiveTypes
  BY DEF SurgeryInv, TypeInv
<1> QED
  BY <1>1, SurgeryInvariant, PTL
-----------------------------------------------------------------------------
(***************************************************************************)
(* What the edits make of the messages in memory.  An operation edits by   *)
(* the positions it has read; unless these have shifted since, they are    *)
(* still those of the messages it means.                                   *)
(***************************************************************************)
\* messages are the first of now.
Begins(messages, now) ==
  Len(messages) <= Len(now) /\ \A i \in 1 .. Len(messages) : now[i] = messages[i]

Makes(o) == Edited(o) /\ ops[o].kind \in {"inject", "merge"}

\* Only on a connected socket is anything under way.
OffInv == ipc # "on" => UnderWay = {}

\* Every message in memory has been made, and is there once.
DistinctInv == IsInjective(mm) /\ \A i \in DOMAIN mm : mm[i] <= made

\* A message that is to be added is nowhere yet, and no other operation adds it.
NewInv ==
  \A o \in Ops : Makes(o) =>
    /\ ops[o].new \in Uuids /\ ops[o].new <= made
    /\ o \notin applied => ops[o].new \notin Range(mm)
    /\ \A p \in Ops : Makes(p) /\ ops[p].new = ops[o].new => p = o

\* The command the operation has sent, or would send now.
EditOf(o) ==
  LET seen == ops[o].seen
      idx == FindIndex(seen, ops[o].uuid)
      new == <<ops[o].new>>
  IN  CASE ops[o].kind = "remove" -> Splice(o, idx, 1, <<>>)
        [] ops[o].kind = "rewind" -> Splice(o, idx + 1, Len(seen) - (idx + 1), <<>>)
        [] ops[o].kind = "truncate" -> Splice(o, 0, Len(seen) - Keep, <<>>)
        [] ops[o].kind = "inject" /\ ops[o].uuid = Start -> Splice(o, 0, 0, new)
        [] ops[o].kind = "inject" /\ Names(o) -> Splice(o, idx + 1, 0, new)
        [] OTHER -> Push(o, new)

SentInv == \A c \in Range(wire) : Edited(c.op) => c = EditOf(c.op)

\* It names a message it has read, and leaves some when it truncates.
SeenInv ==
  \A o \in Ops : Edited(o) =>
    /\ Names(o) => ops[o].uuid \in Range(ops[o].seen)
    /\ ops[o].kind = "truncate" => Len(ops[o].seen) > Keep

\* What an operation has read is still the beginning of the messages, unless a
\* compaction or a splice, its own in the end, has come in between.
FreshInv ==
  /\ \A o \in Ops \ (stale \cup applied) : Edited(o) => Begins(ops[o].seen, mm)
  /\ \A x \in Range(answers) :
       x.op \notin stale /\ ops[x.op].pc = "reading" => Begins(x.messages, mm)

\* Who does nothing holds nothing.
RestInv == \A o \in Ops : ops[o].pc = "off" => ops[o] = Off

EditInv == OffInv /\ RestInv /\ DistinctInv /\ NewInv /\ SentInv /\ SeenInv /\ FreshInv

(***************************************************************************)
(* Sequences with something taken out or put in.                           *)
(***************************************************************************)
LEMMA Joined ==
  ASSUME NEW a \in Seq(Uuids), NEW b \in Seq(Uuids), NEW m \in Nat, m = Len(a), NEW n \in Nat, n = Len(b)
  PROVE  /\ a \o b \in Seq(Uuids) /\ Len(a \o b) = m + n
         /\ \A i \in 1 .. m : (a \o b)[i] = a[i]
         /\ \A i \in 1 .. n : (a \o b)[m + i] = b[i]
<1> DEFINE r == a \o b
<1>1. /\ r \in Seq(Uuids) /\ Len(r) = m + n
      /\ \A i \in 1 .. m + n : r[i] = IF i <= m THEN a[i] ELSE b[i - m]
  BY ConcatProperties
<1> HIDE DEF r
<1>2. \A i \in 1 .. m : i \in 1 .. m + n /\ i <= m
  OBVIOUS
<1>3. \A i \in 1 .. n : m + i \in 1 .. m + n /\ ~(m + i <= m) /\ (m + i) - m = i
  OBVIOUS
<1>4. \A i \in 1 .. m : r[i] = a[i]
  BY <1>1, <1>2
<1>5. \A i \in 1 .. n : r[m + i] = b[i]
  BY ZenonT(30), <1>1, <1>3
<1> QED
  BY <1>1, <1>4, <1>5 DEF r

LEMMA FrontPart ==
  ASSUME NEW s \in Seq(Uuids), NEW n \in Nat, n = Len(s), NEW f \in Nat, f <= n
  PROVE  /\ SubSeq(s, 1, f) \in Seq(Uuids) /\ Len(SubSeq(s, 1, f)) = f
         /\ \A i \in 1 .. f : SubSeq(s, 1, f)[i] = s[i]
<1> DEFINE a == SubSeq(s, 1, f)
<1>1. \A i \in 1 .. f : s[i] \in Uuids
  BY ElementOfSeq
<1>2. /\ a \in Seq(Uuids) /\ Len(a) = (IF 1 <= f THEN f - 1 + 1 ELSE 0)
      /\ \A i \in 1 .. f - 1 + 1 : a[i] = s[1 + i - 1]
  BY <1>1, SubSeqProperties
<1> HIDE DEF a
<1>3. f - 1 + 1 = f /\ \A i \in 1 .. f : 1 + i - 1 = i
  OBVIOUS
<1>4. Len(a) = f
  BY <1>2, <1>3
<1> QED
  BY <1>2, <1>3, <1>4 DEF a

LEMMA BackPart ==
  ASSUME NEW s \in Seq(Uuids), NEW n \in Nat, n = Len(s), NEW t \in Nat, t <= n
  PROVE  /\ SubSeq(s, t + 1, n) \in Seq(Uuids) /\ Len(SubSeq(s, t + 1, n)) = n - t
         /\ \A i \in 1 .. n - t : SubSeq(s, t + 1, n)[i] = s[t + i]
<1> DEFINE a == SubSeq(s, t + 1, n)
<1>1. \A i \in (t + 1) .. n : s[i] \in Uuids
  BY ElementOfSeq
<1>2. /\ a \in Seq(Uuids) /\ Len(a) = (IF t + 1 <= n THEN n - (t + 1) + 1 ELSE 0)
      /\ \A i \in 1 .. n - (t + 1) + 1 : a[i] = s[(t + 1) + i - 1]
  BY <1>1, SubSeqProperties
<1> HIDE DEF a
<1>3. n - (t + 1) + 1 = n - t /\ \A i \in 1 .. n - t : (t + 1) + i - 1 = t + i
  OBVIOUS
<1>4. Len(a) = n - t
  BY <1>2
<1>5. \A i \in 1 .. n - t : a[i] = s[t + i]
  BY <1>2, <1>3
<1> QED
  BY <1>2, <1>4, <1>5 DEF a

\* What a splice takes out is gone, and the rest is there in its order.
LEMMA TakenOut ==
  ASSUME NEW s \in Seq(Uuids), IsInjective(s), NEW n \in Nat, n = Len(s),
         NEW t \in Nat, t <= n, NEW f \in Nat, f <= t
  PROVE  Without(SubSeq(s, 1, f) \o SubSeq(s, t + 1, n), s, {s[i] : i \in (f + 1) .. t})
<1> DEFINE r == SubSeq(s, 1, f) \o SubSeq(s, t + 1, n)
           gone == {s[i] : i \in (f + 1) .. t}
           m == f + (n - t)
           at(i) == IF i <= f THEN i ELSE t + (i - f)
<1>1. /\ r \in Seq(Uuids) /\ Len(r) = m
      /\ \A i \in 1 .. f : r[i] = s[i]
      /\ \A i \in 1 .. n - t : r[f + i] = s[t + i]
  <2> DEFINE a == SubSeq(s, 1, f)
             b == SubSeq(s, t + 1, n)
  <2>1. f <= n /\ n - t \in Nat
    OBVIOUS
  <2>2. a \in Seq(Uuids) /\ Len(a) = f /\ \A i \in 1 .. f : a[i] = s[i]
    BY <2>1, FrontPart
  <2>3. b \in Seq(Uuids) /\ Len(b) = n - t /\ \A i \in 1 .. n - t : b[i] = s[t + i]
    BY BackPart
  <2> HIDE DEF a, b
  <2>4. /\ a \o b \in Seq(Uuids) /\ Len(a \o b) = f + (n - t)
        /\ \A i \in 1 .. f : (a \o b)[i] = a[i]
        /\ \A i \in 1 .. n - t : (a \o b)[f + i] = b[i]
    <3>1. PICK d \in Nat : d = n - t
      BY <2>1
    <3>2. a \in Seq(Uuids) /\ b \in Seq(Uuids) /\ f = Len(a) /\ d = Len(b)
      BY <2>2, <2>3, <3>1
    <3>3. /\ a \o b \in Seq(Uuids) /\ Len(a \o b) = f + d
          /\ \A i \in 1 .. f : (a \o b)[i] = a[i]
          /\ \A i \in 1 .. d : (a \o b)[f + i] = b[i]
      BY <3>2, Joined
    <3> QED
      BY <3>1, <3>3
  <2> QED
    BY <2>2, <2>3, <2>4 DEF a, b
<1> HIDE DEF r
<1>2. m \in Nat /\ DOMAIN s = 1 .. n /\ DOMAIN r = 1 .. m
  BY <1>1
<1>3. ASSUME NEW i \in 1 .. m
      PROVE  /\ at(i) \in 1 .. n /\ r[i] = s[at(i)] /\ at(i) \notin (f + 1) .. t
  <2>1. CASE i <= f
    <3>1. i \in 1 .. f /\ at(i) = i
      BY <2>1
    <3> QED
      BY <1>1, <2>1, <3>1
  <2>2. CASE ~(i <= f)
    <3>1. i - f \in 1 .. n - t /\ f + (i - f) = i /\ at(i) = t + (i - f)
      BY <2>2
    <3>2. r[f + (i - f)] = s[t + (i - f)]
      BY <1>1, <3>1
    <3>3. at(i) \in 1 .. n /\ at(i) \notin (f + 1) .. t
      BY <2>2, <3>1
    <3> QED
      BY <3>1, <3>2, <3>3
  <2> QED
    BY <2>1, <2>2
<1>4. \A i, j \in 1 .. m : i < j => at(i) < at(j)
  OBVIOUS
<1>5. ASSUME NEW k \in 1 .. n, k \notin (f + 1) .. t
      PROVE  \E i \in 1 .. m : at(i) = k
  <2>1. CASE k <= f
    <3>1. k \in 1 .. m /\ at(k) = k
      BY <2>1
    <3> QED
      BY <3>1
  <2>2. CASE ~(k <= f)
    <3>1. k > t
      BY <1>5, <2>2
    <3>2. f + (k - t) \in 1 .. m /\ at(f + (k - t)) = k
      BY <3>1
    <3> QED
      BY <3>2
  <2> QED
    BY <2>1, <2>2
<1>6. \A i \in 1 .. m : at(i) \in Int
  BY <1>3
<1> HIDE DEF at, m
<1>7. IsInjective(r)
  <2> SUFFICES ASSUME NEW i \in 1 .. m, NEW j \in 1 .. m, r[i] = r[j] PROVE i = j
    BY <1>2 DEF IsInjective
  <2>1. at(i) = at(j)
    BY <1>2, <1>3 DEF IsInjective
  <2>2. ~(i < j) /\ ~(j < i)
    BY <1>2, <1>4, <1>6, <2>1
  <2> QED
    BY <1>2, <2>2
<1>8. Range(r) = Range(s) \ gone
  <2>1. ASSUME NEW i \in 1 .. m
        PROVE  r[i] \in Range(s) /\ r[i] \notin gone
    <3>1. /\ at(i) \in 1 .. n /\ r[i] = s[at(i)] /\ at(i) \notin (f + 1) .. t
      BY <1>3
    <3>2. \A k \in (f + 1) .. t : k \in 1 .. n /\ k # at(i)
      BY <3>1
    <3>3. \A k \in (f + 1) .. t : s[k] # s[at(i)]
      BY <1>2, <3>1, <3>2 DEF IsInjective
    <3> QED
      BY <1>2, <3>1, <3>3 DEF Range
  <2>2. ASSUME NEW k \in 1 .. n, s[k] \notin gone
        PROVE  s[k] \in Range(r)
    <3>1. k \notin (f + 1) .. t
      BY <2>2
    <3>2. PICK i \in 1 .. m : at(i) = k
      BY <1>5, <3>1
    <3> QED
      BY <1>2, <1>3, <3>2 DEF Range
  <2> HIDE DEF gone
  <2>3. Range(r) \subseteq Range(s) \ gone
    BY <1>2, <2>1 DEF Range
  <2>4. Range(s) \ gone \subseteq Range(r)
    BY <1>2, <2>2 DEF Range
  <2> QED
    BY <2>3, <2>4
<1>9. ASSUME NEW i \in DOMAIN r, NEW j \in DOMAIN r, i < j
      PROVE  \E k, l \in DOMAIN s : k < l /\ s[k] = r[i] /\ s[l] = r[j]
  <2>1. at(i) \in DOMAIN s /\ at(j) \in DOMAIN s /\ at(i) < at(j) /\ s[at(i)] = r[i] /\ s[at(j)] = r[j]
    BY <1>2, <1>3, <1>4, <1>9
  <2> QED
    BY <2>1
<1> QED
  BY <1>7, <1>8, <1>9 DEF Without, r

\* Where things are when one is put in.
PutAfter(s, f, n, e) == SubSeq(s, 1, f) \o <<e>> \o SubSeq(s, f + 1, n)

IsPutAfter(r, s, f, n, e) ==
  /\ r \in Seq(Uuids) /\ Len(r) = n + 1
  /\ \A i \in 1 .. f : r[i] = s[i]
  /\ r[f + 1] = e
  /\ \A i \in 1 .. n - f : r[(f + 1) + i] = s[f + i]

LEMMA PutInAt ==
  ASSUME NEW s \in Seq(Uuids), NEW n \in Nat, n = Len(s), NEW f \in Nat, f <= n, NEW e \in Uuids
  PROVE  IsPutAfter(PutAfter(s, f, n, e), s, f, n, e)
<1> DEFINE a == SubSeq(s, 1, f)
           b == SubSeq(s, f + 1, n)
           c == a \o <<e>>
           r == c \o b
<1>1. a \in Seq(Uuids) /\ Len(a) = f /\ \A i \in 1 .. f : a[i] = s[i]
  BY FrontPart
<1>2. b \in Seq(Uuids) /\ Len(b) = n - f /\ \A i \in 1 .. n - f : b[i] = s[f + i]
  BY BackPart
<1> HIDE DEF a, b
<1>3. <<e>> \in Seq(Uuids) /\ Len(<<e>>) = 1 /\ <<e>>[1] = e
  OBVIOUS
<1>4. c \in Seq(Uuids) /\ Len(c) = f + 1 /\ (\A i \in 1 .. f : c[i] = s[i]) /\ c[f + 1] = e
  <2>1. /\ c \in Seq(Uuids) /\ Len(c) = f + 1
        /\ \A i \in 1 .. f : c[i] = a[i]
        /\ \A i \in 1 .. 1 : c[f + i] = <<e>>[i]
    BY <1>1, <1>3, Joined
  <2> HIDE DEF c
  <2>2. 1 \in 1 .. 1
    OBVIOUS
  <2> QED
    BY <1>1, <1>3, <2>1, <2>2
<1> HIDE DEF c
<1>5. /\ r \in Seq(Uuids) /\ Len(r) = n + 1
      /\ \A i \in 1 .. f : r[i] = s[i]
      /\ r[f + 1] = e
      /\ \A i \in 1 .. n - f : r[(f + 1) + i] = s[f + i]
  <2>1. f + 1 \in Nat /\ n - f \in Nat /\ (f + 1) + (n - f) = n + 1
    OBVIOUS
  <2>2. /\ r \in Seq(Uuids) /\ Len(r) = (f + 1) + (n - f)
        /\ \A i \in 1 .. f + 1 : r[i] = c[i]
        /\ \A i \in 1 .. n - f : r[(f + 1) + i] = b[i]
    <3>1. PICK d \in Nat : d = n - f
      BY <2>1
    <3>2. PICK g \in Nat : g = f + 1
      BY <2>1
    <3>3. c \in Seq(Uuids) /\ b \in Seq(Uuids) /\ g = Len(c) /\ d = Len(b)
      BY <1>2, <1>4, <3>1, <3>2
    <3>4. /\ r \in Seq(Uuids) /\ Len(r) = g + d
          /\ \A i \in 1 .. g : r[i] = c[i]
          /\ \A i \in 1 .. d : r[g + i] = b[i]
      BY <3>3, Joined
    <3> HIDE DEF r
    <3> QED
      BY <3>1, <3>2, <3>4
  <2> HIDE DEF r
  <2>3. \A i \in 1 .. f : i \in 1 .. f + 1
    OBVIOUS
  <2>4. f + 1 \in 1 .. f + 1
    OBVIOUS
  <2> QED
    BY <1>2, <1>4, <2>1, <2>2, <2>3, <2>4
<1>6. PutAfter(s, f, n, e) = r
  BY DEF PutAfter, r, c, a, b
<1>7. IsPutAfter(r, s, f, n, e)
  <2> HIDE DEF r
  <2> QED
    BY <1>5 DEF IsPutAfter
<1> QED
  BY <1>6, <1>7

\* What is put in is there as well, once.
LEMMA PutIn ==
  ASSUME NEW s \in Seq(Uuids), IsInjective(s), NEW n \in Nat, n = Len(s), NEW f \in Nat, f <= n,
         NEW e \in Uuids, e \notin Range(s)
  PROVE  LET r == SubSeq(s, 1, f) \o <<e>> \o SubSeq(s, f + 1, n)
         IN  IsInjective(r) /\ Range(r) = Range(s) \cup {e}
<1> DEFINE r == PutAfter(s, f, n, e)
<1>1. /\ r \in Seq(Uuids) /\ Len(r) = n + 1
      /\ \A i \in 1 .. f : r[i] = s[i]
      /\ r[f + 1] = e
      /\ \A i \in 1 .. n - f : r[(f + 1) + i] = s[f + i]
  <2>1. IsPutAfter(r, s, f, n, e)
    BY PutInAt
  <2> HIDE DEF r
  <2> QED
    BY <2>1 DEF IsPutAfter
<1> HIDE DEF r
<1>2. DOMAIN s = 1 .. n /\ DOMAIN r = 1 .. n + 1
  BY <1>1
<1>3. \A k \in 1 .. n : s[k] # e
  BY <1>2 DEF Range
<1> DEFINE at(i) == IF i <= f THEN i ELSE i - 1
<1>4. ASSUME NEW i \in 1 .. n + 1, i # f + 1
      PROVE  at(i) \in 1 .. n /\ r[i] = s[at(i)]
  <2>1. CASE i <= f
    <3>1. i \in 1 .. f /\ i \in 1 .. n
      BY <2>1
    <3> QED
      BY <1>1, <2>1, <3>1
  <2>2. CASE ~(i <= f)
    <3>1. /\ i - (f + 1) \in 1 .. n - f /\ (f + 1) + (i - (f + 1)) = i /\ f + (i - (f + 1)) = i - 1
          /\ i - 1 \in 1 .. n
      BY <1>4, <2>2
    <3>2. r[(f + 1) + (i - (f + 1))] = s[f + (i - (f + 1))]
      BY <1>1, <3>1
    <3>3. r[i] = s[i - 1]
      BY <3>1, <3>2
    <3> QED
      BY <2>2, <3>1, <3>3
  <2> QED
    BY <2>1, <2>2
<1>5. \A i, j \in (1 .. n + 1) \ {f + 1} : at(i) = at(j) => i = j
  OBVIOUS
<1>6. ASSUME NEW k \in 1 .. n
       PROVE  \E i \in (1 .. n + 1) \ {f + 1} : at(i) = k
  <2>1. CASE k <= f
    <3>1. k \in (1 .. n + 1) \ {f + 1} /\ at(k) = k
      BY <2>1
    <3> QED
      BY <3>1
  <2>2. CASE ~(k <= f)
    <3>1. k + 1 \in (1 .. n + 1) \ {f + 1} /\ at(k + 1) = k
      BY <2>2
    <3> QED
      BY <3>1
  <2> QED
    BY <2>1, <2>2
<1> HIDE DEF at
<1>7. IsInjective(r)
  <2> SUFFICES ASSUME NEW i \in 1 .. n + 1, NEW j \in 1 .. n + 1, r[i] = r[j] PROVE i = j
    BY <1>2 DEF IsInjective
  <2>1. CASE i = f + 1 \/ j = f + 1
    BY <1>1, <1>3, <1>4, <2>1
  <2>2. CASE i # f + 1 /\ j # f + 1
    <3>1. at(i) \in 1 .. n /\ at(j) \in 1 .. n /\ s[at(i)] = s[at(j)]
      BY <1>4, <2>2
    <3>2. at(i) = at(j)
      BY <1>2, <3>1 DEF IsInjective
    <3> QED
      BY <1>5, <2>2, <3>2
  <2> QED
    BY <2>1, <2>2
<1>8. f + 1 \in 1 .. n + 1
  OBVIOUS
<1>9. ASSUME NEW i \in 1 .. n + 1
       PROVE  r[i] \in Range(s) \cup {e}
  <2>1. i = f + 1 \/ (at(i) \in 1 .. n /\ r[i] = s[at(i)])
    BY <1>4
  <2> QED
    BY <1>1, <1>2, <2>1 DEF Range
<1>10. ASSUME NEW k \in 1 .. n
       PROVE  s[k] \in Range(r)
  <2>1. PICK i \in (1 .. n + 1) \ {f + 1} : at(i) = k
    BY <1>6
  <2> QED
    BY <1>2, <1>4, <2>1 DEF Range
<1>11. e \in Range(r)
  BY <1>1, <1>2, <1>8 DEF Range
<1>12. Range(r) = Range(s) \cup {e}
  <2>1. Range(r) \subseteq Range(s) \cup {e}
    BY <1>2, <1>9 DEF Range
  <2>2. Range(s) \subseteq Range(r)
    BY <1>2, <1>10 DEF Range
  <2> QED
    BY <1>11, <2>1, <2>2
<1> QED
  BY <1>7, <1>12 DEF r, PutAfter

LEMMA FindsIt ==
  ASSUME NEW s \in Seq(Uuids), IsInjective(s), NEW i \in 1 .. Len(s)
  PROVE  FindIndex(s, s[i]) = i - 1
<1>1. DOMAIN s = 1 .. Len(s) /\ i \in DOMAIN s
  OBVIOUS
<1> DEFINE j == CHOOSE k \in DOMAIN s : s[k] = s[i]
<1>2. j \in DOMAIN s /\ s[j] = s[i]
  BY <1>1
<1>3. FindIndex(s, s[i]) = j - 1
  BY <1>1 DEF FindIndex
<1> HIDE DEF j
<1>4. j = i
  BY <1>1, <1>2 DEF IsInjective
<1> QED
  BY <1>3, <1>4

LEMMA NothingPutIn ==
  ASSUME NEW s \in Seq(Uuids), NEW n \in Nat, n = Len(s), NEW f \in Nat, f <= n
  PROVE  SubSeq(s, 1, f) \o <<>> = SubSeq(s, 1, f)
<1>1. SubSeq(s, 1, f) \in Seq(Uuids)
  BY FrontPart
<1> QED
  BY <1>1, ConcatEmptySeq

\* An end of the messages is a place to put one as well.
LEMMA AtTheEnds ==
  ASSUME NEW s \in Seq(Uuids), NEW n \in Nat, n = Len(s), NEW e \in Uuids
  PROVE  /\ SubSeq(s, 1, 0) \o <<e>> \o SubSeq(s, 0 + 1, n) = <<e>> \o s
         /\ SubSeq(s, 1, n) \o <<e>> \o SubSeq(s, n + 1, n) = s \o <<e>>
<1>1. <<e>> \in Seq(Uuids) /\ <<>> \in Seq(Uuids) /\ s \o <<e>> \in Seq(Uuids)
  <2>1. <<e>> \in Seq(Uuids) /\ <<>> \in Seq(Uuids)
    OBVIOUS
  <2> QED
    BY <2>1, ConcatProperties
<1>2. SubSeq(s, 1, 0) = <<>> /\ SubSeq(s, n + 1, n) = <<>>
  BY SubSeqEmpty
<1>3. SubSeq(s, 1, n) = s /\ 0 + 1 = 1
  BY SubSeqFull
<1>4. <<>> \o <<e>> = <<e>> /\ (s \o <<e>>) \o <<>> = s \o <<e>>
  BY <1>1, ConcatEmptySeq
<1> QED
  BY <1>2, <1>3, <1>4

\* The command of an edit is well formed.
LEMMA EditOfTyped ==
  ASSUME LiveTypes, SeenInv, ShapeInv, NEW o \in Ops, Edited(o), Makes(o) => ops[o].new \in Uuids
  PROVE  LET c == EditOf(o)
             seen == ops[o].seen
             idx == FindIndex(seen, ops[o].uuid)
         IN  /\ seen \in Seq(Uuids)
             /\ Names(o) => idx + 1 \in 1 .. Len(seen) /\ seen[idx + 1] = ops[o].uuid
             /\ \/ c.items = <<>> /\ c.cmd = "splice" /\ c.start \in Nat /\ c.deleteCount \in Nat /\ ~Makes(o)
                \/ Makes(o) /\ c.items = <<ops[o].new>> /\ c.cmd = "push"
                \/ Makes(o) /\ c.items = <<ops[o].new>> /\ c.cmd = "splice" /\ c.start \in Nat /\ c.deleteCount = 0
<1> DEFINE seen == ops[o].seen
           idx == FindIndex(seen, ops[o].uuid)
<1>1. ops[o] \in OpStates /\ ops[o].kind \in Edits /\ seen \in Seq(Uuids)
  BY DEF LiveTypes, OpStates, Edited
<1>2. Len(seen) \in Nat /\ DOMAIN seen = 1 .. Len(seen) /\ Keep \in Nat
  BY <1>1, OpsAssumption
<1>3. Names(o) => idx + 1 \in 1 .. Len(seen) /\ seen[idx + 1] = ops[o].uuid
  <2> SUFFICES ASSUME Names(o) PROVE idx + 1 \in 1 .. Len(seen) /\ seen[idx + 1] = ops[o].uuid
    OBVIOUS
  <2> DEFINE j == CHOOSE i \in DOMAIN seen : seen[i] = ops[o].uuid
  <2>1. \E i \in DOMAIN seen : seen[i] = ops[o].uuid
    BY DEF SeenInv, Range
  <2>2. j \in DOMAIN seen /\ seen[j] = ops[o].uuid
    BY <2>1
  <2>3. idx = j - 1
    BY <2>1 DEF FindIndex
  <2> HIDE DEF j, idx
  <2>4. j \in Int /\ idx + 1 = j
    BY <1>2, <2>2, <2>3
  <2> QED
    BY <1>2, <2>2, <2>4
<1> HIDE DEF idx
<1>4. CASE ops[o].kind = "remove"
  <2>1. Names(o)
    BY <1>4 DEF ShapeInv
  <2>2. EditOf(o) = Splice(o, idx, 1, <<>>)
    BY <1>4 DEF EditOf, idx
  <2>3. idx \in Nat
    BY <1>2, <1>3, <2>1, FindIndexTyped, <1>1 DEF idx
  <2> QED
    BY <1>1, <1>3, <1>4, <2>2, <2>3 DEF Splice, Makes, idx
<1>5. CASE ops[o].kind = "rewind"
  <2>1. Names(o)
    BY <1>5 DEF ShapeInv
  <2>2. EditOf(o) = Splice(o, idx + 1, Len(seen) - (idx + 1), <<>>)
    BY <1>5 DEF EditOf, idx
  <2>3. idx + 1 \in Nat /\ Len(seen) - (idx + 1) \in Nat
    BY <1>2, <1>3, <2>1
  <2> QED
    BY <1>1, <1>3, <1>5, <2>2, <2>3 DEF Splice, Makes, idx
<1>6. CASE ops[o].kind = "truncate"
  <2>1. EditOf(o) = Splice(o, 0, Len(seen) - Keep, <<>>)
    BY <1>6 DEF EditOf
  <2>2. Len(seen) - Keep \in Nat
    BY <1>2, <1>6 DEF SeenInv
  <2> QED
    BY <1>1, <1>3, <1>6, <2>1, <2>2 DEF Splice, Makes, idx
<1>7. CASE ops[o].kind \in {"inject", "merge"}
  <2>1. Makes(o)
    BY <1>7 DEF Makes
  <2>2. CASE ops[o].kind = "inject" /\ ops[o].uuid = Start
    <3>1. EditOf(o) = Splice(o, 0, 0, <<ops[o].new>>)
      BY <2>2, UuidAssumption DEF EditOf, Names
    <3> QED
      BY <1>1, <1>3, <2>1, <3>1 DEF Splice, idx
  <2>3. CASE ops[o].kind = "inject" /\ ops[o].uuid # Start /\ Names(o)
    <3>1. EditOf(o) = Splice(o, idx + 1, 0, <<ops[o].new>>)
      BY <2>3 DEF EditOf, idx
    <3>2. idx + 1 \in Nat
      BY <1>2, <1>3, <2>3
    <3> QED
      BY <1>1, <1>3, <2>1, <3>1, <3>2 DEF Splice, idx
  <2>4. CASE ~(ops[o].kind = "inject" /\ (ops[o].uuid = Start \/ Names(o)))
    <3>1. EditOf(o) = Push(o, <<ops[o].new>>)
      BY <1>7, <2>4 DEF EditOf
    <3> QED
      BY <1>1, <1>3, <2>1, <3>1 DEF Push, idx
  <2> QED
    BY <2>2, <2>3, <2>4
<1> QED
  BY <1>1, <1>4, <1>5, <1>6, <1>7 DEF Edits

\* The messages stay distinct, whatever positions an edit has.
LEMMA EditKeepsDistinct ==
  ASSUME LiveTypes, SeenInv, ShapeInv, NEW o \in Ops, Edited(o), IsInjective(mm),
         Makes(o) => ops[o].new \in Uuids /\ ops[o].new \notin Range(mm)
  PROVE  LET r == Effect(EditOf(o))
         IN  /\ IsInjective(r)
             /\ \A u \in Range(r) : u \in Range(mm) \/ (Makes(o) /\ u = ops[o].new)
<1> DEFINE c == EditOf(o)
           r == Effect(c)
           IsGood(q) == /\ IsInjective(q)
                        /\ \A u \in Range(q) : u \in Range(mm) \/ (Makes(o) /\ u = ops[o].new)
<1>1. /\ \/ c.items = <<>> /\ c.cmd = "splice" /\ c.start \in Nat /\ c.deleteCount \in Nat /\ ~Makes(o)
         \/ Makes(o) /\ c.items = <<ops[o].new>> /\ c.cmd = "push"
         \/ Makes(o) /\ c.items = <<ops[o].new>> /\ c.cmd = "splice" /\ c.start \in Nat /\ c.deleteCount = 0
  BY EditOfTyped
<1> HIDE DEF c
<1>2. mm \in Seq(Uuids)
  BY DEF LiveTypes
<1>3. PICK n \in Nat : n = Len(mm)
  BY <1>2
<1>4. CASE c.items = <<>> /\ c.cmd = "splice" /\ c.start \in Nat /\ c.deleteCount \in Nat
  <2>1. r = Spliced(mm, c.start, c.deleteCount, <<>>)
    BY <1>4 DEF Effect
  <2>2. PICK f, t \in Nat : f <= t /\ t <= n /\ r = SubSeq(mm, 1, f) \o SubSeq(mm, t + 1, n)
    <3>1. PICK start, d \in Nat : start = c.start /\ d = c.deleteCount
      BY <1>4
    <3>2. r = Spliced(mm, start, d, <<>>)
      BY <2>1, <3>1
    <3> HIDE DEF r
    <3>3. PICK f \in Nat : f = IF start < n THEN start ELSE n
      OBVIOUS
    <3>4. PICK t \in Nat : t = IF f + d < n THEN f + d ELSE n
      OBVIOUS
    <3>5. f <= t /\ t <= n /\ f <= n
      BY <3>3, <3>4
    <3>6. r = SubSeq(mm, 1, f) \o <<>> \o SubSeq(mm, t + 1, n)
      BY <1>3, <3>2, <3>3, <3>4 DEF Spliced
    <3>7. SubSeq(mm, 1, f) \o <<>> = SubSeq(mm, 1, f)
      BY <1>2, <1>3, <3>5, NothingPutIn
    <3> QED
      BY <3>5, <3>6, <3>7
  <2> HIDE DEF r
  <2>3. Without(r, mm, {mm[i] : i \in (f + 1) .. t})
    BY <1>2, <1>3, <2>2, TakenOut
  <2>4. IsGood(r)
    BY <2>3 DEF Without
  <2> QED
    BY <2>4 DEF r, c
<1>5. ASSUME NEW f \in Nat, f <= n, Makes(o), r = SubSeq(mm, 1, f) \o <<ops[o].new>> \o SubSeq(mm, f + 1, n)
      PROVE  IsGood(r)
  <2> HIDE DEF r
  <2>1. PICK e \in Uuids : e = ops[o].new /\ e \notin Range(mm)
    BY <1>5
  <2>2. r = SubSeq(mm, 1, f) \o <<e>> \o SubSeq(mm, f + 1, n)
    BY <1>5, <2>1
  <2>3. IsInjective(r) /\ Range(r) = Range(mm) \cup {e}
    BY <1>2, <1>3, <1>5, <2>1, <2>2, PutIn
  <2> QED
    BY <1>5, <2>1, <2>3
<1>6. CASE Makes(o) /\ c.items = <<ops[o].new>> /\ c.cmd = "push"
  <2>1. r = mm \o <<ops[o].new>>
    BY <1>6 DEF Effect
  <2>2. r = SubSeq(mm, 1, n) \o <<ops[o].new>> \o SubSeq(mm, n + 1, n)
    BY <1>2, <1>3, <1>6, <2>1, AtTheEnds
  <2>3. IsGood(r)
    BY <1>5, <1>6, <2>2
  <2> QED
    BY <2>3 DEF c
<1>7. CASE Makes(o) /\ c.items = <<ops[o].new>> /\ c.cmd = "splice" /\ c.start \in Nat /\ c.deleteCount = 0
  <2>1. r = Spliced(mm, c.start, 0, <<ops[o].new>>)
    BY <1>7 DEF Effect
  <2>2. PICK f \in Nat : f <= n /\ r = SubSeq(mm, 1, f) \o <<ops[o].new>> \o SubSeq(mm, f + 1, n)
    <3>1. PICK start \in Nat, e \in Uuids : start = c.start /\ e = ops[o].new
      BY <1>7
    <3>2. r = Spliced(mm, start, 0, <<e>>)
      BY <2>1, <3>1
    <3> HIDE DEF r
    <3>3. PICK f \in Nat : f = IF start < n THEN start ELSE n
      OBVIOUS
    <3>4. f <= n /\ f = IF f + 0 < n THEN f + 0 ELSE n
      BY <3>3
    <3>5. r = SubSeq(mm, 1, f) \o <<e>> \o SubSeq(mm, f + 1, n)
      BY <1>3, <3>2, <3>3, <3>4 DEF Spliced
    <3> QED
      BY <3>1, <3>4, <3>5
  <2>3. IsGood(r)
    BY <1>5, <1>7, <2>2
  <2> QED
    BY <2>3 DEF c
<1> QED
  BY <1>1, <1>4, <1>6, <1>7

\* With the positions the messages have, an edit does what it was asked for.
LEMMA EditDoesAsAsked ==
  ASSUME LiveTypes, SeenInv, ShapeInv, NEW o \in Ops, Edited(o), IsInjective(mm),
         Makes(o) => ops[o].new \in Uuids, Begins(ops[o].seen, mm), mm' = Effect(EditOf(o))
  PROVE  DoesAsAsked(o)
<1> DEFINE seen == ops[o].seen
           u == ops[o].uuid
           idx == FindIndex(seen, u)
<1>1. ops[o].kind \in Edits /\ seen \in Seq(Uuids) /\ mm \in Seq(Uuids)
  BY EditOfTyped DEF Edited, LiveTypes
<1>2. PICK n \in Nat : n = Len(mm)
  BY <1>1
<1>3. PICK m \in Nat : m = Len(seen)
  BY <1>1
<1>4. m <= n /\ \A i \in 1 .. m : mm[i] = seen[i]
  BY <1>2, <1>3 DEF Begins
<1>5. Names(o) => idx + 1 \in 1 .. m /\ seen[idx + 1] = u
  BY <1>3, EditOfTyped
<1>6. idx \in Int
  <2>1. idx \in -1 .. Len(seen) - 1
    BY <1>1, FindIndexTyped
  <2> QED
    BY <1>3, <2>1
<1> HIDE DEF idx
\* What is taken out are the messages at these positions, and these are those read.
<1>7. ASSUME NEW start \in Nat, NEW d \in Nat, start + d <= m, mm' = Spliced(mm, start, d, <<>>)
      PROVE  Without(mm', mm, {seen[i] : i \in (start + 1) .. (start + d)})
  <2>1. start + d <= n
    BY <1>4, <1>7
  <2>2. mm' = SubSeq(mm, 1, start) \o SubSeq(mm, start + d + 1, n)
    <3>1. PICK t \in Nat : t = start + d
      OBVIOUS
    <3>2. start = (IF start < n THEN start ELSE n) /\ t = (IF start + d < n THEN start + d ELSE n)
      BY <2>1, <3>1
    <3>3. mm' = SubSeq(mm, 1, start) \o <<>> \o SubSeq(mm, t + 1, n)
      BY <1>2, <1>7, <3>2 DEF Spliced
    <3>4. SubSeq(mm, 1, start) \o <<>> = SubSeq(mm, 1, start)
      BY <1>1, <1>2, <2>1, NothingPutIn
    <3> QED
      BY <3>1, <3>3, <3>4
  <2>3. PICK t \in Nat : t = start + d
    OBVIOUS
  <2>4. t <= n /\ start <= t /\ mm' = SubSeq(mm, 1, start) \o SubSeq(mm, t + 1, n)
    BY <2>1, <2>2, <2>3
  <2>5. Without(mm', mm, {mm[i] : i \in (start + 1) .. t})
    <3>1. PICK r : r = SubSeq(mm, 1, start) \o SubSeq(mm, t + 1, n)
      OBVIOUS
    <3>2. Without(r, mm, {mm[i] : i \in (start + 1) .. t})
      BY <1>1, <1>2, <2>4, <3>1, TakenOut
    <3>3. mm' = r
      BY <2>4, <3>1
    <3> QED
      BY <3>2, <3>3
  <2>6. {mm[i] : i \in (start + 1) .. t} = {seen[i] : i \in (start + 1) .. t}
    <3>1. \A i \in (start + 1) .. t : mm[i] = seen[i]
      BY <1>4, <1>7, <2>3
    <3> QED
      BY <3>1
  <2> QED
    BY <2>3, <2>5, <2>6
\* What is put in goes where it says.
<1>8. ASSUME NEW start \in Nat, NEW e \in Uuids, start <= n, mm' = Spliced(mm, start, 0, <<e>>)
      PROVE  mm' = SubSeq(mm, 1, start) \o <<e>> \o SubSeq(mm, start + 1, n)
  <2>1. start = (IF start < n THEN start ELSE n) /\ start = IF start + 0 < n THEN start + 0 ELSE n
    BY <1>8
  <2> QED
    BY <1>2, <1>8, <2>1 DEF Spliced
<1>9. CASE ops[o].kind = "remove"
  <2>1. Names(o) /\ EditOf(o) = Splice(o, idx, 1, <<>>)
    BY <1>9 DEF ShapeInv, EditOf, idx
  <2>2. idx \in Nat /\ 1 \in Nat /\ idx + 1 <= m /\ seen[idx + 1] = u
    BY <1>5, <1>6, <2>1
  <2>3. mm' = Spliced(mm, idx, 1, <<>>)
    BY <2>1 DEF Effect, Splice
  <2>4. Without(mm', mm, {seen[i] : i \in (idx + 1) .. (idx + 1)})
    BY <1>7, <2>2, <2>3
  <2>5. {seen[i] : i \in (idx + 1) .. (idx + 1)} = {u}
    BY <2>2
  <2> QED
    BY <1>9, <2>4, <2>5 DEF DoesAsAsked
<1>10. CASE ops[o].kind = "rewind"
  <2>1. Names(o) /\ EditOf(o) = Splice(o, idx + 1, Len(seen) - (idx + 1), <<>>)
    BY <1>10 DEF ShapeInv, EditOf, idx
  <2>2. PICK k \in Nat : k = idx + 1
    BY <1>5, <2>1
  <2>3. PICK d \in Nat : d = m - k
    BY <1>5, <2>1, <2>2
  <2>4. k + d = m
    BY <2>3
  <2>5. mm' = Spliced(mm, k, d, <<>>)
    BY <1>3, <2>1, <2>2, <2>3 DEF Effect, Splice
  <2>6. Without(mm', mm, {seen[i] : i \in (k + 1) .. (k + d)})
    BY <1>7, <2>4, <2>5
  <2>7. Without(mm', mm, {seen[i] : i \in (FindIndex(seen, u) + 1 + 1) .. Len(seen)})
    BY <1>3, <2>2, <2>4, <2>6 DEF idx
  <2> QED
    BY <1>10, <2>7 DEF DoesAsAsked
<1>11. CASE ops[o].kind = "truncate"
  <2>1. EditOf(o) = Splice(o, 0, Len(seen) - Keep, <<>>)
    BY <1>11 DEF EditOf
  <2>2. PICK d \in Nat : d = m - Keep
    <3>1. Len(seen) > Keep
      BY <1>11 DEF SeenInv
    <3>2. m - Keep \in Nat
      BY <1>3, <3>1, OpsAssumption
    <3> QED
      BY <3>2
  <2>3. 0 + d <= m /\ 0 \in Nat /\ 0 + 1 = 1 /\ 0 + d = d
    BY <2>2, OpsAssumption
  <2>4. mm' = Spliced(mm, 0, d, <<>>)
    BY <1>3, <2>1, <2>2 DEF Effect, Splice
  <2>5. Without(mm', mm, {seen[i] : i \in (0 + 1) .. (0 + d)})
    BY <1>7, <2>3, <2>4
  <2>6. Without(mm', mm, {seen[i] : i \in 1 .. (Len(seen) - Keep)})
    BY <1>3, <2>2, <2>3, <2>5
  <2> QED
    BY <1>11, <2>6 DEF DoesAsAsked
<1>12. CASE ops[o].kind = "inject" /\ u = Start
  <2>1. PICK e \in Uuids : e = ops[o].new
    BY <1>12 DEF Makes
  <2>2. EditOf(o) = Splice(o, 0, 0, <<e>>)
    BY <1>12, <2>1, UuidAssumption DEF EditOf, Names
  <2>3. mm' = Spliced(mm, 0, 0, <<e>>)
    BY <2>2 DEF Effect, Splice
  <2>4. mm' = SubSeq(mm, 1, 0) \o <<e>> \o SubSeq(mm, 0 + 1, n)
    BY <1>8, <2>3
  <2>5. mm' = <<e>> \o mm
    BY <1>1, <1>2, <2>4, AtTheEnds
  <2> QED
    BY <1>12, <2>1, <2>5, UuidAssumption DEF DoesAsAsked, Names
<1>13. CASE ops[o].kind = "inject" /\ Names(o)
  <2>1. PICK e \in Uuids : e = ops[o].new
    BY <1>13 DEF Makes
  <2>2. PICK k \in 1 .. m : k = idx + 1
    BY <1>5, <1>13
  <2>3. EditOf(o) = Splice(o, k, 0, <<e>>)
    BY <1>13, <2>1, <2>2, UuidAssumption DEF EditOf, Names, idx
  <2>4. mm' = Spliced(mm, k, 0, <<e>>)
    BY <2>3 DEF Effect, Splice
  <2>5. k \in 1 .. n /\ k \in Nat /\ mm[k] = u
    BY <1>4, <1>5, <1>13, <2>2
  <2>6. mm' = SubSeq(mm, 1, k) \o <<e>> \o SubSeq(mm, k + 1, n)
    <3>1. k <= n /\ k \in Nat
      BY <2>5
    <3> QED
      BY <1>8, <2>4, <3>1
  <2>7. FindIndex(mm, u) = k - 1
    BY <1>1, <1>2, <2>5, FindsIt
  <2>8. InsertAt(mm, k + 1, e) = SubSeq(mm, 1, k) \o <<e>> \o SubSeq(mm, k + 1, n)
    <3>1. (k + 1) - 1 = k
      OBVIOUS
    <3> QED
      BY <1>2, <3>1 DEF InsertAt
  <2>9. FindIndex(mm, u) + 1 = k
    BY <2>5, <2>7
  <2>10. mm' = InsertAt(mm, FindIndex(mm, u) + 1 + 1, e)
    BY <2>6, <2>8, <2>9
  <2> QED
    BY <1>13, <2>1, <2>10, UuidAssumption DEF DoesAsAsked, Names
<1>14. CASE ops[o].kind = "merge" \/ (ops[o].kind = "inject" /\ u # Start /\ ~Names(o))
  <2>1. PICK e \in Uuids : e = ops[o].new
    BY <1>14 DEF Makes
  <2>2. EditOf(o) = Push(o, <<e>>)
    BY <1>14, <2>1 DEF EditOf
  <2>3. mm' = mm \o <<e>>
    BY <2>2 DEF Effect, Push
  <2>4. mm' = Append(mm, e)
    BY <1>1, <2>3, AppendIsConcat
  <2> QED
    BY <1>14, <2>1, <2>4 DEF DoesAsAsked
<1> QED
  BY <1>1, <1>9, <1>10, <1>11, <1>12, <1>13, <1>14 DEF Edits
-----------------------------------------------------------------------------
(***************************************************************************)
(* The steps, for the edits.                                               *)
(***************************************************************************)
LEMMA QueuedAreUnderWay ==
  ASSUME SurgeryInv
  PROVE  /\ \A x \in Range(answers) : x.op \in Ops /\ x.op \in UnderWay
         /\ \A c \in Range(wire) : c.op \in Ops /\ c.op \in UnderWay
<1>1. Matches(pending, answers, wire) /\ Range(pending) = UnderWay
  BY MatchesIsAnswersMatch DEF SurgeryInv, QueueInv
<1>2. pending \in Seq(Ops) /\ answers \in Seq(AnswerTypes) /\ wire \in Seq(Commands)
  BY DEF SurgeryInv, TypeInv, LiveTypes
<1>3. /\ \A x \in Range(answers) : x.op \in UnderWay
      /\ \A c \in Range(wire) : c.op \in UnderWay
  BY <1>1, <1>2, QueuedWait
<1> QED
  BY <1>3 DEF UnderWay

\* A message made now is in no memory, and no operation has it.
LEMMA FreshIsNew ==
  ASSUME SurgeryInv, EditInv
  PROVE  /\ Fresh \in Nat /\ made \in Nat /\ made < Fresh /\ Fresh \notin Range(mm)
         /\ \A o \in Ops : Makes(o) => ops[o].new # Fresh /\ ops[o].new \in Int
         /\ \A i \in DOMAIN mm : mm[i] \in Int /\ mm[i] # Fresh /\ mm[i] <= Fresh
<1>1. made \in Nat /\ mm \in Seq(Uuids)
  BY DEF SurgeryInv, TypeInv, LiveTypes
<1>2. \A u \in Uuids : u \in Int
  <2>1. Cardinality(Uuids) \in Nat
    BY UuidsAssumption, FS_CardinalityType
  <2> QED
    BY <2>1, UuidsAssumption
<1>3. \A i \in DOMAIN mm : mm[i] \in Int /\ mm[i] <= made
  BY <1>1, <1>2 DEF EditInv, DistinctInv
<1>4. \A o \in Ops : Makes(o) => ops[o].new \in Int /\ ops[o].new <= made
  BY <1>2 DEF EditInv, NewInv
<1>5. Fresh \in Nat /\ made < Fresh
  BY <1>1 DEF Fresh
<1>6. \A i \in DOMAIN mm : mm[i] # Fresh /\ mm[i] <= Fresh
  BY <1>1, <1>3, <1>5
<1>7. \A o \in Ops : Makes(o) => ops[o].new # Fresh
  BY <1>1, <1>4, <1>5
<1> QED
  BY <1>1, <1>3, <1>4, <1>5, <1>6, <1>7 DEF Range

\* One operation goes on, and the messages stay as they are.
LEMMA OneGoesOn ==
  ASSUME SurgeryInv, EditInv, NEW o \in Ops, ops' \in [Ops -> OpStates],
         \A p \in Ops \ {o} : ops'[p] = ops[p],
         ops'[o].pc = "off" => ops'[o] = Off,
         ops'[o].pc \notin {"off", "done"} => ipc = "on",
         \A x \in Range(answers)' : x \in Range(answers) /\ x.op # o,
         \A c \in Range(wire)' : \/ c \in Range(wire) /\ c.op # o
                                 \/ c.op = o /\ (Edited(o)' => c = EditOf(o)'),
         mm' = mm, ipc' = ipc, made' \in {made, Fresh},
         \A p \in Ops \ {o} : /\ p \in applied' <=> p \in applied
                              /\ p \in stale => p \in stale' \/ ops[p].pc = "done",
         Edited(o)' => /\ ops'[o].uuid \in Uuids => ops'[o].uuid \in Range(ops'[o].seen)
                       /\ ops'[o].kind = "truncate" => Len(ops'[o].seen) > Keep
                       /\ o \notin stale' => Begins(ops'[o].seen, mm)
                       /\ Makes(o)' => ops'[o].new = Fresh /\ Fresh \in Uuids /\ made' = Fresh
  PROVE  EditInv'
<1>1. /\ made \in Nat /\ made' \in Nat /\ made <= made'
      /\ Fresh \in Nat /\ made < Fresh /\ Fresh \notin Range(mm)
      /\ \A p \in Ops : Makes(p) => ops[p].new # Fresh
  BY FreshIsNew
<1>2. /\ \A p \in Ops \ {o} : Edited(p)' <=> Edited(p)
      /\ \A p \in Ops \ {o} : Makes(p)' <=> Makes(p)
  BY DEF Edited, Makes
<1>3. \A p \in Ops \ {o} : EditOf(p)' = EditOf(p)
  BY DEF EditOf, Names
<1>4. OffInv'
  BY DEF EditInv, OffInv, UnderWay
<1>5. RestInv'
  BY DEF EditInv, RestInv
<1>6. DistinctInv'
  <2>1. \A i \in DOMAIN mm : mm[i] \in Int /\ mm[i] <= made
    BY FreshIsNew DEF EditInv, DistinctInv
  <2> QED
    BY <1>1, <2>1 DEF EditInv, DistinctInv
<1>7. NewInv'
  <2>1. \A p \in Ops \ {o} : Makes(p) => ops[p].new \in Int
    BY FreshIsNew
  <2>2. ASSUME NEW p \in Ops \ {o}, Makes(p)'
        PROVE  /\ ops'[p].new \in Uuids /\ ops'[p].new <= made'
               /\ p \notin applied' => ops'[p].new \notin Range(mm)'
               /\ \A q \in Ops : Makes(q)' /\ ops'[q].new = ops'[p].new => q = p
    <3>1. Makes(p) /\ ops'[p] = ops[p]
      BY <1>2, <2>2
    <3>2. ops[p].new <= made'
      BY <1>1, <2>1, <3>1 DEF EditInv, NewInv
    <3>3. \A q \in Ops : Makes(q)' /\ ops'[q].new = ops[p].new => q = p
      BY <1>1, <1>2, <3>1 DEF EditInv, NewInv, Makes
    <3> QED
      BY <3>1, <3>2, <3>3 DEF EditInv, NewInv
  <2>3. ASSUME Makes(o)'
        PROVE  /\ ops'[o].new \in Uuids /\ ops'[o].new <= made'
               /\ o \notin applied' => ops'[o].new \notin Range(mm)'
               /\ \A q \in Ops : Makes(q)' /\ ops'[q].new = ops'[o].new => q = o
    <3>1. ops'[o].new = Fresh /\ Fresh \in Uuids /\ made' = Fresh
      BY <2>3 DEF Makes
    <3>2. \A q \in Ops \ {o} : Makes(q)' => ops'[q].new # Fresh
      BY <1>1, <1>2
    <3> QED
      BY <1>1, <3>1, <3>2
  <2> QED
    BY <2>2, <2>3 DEF NewInv
<1>8. SentInv'
  <2> SUFFICES ASSUME NEW c \in Range(wire)', Edited(c.op)' PROVE c = EditOf(c.op)'
    BY DEF SentInv
  <2>1. CASE c \in Range(wire) /\ c.op # o
    <3>1. c.op \in Ops \ {o}
      BY <2>1, QueuedAreUnderWay
    <3>2. Edited(c.op) /\ EditOf(c.op)' = EditOf(c.op)
      BY <1>2, <1>3, <3>1
    <3> QED
      BY <2>1, <3>2 DEF EditInv, SentInv
  <2>2. CASE c.op = o /\ (Edited(o)' => c = EditOf(o)')
    BY <2>2
  <2> QED
    BY <2>1, <2>2
<1>9. SeenInv'
  <2> SUFFICES ASSUME NEW p \in Ops, Edited(p)'
               PROVE  /\ Names(p)' => ops'[p].uuid \in Range(ops'[p].seen)
                      /\ ops'[p].kind = "truncate" => Len(ops'[p].seen) > Keep
    BY DEF SeenInv
  <2>1. CASE p = o
    BY <2>1 DEF Names
  <2>2. CASE p # o
    <3>1. Edited(p) /\ ops'[p] = ops[p]
      BY <1>2, <2>2
    <3> QED
      BY <3>1 DEF EditInv, SeenInv, Names
  <2> QED
    BY <2>1, <2>2
<1>10. FreshInv'
  <2>1. ASSUME NEW p \in Ops \ (stale' \cup applied'), Edited(p)'
        PROVE  Begins(ops'[p].seen, mm)
    <3>1. CASE p = o
      BY <2>1, <3>1
    <3>2. CASE p # o
      <4>1. Edited(p) /\ ops'[p] = ops[p]
        BY <1>2, <2>1, <3>2
      <4>2. p \notin stale \cup applied
        BY <2>1, <3>2, <4>1 DEF Edited
      <4> QED
        BY <4>1, <4>2 DEF EditInv, FreshInv
    <3> QED
      BY <3>1, <3>2
  <2>2. ASSUME NEW x \in Range(answers)', x.op \notin stale', ops'[x.op].pc = "reading"
        PROVE  Begins(x.messages, mm)
    <3>1. x \in Range(answers) /\ x.op \in Ops \ {o}
      BY <2>2, QueuedAreUnderWay
    <3>2. ops[x.op].pc = "reading" /\ x.op \notin stale
      BY <2>2, <3>1
    <3> QED
      BY <3>1, <3>2 DEF EditInv, FreshInv
  <2>3. \A p \in Ops \ (stale' \cup applied') : Edited(p)' => Begins(ops'[p].seen, mm)
    BY <2>1
  <2> QED
    BY <2>2, <2>3 DEF FreshInv, Begins
<1> QED
  BY <1>4, <1>5, <1>6, <1>7, <1>8, <1>9, <1>10 DEF EditInv

\* The messages become more, or stay as they are.
LEMMA MessagesGrow ==
  ASSUME SurgeryInv, EditInv, UNCHANGED <<ipc, wire, answers, ops, stale, applied>>,
         \/ mm' = mm /\ made' \in {made, Fresh}
         \/ mm' = Append(mm, Fresh) /\ made' = Fresh
  PROVE  EditInv'
<1>1. /\ made \in Nat /\ made' \in Nat /\ made <= made' /\ mm \in Seq(Uuids)
      /\ Fresh \in Nat /\ made < Fresh /\ Fresh \notin Range(mm)
      /\ \A p \in Ops : Makes(p) => ops[p].new # Fresh /\ ops[p].new \in Int
      /\ \A i \in DOMAIN mm : mm[i] \in Int /\ mm[i] # Fresh /\ mm[i] <= Fresh
  BY FreshIsNew DEF SurgeryInv, TypeInv, LiveTypes
<1>2. PICK n \in Nat : n = Len(mm) /\ DOMAIN mm = 1 .. n
  BY <1>1
<1>3. \/ mm' = mm /\ Range(mm') = Range(mm) /\ Len(mm') = n
      \/ /\ mm' = Append(mm, Fresh) /\ Range(mm') = Range(mm) \cup {Fresh}
         /\ Len(mm') = n + 1 /\ DOMAIN mm' = 1 .. n + 1 /\ mm'[n + 1] = Fresh
         /\ made' = Fresh
  <2> SUFFICES ASSUME mm' = Append(mm, Fresh), made' = Fresh
               PROVE  /\ Range(mm') = Range(mm) \cup {Fresh}
                      /\ Len(mm') = n + 1 /\ DOMAIN mm' = 1 .. n + 1 /\ mm'[n + 1] = Fresh
    BY <1>2
  <2>1. mm \in Seq(Uuids \cup {Fresh}) /\ Fresh \in Uuids \cup {Fresh}
    BY <1>1, SeqMonotonic
  <2>2. Range(mm') = Range(mm) \cup {Fresh}
    BY <2>1, RangeAppend
  <2> QED
    BY <1>2, <2>1, <2>2, AppendProperties
<1>4. \A i \in 1 .. n : mm'[i] = mm[i]
  BY <1>1, <1>2
<1>5. ASSUME NEW s \in Seq(Uuids), Begins(s, mm)
      PROVE  Begins(s, mm')
  <2>1. PICK m \in Nat : m = Len(s)
    OBVIOUS
  <2>2. m <= n /\ \A i \in 1 .. m : mm[i] = s[i]
    BY <1>2, <1>5, <2>1 DEF Begins
  <2>3. m <= Len(mm') /\ \A i \in 1 .. m : mm'[i] = s[i]
    BY <1>3, <1>4, <2>2
  <2> QED
    BY <2>1, <2>3 DEF Begins
<1>6. OffInv' /\ RestInv' /\ SentInv' /\ SeenInv'
  BY DEF EditInv, OffInv, RestInv, SentInv, SeenInv, UnderWay, Edited, EditOf, Names
<1>7. DistinctInv'
  <2>1. CASE mm' = mm
    BY <1>1, <2>1 DEF EditInv, DistinctInv
  <2>2. CASE mm' = Append(mm, Fresh) /\ DOMAIN mm' = 1 .. n + 1 /\ mm'[n + 1] = Fresh /\ made' = Fresh
    <3>1. \A i \in 1 .. n + 1 : i = n + 1 \/ i \in 1 .. n
      OBVIOUS
    <3>2. IsInjective(mm')
      BY <1>1, <1>2, <1>4, <2>2, <3>1 DEF EditInv, DistinctInv, IsInjective
    <3>3. \A i \in DOMAIN mm' : mm'[i] <= made'
      BY <1>1, <1>2, <1>4, <2>2, <3>1
    <3> QED
      BY <3>2, <3>3 DEF DistinctInv
  <2> QED
    BY <1>3, <2>1, <2>2
<1>8. NewInv'
  <2> SUFFICES ASSUME NEW p \in Ops, Makes(p)
               PROVE  /\ ops[p].new \in Uuids /\ ops[p].new <= made'
                      /\ p \notin applied => ops[p].new \notin Range(mm')
                      /\ \A q \in Ops : Makes(q) /\ ops[q].new = ops[p].new => q = p
    BY DEF NewInv, Makes, Edited
  <2>1. /\ ops[p].new \in Uuids /\ ops[p].new <= made
        /\ p \notin applied => ops[p].new \notin Range(mm)
        /\ \A q \in Ops : Makes(q) /\ ops[q].new = ops[p].new => q = p
    BY DEF EditInv, NewInv
  <2>2. ops[p].new # Fresh /\ ops[p].new \in Int
    BY <1>1
  <2> QED
    BY <1>1, <1>3, <2>1, <2>2
<1>9. FreshInv'
  <2>1. ASSUME NEW p \in Ops \ (stale \cup applied), Edited(p)
        PROVE  Begins(ops[p].seen, mm')
    <3>1. ops[p] \in OpStates
      BY DEF SurgeryInv, TypeInv, LiveTypes
    <3>2. ops[p].seen \in Seq(Uuids) /\ Begins(ops[p].seen, mm)
      BY <2>1, <3>1 DEF EditInv, FreshInv, OpStates
    <3> QED
      BY <1>5, <3>2
  <2>2. ASSUME NEW x \in Range(answers), x.op \notin stale, ops[x.op].pc = "reading"
        PROVE  Begins(x.messages, mm')
    <3>1. x \in AnswerTypes
      BY DEF SurgeryInv, TypeInv, LiveTypes, Range
    <3>2. x.messages \in Seq(Uuids) /\ Begins(x.messages, mm)
      BY <2>2, <3>1 DEF EditInv, FreshInv, AnswerTypes
    <3> QED
      BY <1>5, <3>2
  <2>3. \A p \in Ops \ (stale \cup applied) : Edited(p) => Begins(ops[p].seen, mm')
    BY <2>1
  <2>4. \A x \in Range(answers) : x.op \notin stale /\ ops[x.op].pc = "reading" => Begins(x.messages, mm')
    BY <2>2
  <2> QED
    BY <2>3, <2>4 DEF FreshInv, Begins, Edited
<1> QED
  BY <1>6, <1>7, <1>8, <1>9 DEF EditInv

\* Nothing is under way any more, and the messages are gone.
LEMMA NoneUnderWay ==
  ASSUME SurgeryInv, EditInv, \A o \in Ops : ops'[o].pc \in {"off", "done"},
         \A o \in Ops : ops'[o].pc = "off" => ops'[o] = Off,
         mm' = <<>>, \A c \in Range(wire)' : c.op \in Ops, \A x \in Range(answers)' : x.op \in Ops
  PROVE  EditInv'
<1>1. \A o \in Ops : ~Edited(o)' /\ ~Makes(o)'
  BY DEF Edited, Makes
<1>2. OffInv' /\ RestInv' /\ NewInv' /\ SentInv' /\ SeenInv'
  BY <1>1 DEF OffInv, RestInv, NewInv, SentInv, SeenInv, UnderWay
<1>3. DistinctInv'
  BY DEF DistinctInv, IsInjective
<1>4. FreshInv'
  BY <1>1 DEF FreshInv
<1> QED
  BY <1>2, <1>3, <1>4 DEF EditInv

LEMMA ConnectKeepsEdits ==
  ASSUME SurgeryInv, EditInv, ConnectIpc
  PROVE  EditInv'
<1>1. ipc = "unset" /\ UNCHANGED <<wire, answers, ops, stale, applied, made>>
  BY DEF ConnectIpc, surgeryVars
<1>2. UnderWay = {}
  BY <1>1 DEF EditInv, OffInv
<1>3. CASE mm' = mm
  <2>1. OffInv' /\ RestInv' /\ SentInv' /\ SeenInv' /\ DistinctInv' /\ NewInv' /\ FreshInv'
    BY <1>1, <1>2, <1>3 DEF EditInv, OffInv, RestInv, SentInv, SeenInv, DistinctInv, NewInv, FreshInv,
       UnderWay, Edited, Makes, EditOf, Names, Begins
  <2> QED
    BY <2>1 DEF EditInv
<1>4. CASE mm' = <<>>
  <2>1. \A o \in Ops : ops'[o].pc \in {"off", "done"} /\ (ops'[o].pc = "off" => ops'[o] = Off)
    BY <1>1, <1>2 DEF EditInv, RestInv, UnderWay
  <2>2. (\A c \in Range(wire)' : c.op \in Ops) /\ (\A x \in Range(answers)' : x.op \in Ops)
    BY <1>1, QueuedAreUnderWay
  <2> QED
    BY <1>4, <2>1, <2>2, NoneUnderWay
<1> QED
  BY <1>3, <1>4 DEF ConnectIpc

LEMMA RejectKeepsEdits ==
  ASSUME SurgeryInv, EditInv, Reject, Rejected, mm' = <<>>
  PROVE  EditInv'
<1>1. ops \in [Ops -> OpStates]
  BY DEF SurgeryInv, TypeInv, LiveTypes
<1>2. \A o \in Ops : \/ ops'[o].pc = "done"
                     \/ ops'[o] = ops[o] /\ ops[o].pc \in {"off", "done"}
  BY <1>1 DEF Rejected, UnderWay, Off
<1>3. \A o \in Ops : ops'[o].pc \in {"off", "done"} /\ (ops'[o].pc = "off" => ops'[o] = Off)
  BY <1>2 DEF EditInv, RestInv
<1>4. Range(wire)' = {} /\ Range(answers)' = {}
  BY DEF Reject, Range
<1> QED
  BY <1>3, <1>4, NoneUnderWay

\* A compaction: what an operation has read is not there any more.
LEMMA CompactKeepsEdits ==
  ASSUME SurgeryInv, EditInv, TurnCompacts
  PROVE  EditInv'
<1>1. /\ UNCHANGED <<ipc, wire, answers, ops, applied>> /\ made' = Fresh /\ stale' = UnderWay
      /\ mm' = IF ipc = "off" THEN mm ELSE <<Fresh>>
  BY DEF TurnCompacts
<1>2. /\ made \in Nat /\ Fresh \in Nat /\ made < Fresh
      /\ \A p \in Ops : Makes(p) => ops[p].new # Fresh /\ ops[p].new \in Int
      /\ \A i \in DOMAIN mm : mm[i] \in Int /\ mm[i] <= Fresh
  BY FreshIsNew
<1>3. OffInv' /\ RestInv' /\ SentInv' /\ SeenInv'
  BY <1>1 DEF EditInv, OffInv, RestInv, SentInv, SeenInv, UnderWay, Edited, EditOf, Names
<1>4. \/ mm' = mm
      \/ mm' = <<Fresh>> /\ Range(mm') = {Fresh} /\ IsInjective(mm') /\ DOMAIN mm' = 1 .. 1 /\ mm'[1] = Fresh
  BY <1>1 DEF Range, IsInjective
<1>5. DistinctInv'
  BY <1>1, <1>2, <1>4 DEF EditInv, DistinctInv
<1>6. NewInv'
  <2> SUFFICES ASSUME NEW p \in Ops, Makes(p)
               PROVE  /\ ops[p].new \in Uuids /\ ops[p].new <= made'
                      /\ p \notin applied => ops[p].new \notin Range(mm')
                      /\ \A q \in Ops : Makes(q) /\ ops[q].new = ops[p].new => q = p
    BY <1>1 DEF NewInv, Makes, Edited
  <2>1. /\ ops[p].new \in Uuids /\ ops[p].new <= made
        /\ p \notin applied => ops[p].new \notin Range(mm)
        /\ \A q \in Ops : Makes(q) /\ ops[q].new = ops[p].new => q = p
    BY DEF EditInv, NewInv
  <2>2. ops[p].new # Fresh /\ ops[p].new \in Int
    BY <1>2
  <2> QED
    BY <1>1, <1>2, <1>4, <2>1, <2>2
<1>7. FreshInv'
  <2>1. \A p \in Ops : Edited(p) => p \in UnderWay
    BY DEF Edited, UnderWay
  <2>2. \A x \in Range(answers) : x.op \in UnderWay
    BY QueuedAreUnderWay
  <2> QED
    BY <1>1, <2>1, <2>2 DEF FreshInv, Edited
<1> QED
  BY <1>3, <1>5, <1>6, <1>7 DEF EditInv

\* A command that is no edit leaves the messages alone.
LEMMA ReadHasNoEffect ==
  ASSUME NEW c, c.cmd \notin {"splice", "push"}
  PROVE  Effect(c) = mm
BY DEF Effect

\* The CLI runs a command.
LEMMA RunKeepsEdits ==
  ASSUME SurgeryInv, EditInv, RunCmd
  PROVE  EditInv'
<1>1. /\ wire # <<>> /\ wire \in Seq(Commands) /\ answers \in Seq(AnswerTypes) /\ mm \in Seq(Uuids)
      /\ LiveTypes /\ ShapeInv /\ SeenInv
  BY DEF RunCmd, HandleCmd, SurgeryInv, TypeInv, LiveTypes, EditInv
<1>2. PICK c : c = Head(wire)
  OBVIOUS
<1>3. /\ c \in Commands /\ c \in Range(wire) /\ Range(Tail(wire)) \subseteq Range(wire)
      /\ c.op \in Ops /\ c.op \in UnderWay
  BY <1>1, <1>2, RangeTail, QueuedAreUnderWay
<1>4. /\ mm' = Effect(c) /\ answers' = Append(answers, Answer(c)) /\ wire' = Tail(wire)
      /\ UNCHANGED <<ipc, made, ops>>
      /\ applied' = IF c.cmd \in {"splice", "push"} THEN applied \cup {c.op} ELSE applied
      /\ stale' = CASE c.cmd = "splice" -> stale \cup (UnderWay \ {c.op})
                    [] c.cmd \in {"get_messages", "get_length"} -> stale \ {c.op}
                    [] OTHER -> stale
  BY <1>2 DEF RunCmd, HandleCmd
<1>5. c.cmd \in {"splice", "push"} <=> Edited(c.op)
  BY <1>3 DEF SurgeryInv, AppliedInv, WrittenInv
<1>6. \A x \in Range(answers) : x.op # c.op /\ x.op \in UnderWay
  <2>1. Matches(pending, answers, wire) /\ IsInjective(pending) /\ pending \in Seq(Ops)
    BY MatchesIsAnswersMatch DEF SurgeryInv, QueueInv, TypeInv, LiveTypes
  <2>2. \A x \in Range(answers) : x.op # Head(wire).op
    BY <1>1, <2>1, HeadRunsOnce
  <2> QED
    BY <1>2, <2>2, QueuedAreUnderWay
<1>7. Range(answers') = Range(answers) \cup {Answer(c)} /\ Answer(c).op = c.op /\ Answer(c).messages = mm
  <2>1. Answer(c) \in AnswerTypes
    BY <1>1, <1>3 DEF Answer, AnswerTypes
  <2>2. Range(Append(answers, Answer(c))) = Range(answers) \cup {Answer(c)}
    BY <1>1, <2>1, RangeAppend
  <2> QED
    BY <1>4, <2>2 DEF Answer
<1>8. OffInv' /\ RestInv' /\ SentInv' /\ SeenInv'
  <2>1. Range(wire') \subseteq Range(wire)
    BY <1>3, <1>4
  <2>2. OffInv' /\ RestInv' /\ SeenInv'
    BY <1>4 DEF EditInv, OffInv, RestInv, SeenInv, UnderWay, Edited, Names
  <2>3. SentInv'
    BY <1>4, <2>1 DEF EditInv, SentInv, Edited, EditOf, Names
  <2> QED
    BY <2>2, <2>3
<1>9. CASE ~Edited(c.op)
  <2>1. mm' = mm /\ applied' = applied /\ stale \ {c.op} \subseteq stale'
    <3>1. c.cmd \notin {"splice", "push"}
      BY <1>5, <1>9
    <3> QED
      BY <1>4, <3>1, ReadHasNoEffect
  <2>2. DistinctInv' /\ NewInv'
    BY <1>4, <2>1 DEF EditInv, DistinctInv, NewInv, Makes, Edited
  <2>3. FreshInv'
    <3>1. \A o \in Ops \ (stale' \cup applied') : Edited(o) => Begins(ops[o].seen, mm)
      BY <1>9, <2>1 DEF EditInv, FreshInv
    <3>2. \A x \in Range(answers) : x.op \notin stale' /\ ops[x.op].pc = "reading" => Begins(x.messages, mm)
      BY <1>6, <2>1 DEF EditInv, FreshInv
    <3>3. Begins(mm, mm)
      BY <1>1 DEF Begins
    <3>4. \A x \in Range(answers') : x.op \notin stale' /\ ops[x.op].pc = "reading" => Begins(x.messages, mm)
      BY <1>7, <3>2, <3>3
    <3> QED
      BY <1>4, <2>1, <3>1, <3>4 DEF FreshInv, Edited, Begins
  <2> QED
    BY <1>8, <2>2, <2>3 DEF EditInv
<1>10. CASE Edited(c.op)
  <2>1. PICK o \in Ops : o = c.op
    BY <1>3
  <2>2. /\ c = EditOf(o) /\ c.cmd \in {"splice", "push"} /\ o \notin applied /\ applied' = applied \cup {o}
        /\ Makes(o) => ops[o].new \in Uuids /\ ops[o].new \notin Range(mm) /\ ops[o].new <= made
        /\ IsInjective(mm)
    <3>1. c = EditOf(o) /\ c.cmd \in {"splice", "push"} /\ o \notin applied
      BY <1>3, <1>5, <1>10, <2>1 DEF EditInv, SentInv, SurgeryInv, AppliedInv, WrittenInv
    <3>2. applied' = applied \cup {o}
      BY <1>4, <2>1, <3>1
    <3> QED
      BY <3>1, <3>2 DEF EditInv, NewInv, DistinctInv
  <2>3. /\ IsInjective(mm')
        /\ \A u \in Range(mm') : u \in Range(mm) \/ (Makes(o) /\ u = ops[o].new)
    <3>1. /\ IsInjective(Effect(EditOf(o)))
          /\ \A u \in Range(Effect(EditOf(o))) : u \in Range(mm) \/ (Makes(o) /\ u = ops[o].new)
      BY <1>1, <1>10, <2>1, <2>2, EditKeepsDistinct
    <3> QED
      BY <1>4, <2>2, <3>1
  <2>4. DistinctInv'
    <3>1. \A u \in Range(mm) : u <= made
      BY DEF EditInv, DistinctInv, Range
    <3>2. \A u \in Range(mm') : u <= made
      BY <2>2, <2>3, <3>1
    <3>3. \A i \in DOMAIN mm' : mm'[i] \in Range(mm')
      BY DEF Range
    <3> QED
      BY <1>4, <2>3, <3>2, <3>3 DEF DistinctInv
  <2>5. NewInv'
    <3> SUFFICES ASSUME NEW p \in Ops, Makes(p), p \notin applied'
                 PROVE  ops[p].new \notin Range(mm')
      BY <1>4 DEF EditInv, NewInv, Makes, Edited
    <3>1. p # o /\ p \notin applied
      BY <2>2
    <3>2. ops[p].new \notin Range(mm) /\ (Makes(o) => ops[p].new # ops[o].new)
      BY <3>1 DEF EditInv, NewInv
    <3> QED
      BY <2>3, <3>2
  <2>6. ops[o].pc = "editing"
    BY <1>10, <2>1 DEF Edited
  <2>7. CASE c.cmd = "splice"
    <3>1. UnderWay \ {o} \subseteq stale'
      BY <1>4, <2>1, <2>7
    <3>2. \A p \in Ops : Edited(p) => p \in stale' \cup applied'
      BY <2>2, <3>1 DEF Edited, UnderWay
    <3>3. \A x \in Range(answers') : x.op \notin stale' => ops[x.op].pc # "reading"
      BY <1>6, <1>7, <2>1, <2>6, <3>1
    <3>4. FreshInv'
      BY <1>4, <3>2, <3>3 DEF FreshInv, Edited
    <3> QED
      BY <1>8, <2>4, <2>5, <3>4 DEF EditInv
  <2>8. CASE c.cmd = "push"
    <3>1. mm' = mm \o c.items /\ stale' = stale /\ c.items \in Seq(Uuids)
      BY <1>3, <1>4, <2>8 DEF Effect, Commands
    <3>2. ASSUME NEW s \in Seq(Uuids), Begins(s, mm)
          PROVE  Begins(s, mm')
      <4>1. PICK n \in Nat : n = Len(mm)
        BY <1>1
      <4>2. PICK k \in Nat : k = Len(c.items)
        BY <3>1
      <4>3. PICK m \in Nat : m = Len(s)
        OBVIOUS
      <4>4. Len(mm') = n + k /\ \A i \in 1 .. n : mm'[i] = mm[i]
        BY <1>1, <3>1, <4>1, <4>2, Joined
      <4>5. m <= n /\ \A i \in 1 .. m : mm[i] = s[i]
        BY <3>2, <4>1, <4>3 DEF Begins
      <4>6. m <= Len(mm') /\ \A i \in 1 .. m : mm'[i] = s[i]
        BY <4>4, <4>5
      <4> QED
        BY <4>3, <4>6 DEF Begins
    <3>3. ASSUME NEW p \in Ops \ (stale' \cup applied'), Edited(p)
          PROVE  Begins(ops[p].seen, mm')
      <4>1. ops[p] \in OpStates
        BY <1>1 DEF LiveTypes
      <4>2. ops[p].seen \in Seq(Uuids) /\ Begins(ops[p].seen, mm)
        BY <2>2, <3>1, <3>3, <4>1 DEF EditInv, FreshInv, OpStates
      <4> QED
        BY <3>2, <4>2
    <3>4. ASSUME NEW x \in Range(answers'), x.op \notin stale', ops[x.op].pc = "reading"
          PROVE  Begins(x.messages, mm')
      <4>1. x \in Range(answers)
        BY <1>7, <2>1, <2>6, <3>4
      <4>2. x \in AnswerTypes
        BY <1>1, <4>1 DEF Range
      <4>3. x.messages \in Seq(Uuids) /\ Begins(x.messages, mm)
        BY <3>1, <3>4, <4>1, <4>2 DEF EditInv, FreshInv, AnswerTypes
      <4> QED
        BY <3>2, <4>3
    <3>5. \A p \in Ops \ (stale' \cup applied') : Edited(p) => Begins(ops[p].seen, mm')
      BY <3>3
    <3>6. \A x \in Range(answers') : x.op \notin stale' /\ ops[x.op].pc = "reading" => Begins(x.messages, mm')
      BY <3>4
    <3>7. FreshInv'
      BY <1>4, <3>5, <3>6 DEF FreshInv, Edited, Begins
    <3> QED
      BY <1>8, <2>4, <2>5, <3>7 DEF EditInv
  <2> QED
    BY <2>2, <2>7, <2>8
<1> QED
  BY <1>9, <1>10

LEMMA BeginKeepsEdits ==
  ASSUME SurgeryInv, EditInv, NEW o \in Ops, ops[o].pc = "off", ipc = "on",
         NEW kind \in Reads \cup Edits, NEW u \in Uuids \cup {Start, End},
         BeginIpc(o, kind, u), UNCHANGED <<made, stale, applied>>
  PROVE  EditInv'
<1>1. ops \in [Ops -> OpStates] /\ wire \in Seq(Commands)
  BY DEF SurgeryInv, TypeInv, LiveTypes
<1>2. /\ ops' \in [Ops -> OpStates] /\ \A p \in Ops \ {o} : ops'[p] = ops[p]
      /\ ops'[o].pc = "reading"
  <2>1. [ops[o] EXCEPT !.pc = "reading", !.kind = kind, !.uuid = u] \in OpStates
    BY <1>1 DEF OpStates
  <2>2. ops' = [ops EXCEPT ![o] = [ops[o] EXCEPT !.pc = "reading", !.kind = kind, !.uuid = u]]
    BY <1>1 DEF BeginIpc
  <2>3. ops[o] \in OpStates
    BY <1>1
  <2> QED
    BY <1>1, <2>1, <2>2, <2>3 DEF OpStates
<1>3. PICK c \in Commands : c.op = o /\ wire' = Append(wire, c)
  <2>1. FirstCall(kind) \in {"get_messages", "get_length", "get_roles"}
    BY DEF FirstCall
  <2>2. Read(o, FirstCall(kind)) \in Commands /\ Read(o, FirstCall(kind)).op = o
    BY <2>1, ReadTyped
  <2> QED
    BY <2>2 DEF BeginIpc, Send
<1>4. UNCHANGED <<ipc, answers, mm>>
  BY DEF BeginIpc
<1>5. o \notin UnderWay /\ ~Edited(o)'
  BY <1>2 DEF UnderWay, Edited
<1>6. \A d \in Range(wire)' : (d \in Range(wire) /\ d.op # o) \/ d.op = o
  <2>1. Range(wire)' = Range(wire) \cup {c}
    BY <1>1, <1>3, RangeAppend
  <2> QED
    BY <1>3, <1>5, <2>1, QueuedAreUnderWay
<1>7. \A x \in Range(answers)' : x \in Range(answers) /\ x.op # o
  BY <1>4, <1>5, QueuedAreUnderWay
<1> QED
  BY <1>2, <1>4, <1>5, <1>6, <1>7, OneGoesOn

\* An operation that has no call under way begins on the transcript, is refused
\* or is answered.
LEMMA AnswerKeepsEdits ==
  ASSUME SurgeryInv, EditInv, NEW o \in Ops, ops[o].pc \in {"off", "done"}, ops' \in [Ops -> OpStates],
         \A p \in Ops \ {o} : ops'[p] = ops[p],
         ops'[o].pc \in {"off", "done"}, ops'[o].pc = "off" => ops'[o] = Off,
         UNCHANGED <<ipc, wire, answers, mm, stale>>, made' \in {made, Fresh},
         \A p \in Ops \ {o} : p \in applied' <=> p \in applied
  PROVE  EditInv'
<1>1. o \notin UnderWay /\ ~Edited(o)'
  BY DEF UnderWay, Edited
<1>2. /\ \A x \in Range(answers)' : x \in Range(answers) /\ x.op # o
      /\ \A c \in Range(wire)' : c \in Range(wire) /\ c.op # o
  BY <1>1, QueuedAreUnderWay
<1> QED
  BY <1>1, <1>2, OneGoesOn

LEMMA HandleContextKeepsEdits ==
  ASSUME SurgeryInv, EditInv, NEW o \in Ops, HandleContext(o)
  PROVE  EditInv'
<1>1. PICK kind \in {"get_context", "get_stats", "remove", "inject", "truncate", "rewind"},
           u \in Uuids \cup {Start, End} :
        \/ Finish(o, "unchanged") /\ UNCHANGED <<ipcVars, made, applied>>
        \/ Jsonl(o, kind, u) /\ UNCHANGED ipcVars
        \/ BeginIpc(o, kind, u) /\ ipc = "on" /\ UNCHANGED <<made, applied>>
  BY DEF HandleContext
<1>2. /\ ops[o].pc = "off" /\ stale' = stale /\ kind \in Reads \cup Edits
      /\ ops \in [Ops -> OpStates] /\ LiveTypes
  BY DEF HandleContext, Reads, Edits, SurgeryInv, TypeInv, LiveTypes
<1>3. CASE UNCHANGED ipcVars
          /\ (Jsonl(o, kind, u) \/ (Finish(o, "unchanged") /\ UNCHANGED <<made, applied>>))
  <2> DEFINE Done(new) == [Off EXCEPT !.pc = "done", !.kind = kind, !.uuid = u, !.new = new, !.result = "ok"]
  <2>1. \/ /\ ops' = [ops EXCEPT ![o] = [Off EXCEPT !.pc = "done", !.result = "unchanged"]]
           /\ applied' = applied /\ made' \in {made, Fresh}
        \/ \E new \in Uuids \cup {Root} :
             ops' = [ops EXCEPT ![o] = Done(new)] /\ applied' = applied \cup {o} /\ made' \in {made, Fresh}
    <3>1. CanMake => Fresh \in Uuids
      BY DEF CanMake
    <3>2. CASE Finish(o, "unchanged") /\ UNCHANGED <<made, applied>>
      BY <3>2 DEF Finish
    <3>3. CASE Jsonl(o, kind, u) /\ kind \in {"get_context", "get_stats", "rewind"}
      BY <3>3 DEF Jsonl, Reads, Finish
    <3>4. CASE Jsonl(o, kind, u) /\ kind = "remove"
      BY <3>4 DEF Jsonl, Reads, Finish
    <3>5. CASE Jsonl(o, kind, u) /\ kind = "inject"
      BY <3>1, <3>5 DEF Jsonl, Reads, Finish
    <3>6. CASE Jsonl(o, kind, u) /\ kind = "truncate"
      BY <3>6 DEF Jsonl, Reads, Finish
    <3> QED
      BY <1>3, <3>2, <3>3, <3>4, <3>5, <3>6
  <2>2. ASSUME NEW r \in OpStates, r.pc = "done", ops' = [ops EXCEPT ![o] = r],
               applied' \in {applied, applied \cup {o}}, made' \in {made, Fresh}
        PROVE  EditInv'
    <3>1. /\ ops' \in [Ops -> OpStates] /\ \A p \in Ops \ {o} : ops'[p] = ops[p]
          /\ ops'[o].pc = "done" /\ \A p \in Ops \ {o} : p \in applied' <=> p \in applied
      BY <1>2, <2>2
    <3>2. UNCHANGED <<ipc, wire, answers, mm, stale>>
      BY <1>2, <1>3 DEF ipcVars
    <3> QED
      BY <1>2, <2>2, <3>1, <3>2, AnswerKeepsEdits
  <2>3. [Off EXCEPT !.pc = "done", !.result = "unchanged"] \in OpStates
    BY DoneTyped
  <2>4. \A new \in Uuids \cup {Root} : Done(new) \in OpStates
    BY <1>2, OffTyped DEF OpStates
  <2>5. [Off EXCEPT !.pc = "done", !.result = "unchanged"].pc = "done"
    BY DEF Off
  <2>6. \A new \in Uuids \cup {Root} : Done(new).pc = "done"
    BY DEF Off
  <2> HIDE DEF Done
  <2> QED
    BY <2>1, <2>2, <2>3, <2>4, <2>5, <2>6
<1>4. CASE BeginIpc(o, kind, u) /\ ipc = "on" /\ UNCHANGED <<made, applied>>
  BY <1>2, <1>4, BeginKeepsEdits
<1> QED
  BY <1>1, <1>3, <1>4

LEMMA SendAnswerKeepsEdits ==
  ASSUME SurgeryInv, EditInv, NEW o \in Ops, SendAnswer(o)
  PROVE  EditInv'
<1>1. /\ ops[o].pc = "done" /\ ops' = [ops EXCEPT ![o] = Off] /\ applied' = applied \ {o}
      /\ UNCHANGED <<ipc, wire, answers, mm, stale, made>>
  BY DEF SendAnswer, ipcVars
<1>2. ops \in [Ops -> OpStates]
  BY DEF SurgeryInv, TypeInv, LiveTypes
<1>3. /\ ops' \in [Ops -> OpStates] /\ \A p \in Ops \ {o} : ops'[p] = ops[p]
      /\ ops'[o] = Off /\ ops'[o].pc = "off"
      /\ \A p \in Ops \ {o} : p \in applied' <=> p \in applied
  BY <1>1, <1>2, OffTyped DEF Off
<1> QED
  BY <1>1, <1>3, AnswerKeepsEdits

LEMMA BackgroundEndsKeepsEdits ==
  ASSUME SurgeryInv, EditInv, BackgroundEnds
  PROVE  EditInv'
<1>1. /\ Merge \in Ops /\ ops[Merge].pc = "off" /\ ops[Merge] = Off /\ UNCHANGED <<stale, applied>>
      /\ ops \in [Ops -> OpStates] /\ wire \in Seq(Commands) /\ LiveTypes
  BY OpsAssumption DEF BackgroundEnds, SurgeryInv, TypeInv, LiveTypes, ShapeInv, EditInv, RestInv
<1>2. CASE ipc = "on" /\ BeginIpc(Merge, "merge", End) /\ made' = made
  <2>1. "merge" \in Reads \cup Edits
    BY DEF Edits
  <2> QED
    BY <1>1, <1>2, <2>1, BeginKeepsEdits
<1>3. CASE /\ ipc = "on" /\ CanMake /\ made' = Fresh
           /\ ops' = [ops EXCEPT ![Merge].pc = "editing", ![Merge].kind = "merge", ![Merge].new = Fresh]
           /\ Send(pending, Push(Merge, <<Fresh>>)) /\ UNCHANGED <<ipc, answers, mm>>
  <2>1. Fresh \in Uuids /\ <<Fresh>> \in Seq(Uuids)
    BY <1>1, <1>3, FreshTyped
  <2>2. PICK c \in Commands : c = Push(Merge, <<Fresh>>) /\ c.op = Merge
    BY <1>1, <2>1, PushTyped
  <2>3. /\ ops' \in [Ops -> OpStates] /\ \A p \in Ops \ {Merge} : ops'[p] = ops[p]
        /\ ops'[Merge].pc = "editing" /\ ops'[Merge].kind = "merge" /\ ops'[Merge].new = Fresh
        /\ ops'[Merge].uuid = End /\ ops'[Merge].seen = <<>>
    <3>1. ops' = [ops EXCEPT ![Merge] = [ops[Merge] EXCEPT !.pc = "editing", !.kind = "merge", !.new = Fresh]]
      BY <1>1, <1>3
    <3>2. [Off EXCEPT !.pc = "editing", !.kind = "merge", !.new = Fresh] \in OpStates
      BY <2>1, OffTyped DEF OpStates, Edits
    <3>3. ops'[Merge] = [Off EXCEPT !.pc = "editing", !.kind = "merge", !.new = Fresh]
      BY <1>1, <3>1
    <3>4. ops' \in [Ops -> OpStates] /\ \A p \in Ops \ {Merge} : ops'[p] = ops[p]
      BY <1>1, <3>1, <3>2
    <3> QED
      BY <3>3, <3>4 DEF Off
  <2>4. EditOf(Merge)' = c
    BY <2>2, <2>3 DEF EditOf
  <2>5. \A d \in Range(wire)' : (d \in Range(wire) /\ d.op # Merge) \/ (d.op = Merge /\ d = EditOf(Merge)')
    <3>1. Range(wire)' = Range(wire) \cup {c}
      BY <1>1, <1>3, <2>2, RangeAppend DEF Send
    <3>2. \A d \in Range(wire) : d.op # Merge
      BY <1>1, QueuedAreUnderWay DEF UnderWay
    <3> QED
      BY <2>2, <2>4, <3>1, <3>2
  <2>6. \A x \in Range(answers)' : x \in Range(answers) /\ x.op # Merge
    BY <1>1, <1>3, QueuedAreUnderWay DEF UnderWay
  <2>7. Begins(ops'[Merge].seen, mm) /\ ops'[Merge].uuid \notin Uuids
    <3>1. Len(<<>>) = 0 /\ Len(mm) \in Nat
      BY <1>1 DEF LiveTypes
    <3> QED
      BY <2>3, <3>1, UuidAssumption DEF Begins
  <2> QED
    BY <1>1, <1>3, <2>1, <2>3, <2>5, <2>6, <2>7, OneGoesOn
<1>4. CASE UNCHANGED <<ipcVars, ops, made>>
  <2>1. UNCHANGED <<ipc, wire, answers, ops, stale, applied>> /\ mm' = mm /\ made' = made
    BY <1>1, <1>4 DEF ipcVars
  <2> QED
    BY <2>1, MessagesGrow
<1> QED
  BY <1>2, <1>3, <1>4 DEF BackgroundEnds

\* A line arrives on the socket: the operation goes on, edits or is done.
LEMMA OnDataKeepsEdits ==
  ASSUME SurgeryInv, EditInv, OnData
  PROVE  EditInv'
<1> DEFINE seen == Head(answers).messages
           waiting == Tail(pending)
<1>1. /\ answers # <<>> /\ pending # <<>> /\ answers' = Tail(answers)
      /\ stale' = {p \in stale : ops'[p].pc # "done"}
      /\ UNCHANGED <<ipc, mm, file, turn, forked, background, applied>>
  BY DEF OnData
<1>2. /\ pending \in Seq(Ops) /\ answers \in Seq(AnswerTypes) /\ wire \in Seq(Commands)
      /\ ops \in [Ops -> OpStates] /\ TypeInv /\ LiveTypes
      /\ Matches(pending, answers, wire) /\ IsInjective(pending) /\ Range(pending) = UnderWay
  BY MatchesIsAnswersMatch DEF SurgeryInv, TypeInv, LiveTypes, QueueInv
<1>3. PICK o \in Ops : o = Head(pending)
  BY <1>1, <1>2, QueueTail
<1>4. /\ ops[o] \in OpStates /\ Head(answers).op = o /\ Head(answers) \in Range(answers)
      /\ seen \in Seq(Uuids) /\ ipc = "on" /\ o \in UnderWay
  <2>1. Head(answers) \in AnswerTypes /\ Head(answers) \in Range(answers)
    BY <1>1, <1>2, RangeTail
  <2>2. Head(answers).op = o
    BY <1>1, <1>2, <1>3, MatchesAnswered
  <2>3. o \in UnderWay
    BY <2>1, <2>2, QueuedAreUnderWay
  <2> QED
    BY <1>2, <2>1, <2>2, <2>3 DEF AnswerTypes, EditInv, OffInv
\* What is left belongs to the others.
<1>5. /\ \A x \in Range(answers)' : x \in Range(answers) /\ x.op # o
      /\ \A c \in Range(wire) : c.op # o
  <2>1. /\ Matches(Tail(pending), Tail(answers), wire)
        /\ Range(Tail(pending)) = UnderWay \ {o} /\ Tail(pending) \in Seq(Ops)
    BY <1>1, <1>2, <1>3, MatchesAnswered, QueueTail
  <2>2. Tail(answers) \in Seq(AnswerTypes) /\ Range(Tail(answers)) \subseteq Range(answers)
    BY <1>1, <1>2, RangeTail, HeadTailProperties
  <2>3. /\ \A x \in Range(Tail(answers)) : x.op \in Range(Tail(pending))
        /\ \A c \in Range(wire) : c.op \in Range(Tail(pending))
    BY <1>2, <2>1, <2>2, QueuedWait
  <2> QED
    BY <1>1, <2>1, <2>2, <2>3
<1> HIDE DEF seen
\* The operation makes a call that is no edit, or none.
<1>6. ASSUME NEW r \in OpStates, ops' = [ops EXCEPT ![o] = r], r.pc # "off",
             r.pc = "editing" => r.kind \notin Edits,
             wire' = wire \/ \E c \in Commands : c.op = o /\ wire' = Append(wire, c), made' = made
      PROVE  EditInv'
  <2>1. /\ ops' \in [Ops -> OpStates] /\ \A p \in Ops \ {o} : ops'[p] = ops[p] /\ ops'[o] = r
    BY <1>2, <1>6
  <2>2. ~Edited(o)' /\ ops'[o].pc # "off"
    BY <1>2, <1>6 DEF Edited
  <2>3. \A d \in Range(wire)' : (d \in Range(wire) /\ d.op # o) \/ d.op = o
    <3>1. CASE wire' = wire
      BY <1>5, <3>1
    <3>2. ASSUME NEW c \in Commands, c.op = o, wire' = Append(wire, c)
          PROVE  \A d \in Range(wire)' : (d \in Range(wire) /\ d.op # o) \/ d.op = o
      <4>1. Range(wire)' = Range(wire) \cup {c}
        BY <1>2, <3>2, RangeAppend
      <4> QED
        BY <1>5, <3>2, <4>1
    <3> QED
      BY <1>6, <3>1, <3>2
  <2>4. \A p \in Ops \ {o} : /\ p \in applied' <=> p \in applied
                             /\ p \in stale => p \in stale' \/ ops[p].pc = "done"
    BY <1>1, <2>1
  <2> QED
    BY <1>1, <1>4, <1>5, <1>6, <2>1, <2>2, <2>3, <2>4, OneGoesOn
<1>7. ASSUME NEW pc \in {"rereading", "editing"}, NEW cmd \in {"get_length", "get_roles"},
             ops' = [ops EXCEPT ![o].pc = pc], Send(waiting, Read(o, cmd)), made' = made,
             ops[o].kind \in Reads
      PROVE  EditInv'
  <2>1. PICK r \in OpStates : r = [ops[o] EXCEPT !.pc = pc]
    BY <1>4, <1>7 DEF OpStates
  <2>2. ops' = [ops EXCEPT ![o] = r] /\ r.pc = pc /\ r.kind = ops[o].kind
    BY <1>2, <1>4, <1>7, <2>1 DEF OpStates
  <2>3. \E c \in Commands : c.op = o /\ wire' = Append(wire, c)
    BY <1>7, ReadTyped DEF Send
  <2>4. r.pc # "off" /\ r.kind \notin Edits
    BY <1>7, <2>2 DEF Reads, Edits
  <2> QED
    BY <1>6, <1>7, <2>2, <2>3, <2>4
<1>8. ASSUME NEW result \in {"ok", "unchanged"}, Finish(o, result), wire' = wire, made' = made
      PROVE  EditInv'
  <2>1. PICK r \in OpStates : r = [Off EXCEPT !.pc = "done", !.result = result]
    BY DoneTyped
  <2>2. ops' = [ops EXCEPT ![o] = r] /\ r.pc = "done"
    BY <1>8, <2>1 DEF Finish, Off
  <2> QED
    BY <1>6, <1>8, <2>2
<1>9. CASE ops[o].pc = "reading" /\ ReadAnswered(o, seen, waiting)
  <2>1. CASE ops[o].kind = "get_context"
    <3>1. Finish(o, "unchanged") /\ wire' = wire /\ made' = made
      BY <1>9, <2>1 DEF ReadAnswered
    <3> QED
      BY <1>8, <3>1
  <2>2. CASE ops[o].kind = "get_stats"
    <3>1. ops' = [ops EXCEPT ![o].pc = "editing"] /\ Send(waiting, Read(o, "get_roles")) /\ made' = made
      BY <1>9, <2>2 DEF ReadAnswered, Edits
    <3> QED
      BY <1>7, <2>2, <3>1 DEF Reads
  <2>3. CASE ops[o].kind = "snapshot"
    <3>1. ops' = [ops EXCEPT ![o].pc = "rereading"] /\ Send(waiting, Read(o, "get_length")) /\ made' = made
      BY <1>9, <2>3 DEF ReadAnswered, Edits
    <3> QED
      BY <1>7, <2>3, <3>1 DEF Reads
  <2>4. CASE ops[o].kind \in Edits /\ (NotThere(o, seen) \/ NothingToDo(o, seen))
    <3>1. Finish(o, "unchanged") /\ wire' = wire /\ made' = made
      BY <1>9, <2>4 DEF ReadAnswered, Edits
    <3> QED
      BY <1>8, <3>1
  <2>5. CASE ops[o].kind \in Edits /\ ~NotThere(o, seen) /\ ~NothingToDo(o, seen)
    <3> DEFINE makes == ops[o].kind \in {"inject", "merge"}
    <3>1. /\ makes => CanMake
          /\ made' = IF makes THEN Fresh ELSE made
          /\ ops' = [ops EXCEPT ![o].pc = "editing", ![o].seen = seen,
                                ![o].new = IF makes THEN Fresh ELSE Root]
          /\ Send(waiting, Edit(o, seen))
      BY <1>9, <2>5 DEF ReadAnswered, Edits
    <3>2. PICK c \in Commands : c = Edit(o, seen) /\ c.op = o
      BY <1>2, <1>4, <2>5, <3>1, EditTyped
    <3>3. PICK new \in Uuids \cup {Root} : new = IF makes THEN Fresh ELSE Root
      BY <1>2, <3>1, FreshTyped
    <3>4. PICK r \in OpStates : r = [ops[o] EXCEPT !.pc = "editing", !.seen = seen, !.new = new]
      BY <1>4, <3>3 DEF OpStates
    <3>5. /\ r.pc = "editing" /\ r.kind = ops[o].kind /\ r.uuid = ops[o].uuid /\ r.seen = seen /\ r.new = new
      BY <1>4, <3>4 DEF OpStates
    <3>6. ops' = [ops EXCEPT ![o] = r]
      BY <1>2, <1>4, <3>1, <3>3, <3>4
    <3>7. /\ ops' \in [Ops -> OpStates] /\ \A p \in Ops \ {o} : ops'[p] = ops[p] /\ ops'[o] = r
      BY <1>2, <3>6
    <3>8. ops'[o] = r
      BY <1>2, <3>6
    <3>9. EditOf(o)' = c
      <4>1. Names(o)' <=> Names(o)
        BY <3>5, <3>8 DEF Names
      <4>2. ops[o].kind \in {"inject", "merge"} => new = Fresh
        BY <3>3
      <4> HIDE DEF makes
      <4> QED
        BY <2>5, <3>2, <3>5, <3>8, <4>1, <4>2 DEF EditOf, Edit, Edits
    <3>10. \A d \in Range(wire)' : (d \in Range(wire) /\ d.op # o) \/ (d.op = o /\ d = EditOf(o)')
      <4>1. Range(wire)' = Range(wire) \cup {c}
        BY <1>2, <3>1, <3>2, RangeAppend DEF Send
      <4> QED
        BY <1>5, <3>2, <3>9, <4>1
    <3>11. \A p \in Ops \ {o} : /\ p \in applied' <=> p \in applied
                                /\ p \in stale => p \in stale' \/ ops[p].pc = "done"
      BY <1>1, <3>7
    <3>12. /\ ops'[o].uuid \in Uuids => ops'[o].uuid \in Range(ops'[o].seen)
           /\ ops'[o].kind = "truncate" => Len(ops'[o].seen) > Keep
      <4>1. ops[o].uuid \in Uuids => \E i \in DOMAIN seen : seen[i] = ops[o].uuid
        BY <2>5 DEF NotThere, Names, FindIndex
      <4>2. ops[o].kind = "truncate" => ~(Len(seen) <= Keep)
        BY <2>5 DEF NothingToDo
      <4>3. Len(seen) \in Nat /\ Keep \in Nat
        BY <1>4, OpsAssumption
      <4> QED
        BY <3>5, <3>8, <4>1, <4>2, <4>3 DEF Range
    <3>13. o \notin stale' => Begins(ops'[o].seen, mm)
      <4>1. o \notin stale' => o \notin stale
        BY <1>1, <3>5, <3>8
      <4>2. o \notin stale => Begins(seen, mm)
        BY <1>4, <1>9 DEF EditInv, FreshInv, seen
      <4> QED
        BY <3>5, <3>8, <4>1, <4>2
    <3>14. Makes(o)' => ops'[o].new = Fresh /\ Fresh \in Uuids /\ made' = Fresh
      BY <3>1, <3>3, <3>5, <3>8 DEF Makes, CanMake
    <3>15. ops'[o].pc = "editing" /\ made' \in {made, Fresh}
      BY <3>1, <3>5, <3>8
    <3> HIDE DEF makes
    <3> QED
      BY <1>1, <1>4, <1>5, <3>7, <3>10, <3>11, <3>12, <3>13, <3>14, <3>15, OneGoesOn
  <2> QED
    BY <1>4, <2>1, <2>2, <2>3, <2>4, <2>5 DEF OpStates, Reads
<1>10. CASE /\ ops[o].pc = "rereading" /\ ops' = [ops EXCEPT ![o].pc = "editing"]
            /\ Send(waiting, Read(o, "get_roles")) /\ UNCHANGED made
  <2>1. ops[o].kind = "snapshot"
    BY <1>2, <1>10 DEF TypeInv, ShapeInv
  <2> QED
    BY <1>7, <1>10, <2>1 DEF Reads
<1>11. CASE /\ ops[o].pc = "editing"
            /\ Finish(o, IF ops[o].kind \in Reads THEN "unchanged" ELSE "ok")
            /\ pending' = waiting /\ UNCHANGED <<wire, made>>
  BY <1>8, <1>11
<1> QED
  BY <1>3, <1>9, <1>10, <1>11 DEF OnData, seen

LEMMA EditInit == Init => EditInv
<1> SUFFICES ASSUME Init PROVE EditInv
  OBVIOUS
<1>1. /\ wire = <<>> /\ answers = <<>> /\ ops = [o \in Ops |-> Off] /\ Range(<<>>) = {}
      /\ (mm = <<1>> /\ made = 1) \/ (mm = <<1, 3>> /\ made = 3)
  BY DEF Init, Range
<1>2. \A o \in Ops : ops[o] = Off /\ ops[o].pc = "off"
  BY <1>1 DEF Off
<1>3. OffInv /\ RestInv /\ NewInv /\ SentInv /\ SeenInv /\ FreshInv
  BY <1>1, <1>2 DEF OffInv, RestInv, NewInv, SentInv, SeenInv, FreshInv, UnderWay, Edited, Makes
<1>4. DistinctInv
  <2>1. CASE mm = <<1>> /\ made = 1
    BY <2>1 DEF DistinctInv, IsInjective
  <2>2. CASE mm = <<1, 3>> /\ made = 3
    BY <2>2 DEF DistinctInv, IsInjective
  <2> QED
    BY <1>1, <2>1, <2>2
<1> QED
  BY <1>3, <1>4 DEF EditInv

LEMMA EditStep == SurgeryInv /\ EditInv /\ [Next]_vars => EditInv'
<1> SUFFICES ASSUME SurgeryInv, EditInv, [Next]_vars PROVE EditInv'
  OBVIOUS
<1>1. CASE ConnectIpc
  BY <1>1, ConnectKeepsEdits
<1>2. CASE OnData
  BY <1>2, OnDataKeepsEdits
<1>3. CASE RunCmd
  BY <1>3, RunKeepsEdits
<1>4. ASSUME NEW o \in Ops, HandleContext(o) \/ SendAnswer(o) \/ Snapshot(o)
      PROVE  EditInv'
  <2>1. CASE Snapshot(o)
    <3>1. /\ ipc = "on" /\ ops[o].pc = "off" /\ BeginIpc(o, "snapshot", End)
          /\ UNCHANGED <<made, stale, applied>>
      BY <2>1 DEF Snapshot
    <3>2. "snapshot" \in Reads \cup Edits
      BY DEF Reads
    <3> QED
      BY <3>1, <3>2, BeginKeepsEdits
  <2> QED
    BY <1>4, <2>1, HandleContextKeepsEdits, SendAnswerKeepsEdits
<1>5. CASE TurnBegins \/ TurnSpeaks
  <2>1. UNCHANGED <<ipc, wire, answers, ops, stale, applied>>
    BY <1>5 DEF TurnBegins, TurnSpeaks
  <2>2. \/ mm' = mm /\ made' \in {made, Fresh}
        \/ mm' = Append(mm, Fresh) /\ made' = Fresh
    BY <1>5 DEF TurnBegins, TurnSpeaks, AddMessage
  <2> QED
    BY <2>1, <2>2, MessagesGrow
<1>6. CASE TurnCompacts
  BY <1>6, CompactKeepsEdits
<1>7. CASE TurnEnds \/ SnapshotDone \/ ForkBegins \/ ForkFails \/ BackgroundTold \/ UNCHANGED vars
  <2>1. UNCHANGED <<ipc, wire, answers, ops, stale, applied>> /\ mm' = mm /\ made' = made
    BY <1>7 DEF TurnEnds, SnapshotDone, ForkBegins, ForkFails, BackgroundTold, vars, ipcVars, surgeryVars
  <2> QED
    BY <2>1, MessagesGrow
<1>8. CASE IpcBreaks \/ ForkSucceeds
  BY <1>8, RejectKeepsEdits DEF IpcBreaks, ForkSucceeds
<1>9. CASE BackgroundEnds
  BY <1>9, BackgroundEndsKeepsEdits
<1> QED
  BY <1>1, <1>2, <1>3, <1>4, <1>5, <1>6, <1>7, <1>8, <1>9 DEF Next

\* Only running a command adds an answer.
LEMMA OnlyRunCmdAnswers ==
  ASSUME LiveTypes, [Next]_vars, Len(answers') = Len(answers) + 1
  PROVE  RunCmd
<1>1. answers \in Seq(AnswerTypes) /\ Len(answers) \in Nat
  BY DEF LiveTypes
<1>2. answers' # answers /\ answers' # <<>>
  <2>1. Len(<<>>) = 0
    OBVIOUS
  <2> QED
    BY <1>1, <2>1
<1>3. ~OnData
  <2> SUFFICES ASSUME OnData PROVE FALSE
    OBVIOUS
  <2>1. answers # <<>> /\ answers' = Tail(answers)
    BY DEF OnData
  <2>2. Len(Tail(answers)) = Len(answers) - 1
    BY <1>1, <2>1, HeadTailProperties
  <2> QED
    BY <1>1, <2>1, <2>2
<1>4. ~(ConnectIpc \/ TurnBegins \/ TurnSpeaks \/ TurnCompacts \/ TurnEnds \/ SnapshotDone)
  BY <1>2 DEF ConnectIpc, TurnBegins, TurnSpeaks, TurnCompacts, TurnEnds, SnapshotDone, ipcVars
<1>5. ~(IpcBreaks \/ ForkBegins \/ ForkSucceeds \/ ForkFails \/ BackgroundTold \/ UNCHANGED vars)
  BY <1>2 DEF IpcBreaks, ForkBegins, ForkSucceeds, ForkFails, BackgroundTold, Reject, vars, ipcVars
<1>6. ~BackgroundEnds
  BY <1>2 DEF BackgroundEnds, BeginIpc, ipcVars
<1>7. \A o \in Ops : ~(HandleContext(o) \/ SendAnswer(o) \/ Snapshot(o))
  BY <1>2 DEF HandleContext, SendAnswer, Snapshot, BeginIpc, ipcVars
<1> QED
  BY <1>3, <1>4, <1>5, <1>6, <1>7 DEF Next

(***************************************************************************)
(* An edit changes the messages it names and no others, although it goes   *)
(* by the positions that were read one call earlier and the turn goes on   *)
(* adding messages meanwhile: for every kind of edit, any number of        *)
(* operations and messages.  Only a compaction or the splice of another    *)
(* operation in between (stale) may make it hit others.                    *)
(***************************************************************************)
THEOREM LiveSurgeryExactAlways == Spec => LiveSurgeryExact
<1>1. ASSUME SurgeryInv, EditInv, [Next]_vars
      PROVE  [\A o \in Ops : Changes(o) /\ o \notin stale => DoesAsAsked(o)]_vars
  <2> SUFFICES ASSUME NEW o \in Ops, Changes(o), o \notin stale PROVE DoesAsAsked(o)
    OBVIOUS
  <2>1. LiveTypes /\ ShapeInv /\ SeenInv
    BY <1>1 DEF SurgeryInv, TypeInv, EditInv
  <2>2. RunCmd
    BY <1>1, <2>1, OnlyRunCmdAnswers DEF Changes
  <2>3. PICK c : c = Head(wire)
    OBVIOUS
  <2>4. c \in Range(wire) /\ c.op = o /\ c.cmd \in {"splice", "push"} /\ mm' = Effect(c)
    <3>1. wire # <<>> /\ wire \in Seq(Commands)
      BY <2>1 DEF Changes, LiveTypes
    <3>2. c \in Range(wire)
      BY <2>3, <3>1, RangeTail
    <3> QED
      BY <2>2, <2>3, <3>2 DEF Changes, RunCmd, HandleCmd
  <2>5. Edited(o) /\ o \notin applied
    BY <1>1, <2>4 DEF SurgeryInv, AppliedInv, WrittenInv
  <2>6. c = EditOf(o) /\ IsInjective(mm) /\ Begins(ops[o].seen, mm) /\ (Makes(o) => ops[o].new \in Uuids)
    BY <1>1, <2>4, <2>5 DEF EditInv, SentInv, DistinctInv, FreshInv, NewInv
  <2> QED
    BY <2>1, <2>4, <2>5, <2>6, EditDoesAsAsked
<1>2. Spec => [](SurgeryInv /\ EditInv)
  <2>1. Init => SurgeryInv /\ EditInv
    BY SurgeryInit, EditInit
  <2>2. SurgeryInv /\ EditInv /\ [Next]_vars => (SurgeryInv /\ EditInv)'
    BY SurgeryStep, EditStep
  <2> QED
    BY <2>1, <2>2, PTL DEF Spec
<1> QED
  BY <1>1, <1>2, PTL DEF Spec, LiveSurgeryExact
-----------------------------------------------------------------------------
(***************************************************************************)
(* The transcript.  It is a tree (TranscriptProofs), of messages that have *)
(* been made: so is every file the operations and the turns make of it.    *)
(***************************************************************************)
FileInv == Tree(file) /\ \A u \in UuidsOf(file) : u <= made

LEMMA WidenedIs ==
  ASSUME NEW s \in Seq(Uuids), NEW n \in Nat, n = Len(s), NEW f \in Nat, f <= n, NEW e \in Uuids
  PROVE  SubSeq(s, 1, f) \o <<e>> \o SubSeq(s, f + 1, n) = Widened(s, f, e)
<1> DEFINE r == PutAfter(s, f, n, e)
<1>1. /\ r \in Seq(Uuids) /\ Len(r) = n + 1
      /\ \A i \in 1 .. f : r[i] = s[i]
      /\ r[f + 1] = e
      /\ \A i \in 1 .. n - f : r[(f + 1) + i] = s[f + i]
  <2>1. IsPutAfter(r, s, f, n, e)
    BY PutInAt
  <2> HIDE DEF r
  <2> QED
    BY <2>1 DEF IsPutAfter
<1> HIDE DEF r
<1>2. ASSUME NEW i \in 1 .. n + 1 PROVE r[i] = IF i <= f THEN s[i] ELSE IF i = f + 1 THEN e ELSE s[i - 1]
  <2>1. CASE i <= f
    BY <1>1, <2>1
  <2>2. CASE i = f + 1
    BY <1>1, <2>2
  <2>3. CASE i > f + 1
    <3>1. /\ i - (f + 1) \in 1 .. n - f /\ (f + 1) + (i - (f + 1)) = i /\ f + (i - (f + 1)) = i - 1
          /\ ~(i <= f) /\ i # f + 1
      BY <2>3
    <3>2. r[(f + 1) + (i - (f + 1))] = s[f + (i - (f + 1))]
      BY <1>1, <3>1
    <3> QED
      BY <3>1, <3>2
  <2> QED
    BY <2>1, <2>2, <2>3
<1>3. r = [i \in 1 .. n + 1 |-> r[i]]
  <2>1. \A q \in Seq(Uuids) : q = [i \in 1 .. Len(q) |-> q[i]]
    OBVIOUS
  <2> QED
    BY <1>1, <2>1
<1>4. Widened(s, f, e) = [i \in 1 .. n + 1 |-> IF i <= f THEN s[i] ELSE IF i = f + 1 THEN e ELSE s[i - 1]]
  BY DEF Widened
<1>5. r = Widened(s, f, e)
  BY <1>2, <1>3, <1>4
<1> QED
  BY <1>5 DEF r, PutAfter

LEMMA UuidsAreNumbers == \A u \in Uuids : u \in Nat /\ u # 0
<1>1. Cardinality(Uuids) \in Nat
  BY UuidsAssumption, FS_CardinalityType
<1> QED
  BY <1>1, UuidsAssumption

\* A message that is to be made is not in the file.
LEMMA FreshInFile ==
  ASSUME LiveTypes, FileInv
  PROVE  /\ Fresh \notin UuidsOf(file) /\ UuidsOf(file) \subseteq Uuids
         /\ \A u \in UuidsOf(file) : u \in Nat /\ u <= Fresh
         /\ made \in Nat /\ Fresh = made + 1
<1>1. UuidsOf(file) \subseteq Uuids
  BY RecordTyped DEF FileInv, UuidsOf
<1>2. made \in Nat /\ Fresh = made + 1
  BY DEF LiveTypes, Fresh
<1>3. \A u \in UuidsOf(file) : u \in Nat /\ u <= made
  BY <1>1, UuidsAreNumbers DEF FileInv
<1> QED
  BY <1>1, <1>2, <1>3

LEMMA FileGrows ==
  ASSUME LiveTypes, FileInv, CanMake, made' = Fresh, NEW r \in Records, r.uuid = Fresh,
         r.parent \in UuidsOf(file) \cup {Root}, file' = Append(file, r)
  PROVE  FileInv'
<1>1. Tree(file') /\ UuidsOf(file') = UuidsOf(file) \cup {Fresh}
  BY FreshInFile, Appended DEF FileInv
<1>2. \A u \in UuidsOf(file') : u <= made'
  BY <1>1, FreshInFile
<1>3. FileInv' <=> Tree(file') /\ \A u \in UuidsOf(file') : u <= made'
  BY DEF FileInv
<1> QED
  BY <1>1, <1>2, <1>3

LEMMA MessageTyped ==
  ASSUME NEW u \in Uuids, NEW p \in Uuids \cup {Root}, NEW type \in Kinds
  PROVE  /\ Message(u, p, type) \in Records
         /\ Message(u, p, type).uuid = u /\ Message(u, p, type).parent = p
         /\ [Message(u, p, type) EXCEPT !.isSidechain = TRUE] \in Records
         /\ [Message(u, p, type) EXCEPT !.isSidechain = TRUE].uuid = u
         /\ [Message(u, p, type) EXCEPT !.isSidechain = TRUE].parent = p
BY DEF Message, Records

LEMMA AddMessageKeepsFile ==
  ASSUME LiveTypes, FileInv, NEW type \in Kinds, AddMessage(type)
  PROVE  FileInv'
<1>1. CanMake /\ made' = Fresh /\ file' = Append(file, Message(Fresh, LastOfChain, type)) /\ Fresh \in Uuids
  BY DEF AddMessage, CanMake
<1>2. LastOfChain \in UuidsOf(file) \cup {Root}
  <2> DEFINE c == ReadSessionChain(file)
  <2>1. IsChain(file, c)
    BY BuildChainIs DEF FileInv
  <2> HIDE DEF c
  <2>2. c \in Seq(Uuids) /\ \A i \in 1 .. Len(c) : c[i] \in UuidsOf(file)
    BY <2>1, ChainTyped
  <2>3. c # <<>> => Len(c) \in 1 .. Len(c)
    BY <2>2
  <2> QED
    BY <2>2, <2>3 DEF LastOfChain, Last, c
<1>3. LastOfChain \in Uuids \cup {Root}
  BY <1>2, FreshInFile
<1>4. /\ Message(Fresh, LastOfChain, type) \in Records
      /\ Message(Fresh, LastOfChain, type).uuid = Fresh
      /\ Message(Fresh, LastOfChain, type).parent = LastOfChain
  BY <1>1, <1>3 DEF Message, Records
<1> QED
  BY <1>1, <1>2, <1>4, FileGrows

LEMMA TurnKeepsFile ==
  ASSUME LiveTypes, FileInv, TurnBegins \/ TurnSpeaks \/ TurnCompacts
  PROVE  FileInv'
<1>1. "user" \in Kinds /\ "assistant" \in Kinds /\ "system" \in Kinds
  BY DEF Kinds
<1>2. UNCHANGED <<made, file>> => FileInv'
  BY DEF FileInv
<1>3. CASE TurnBegins
  BY <1>1, <1>2, <1>3, AddMessageKeepsFile DEF TurnBegins
<1>4. CASE TurnSpeaks
  <2>1. CASE AddMessage("assistant")
    BY <1>1, <2>1, AddMessageKeepsFile
  <2> DEFINE r == [Message(Fresh, Root, "assistant") EXCEPT !.isSidechain = TRUE]
  <2>2. CASE CanMake /\ made' = Fresh /\ file' = Append(file, r)
    <3>1. Fresh \in Uuids
      BY <2>2 DEF CanMake
    <3>2. r \in Records /\ r.uuid = Fresh /\ r.parent = Root
      BY <1>1, <3>1 DEF Message, Records
    <3> HIDE DEF r
    <3> QED
      BY <2>2, <3>2, FileGrows
  <2> QED
    BY <1>4, <2>1, <2>2 DEF TurnSpeaks
<1>5. CASE TurnCompacts
  <2> DEFINE r == Message(Fresh, Root, "system")
  <2>1. CanMake /\ made' = Fresh /\ file' = Append(file, r) /\ Fresh \in Uuids
    BY <1>5 DEF TurnCompacts, CanMake
  <2>2. r \in Records /\ r.uuid = Fresh /\ r.parent = Root
    BY <1>1, <2>1 DEF Message, Records
  <2> HIDE DEF r
  <2> QED
    BY <2>1, <2>2, FileGrows
<1> QED
  BY <1>3, <1>4, <1>5

\* What an operation on the transcript makes of the file.
LEMMA JsonlKeepsFile ==
  ASSUME LiveTypes, FileInv, NEW o \in Ops,
         NEW kind \in {"get_context", "get_stats", "remove", "inject", "truncate", "rewind"},
         NEW u \in Uuids \cup {Start, End}, Jsonl(o, kind, u)
  PROVE  FileInv'
<1>1. UNCHANGED <<made, file>> => FileInv'
  BY DEF FileInv
<1>2. FileInv' <=> Tree(file') /\ \A x \in UuidsOf(file') : x <= made'
  BY DEF FileInv
<1>3. Tree(file) /\ \A x \in UuidsOf(file) : x <= made
  BY DEF FileInv
<1>4. CASE kind \in Reads \cup {"rewind"}
  BY <1>1, <1>4 DEF Jsonl, Reads
<1>5. CASE kind = "remove"
  <2>1. made' = made /\ (UNCHANGED file \/ (u \in UuidsOf(file) /\ file' = RemoveMessage(file, u)))
    BY <1>5 DEF Jsonl, Reads
  <2>2. ASSUME u \in UuidsOf(file), file' = RemoveMessage(file, u) PROVE FileInv'
    <3>1. PICK d \in DOMAIN file : file[d].uuid = u
      BY <2>2 DEF UuidsOf
    <3>2. Tree(file') /\ UuidsOf(file') = UuidsOf(file) \ {u}
      BY <1>3, <2>2, <3>1, RemovedTree
    <3> QED
      BY <1>2, <1>3, <2>1, <3>2
  <2> QED
    BY <1>1, <2>1, <2>2
<1>6. CASE kind = "inject"
  <2>1. \/ UNCHANGED <<made, file>>
        \/ /\ u \in UuidsOf(file) \cup {Start, End} /\ CanMake /\ made' = Fresh
           /\ file' = InjectMessage(file, Fresh, u)
    BY <1>6 DEF Jsonl, Reads
  <2>2. ASSUME u \in UuidsOf(file) \cup {Start, End}, CanMake, made' = Fresh,
               file' = InjectMessage(file, Fresh, u)
        PROVE  FileInv'
    <3>1. Fresh \in Uuids /\ Fresh \notin UuidsOf(file)
      BY <2>2, FreshInFile DEF CanMake
    <3>2. Tree(file') /\ UuidsOf(file') = UuidsOf(file) \cup {Fresh}
      BY <1>3, <2>2, <3>1, InjectIs
    <3> QED
      BY <1>2, <2>2, <3>2, FreshInFile
  <2> QED
    BY <1>1, <2>1, <2>2
<1>7. CASE kind = "truncate"
  <2>1. made' = made /\ (UNCHANGED file \/ file' = TruncateToLastN(file, Keep))
    BY <1>7 DEF Jsonl, Reads
  <2>2. ASSUME file' = TruncateToLastN(file, Keep) PROVE FileInv'
    <3>1. Tree(file') /\ UuidsOf(file') \subseteq UuidsOf(file)
      BY <1>3, <2>2, TruncateIs, OpsAssumption
    <3> QED
      BY <1>2, <1>3, <2>1, <3>1
  <2> QED
    BY <1>1, <2>1, <2>2
<1> QED
  BY <1>4, <1>5, <1>6, <1>7 DEF Reads

LEMMA FileInit == Init => FileInv
<1> SUFFICES ASSUME Init PROVE FileInv
  OBVIOUS
<1>1. 1 \in Uuids /\ 2 \in Uuids /\ 3 \in Uuids /\ Root \notin Uuids
  <2>1. Cardinality(Uuids) \in Nat
    BY UuidsAssumption, FS_CardinalityType
  <2> QED
    BY <2>1, UuidsAssumption, UuidAssumption
<1> DEFINE r1 == Message(1, Root, "user")
           r2 == Message(2, 1, "assistant")
           r3 == Message(3, 1, "user")
           rank == [u \in Uuids |-> IF u = 1 THEN 0 ELSE 1]
<1>2. /\ r1 \in Records /\ r1.uuid = 1 /\ r1.parent = Root
      /\ r2 \in Records /\ r2.uuid = 2 /\ r2.parent = 1
      /\ r3 \in Records /\ r3.uuid = 3 /\ r3.parent = 1
  BY <1>1 DEF Message, Records, Kinds
<1>3. rank \in [Uuids -> Nat] /\ rank[1] = 0 /\ rank[2] = 1 /\ rank[3] = 1
  BY <1>1
<1>4. (file = <<r1>> /\ made = 1) \/ (file = <<r1, r2, r3>> /\ made = 3)
  BY DEF Init
<1> HIDE DEF r1, r2, r3, rank
<1>5. CASE file = <<r1>> /\ made = 1
  <2>1. file \in Seq(Records) /\ DOMAIN file = {1} /\ file[1] = r1
    BY <1>2, <1>5
  <2>2. UuidsOf(file) = {1}
    BY <1>2, <2>1 DEF UuidsOf
  <2>3. Ranks(file, rank)
    BY <1>2, <1>3, <2>1 DEF Ranks
  <2>4. Tree(file)
    BY <1>2, <2>1, <2>2, <2>3 DEF Tree
  <2> QED
    BY <1>5, <2>2, <2>4 DEF FileInv
<1>6. CASE file = <<r1, r2, r3>> /\ made = 3
  <2>1. file \in Seq(Records) /\ DOMAIN file = {1, 2, 3} /\ file[1] = r1 /\ file[2] = r2 /\ file[3] = r3
    <3>1. file \in Seq(Records) /\ Len(file) = 3 /\ file[1] = r1 /\ file[2] = r2 /\ file[3] = r3
      BY <1>2, <1>6
    <3>2. DOMAIN file = 1 .. 3
      BY <3>1
    <3>3. 1 .. 3 = {1, 2, 3}
      OBVIOUS
    <3> QED
      BY <3>1, <3>2, <3>3
  <2>2. UuidsOf(file) = {1, 2, 3}
    BY <1>2, <2>1 DEF UuidsOf
  <2>3. Ranks(file, rank)
    BY <1>2, <1>3, <2>1 DEF Ranks
  <2>4. \A i, j \in DOMAIN file : file[i].uuid = file[j].uuid => i = j
    BY <1>2, <2>1
  <2>5. \A i \in DOMAIN file : file[i].parent \in UuidsOf(file) \cup {Root}
    BY <1>2, <2>1, <2>2
  <2>6. Tree(file)
    BY <2>1, <2>3, <2>4, <2>5 DEF Tree
  <2> QED
    BY <1>6, <2>2, <2>6 DEF FileInv
<1> QED
  BY <1>4, <1>5, <1>6

LEMMA FileStep == LiveTypes /\ FileInv /\ [Next]_vars => FileInv'
<1> SUFFICES ASSUME LiveTypes, FileInv, [Next]_vars PROVE FileInv'
  OBVIOUS
<1>1. ASSUME file' = file, made' \in {made, Fresh} PROVE FileInv'
  <2>1. \A u \in UuidsOf(file) : u <= made /\ u <= Fresh
    BY FreshInFile DEF FileInv
  <2> QED
    BY <1>1, <2>1 DEF FileInv
<1>2. CASE UNCHANGED vars
  BY <1>1, <1>2 DEF vars, surgeryVars
<1>3. CASE ConnectIpc \/ RunCmd \/ TurnEnds \/ SnapshotDone
  BY <1>1, <1>3 DEF ConnectIpc, RunCmd, TurnEnds, SnapshotDone, surgeryVars
<1>4. CASE OnData
  <2>1. file' = file
    BY <1>4 DEF OnData
  <2>2. made' \in {made, Fresh}
    BY <1>4, Zenon DEF OnData, ReadAnswered
  <2> QED
    BY <1>1, <2>1, <2>2
<1>5. CASE TurnBegins \/ TurnSpeaks \/ TurnCompacts
  BY <1>5, TurnKeepsFile
<1>6. CASE IpcBreaks \/ ForkBegins \/ ForkSucceeds \/ ForkFails \/ BackgroundTold
  BY <1>1, <1>6 DEF IpcBreaks, ForkBegins, ForkSucceeds, ForkFails, BackgroundTold
<1>7. CASE BackgroundEnds
  BY <1>1, <1>7 DEF BackgroundEnds
<1>8. ASSUME NEW o \in Ops, SendAnswer(o) \/ Snapshot(o) PROVE FileInv'
  BY <1>1, <1>8 DEF SendAnswer, Snapshot
<1>9. ASSUME NEW o \in Ops, HandleContext(o) PROVE FileInv'
  <2>1. PICK kind \in {"get_context", "get_stats", "remove", "inject", "truncate", "rewind"},
             u \in Uuids \cup {Start, End} :
          UNCHANGED <<file, made>> \/ Jsonl(o, kind, u)
    BY <1>9 DEF HandleContext
  <2> QED
    BY <1>1, <2>1, JsonlKeepsFile
<1> QED
  BY <1>2, <1>3, <1>4, <1>5, <1>6, <1>7, <1>8, <1>9 DEF Next

LEMMA SurgeryAndFile == Spec => [](SurgeryInv /\ EditInv /\ FileInv)
<1>1. Init => SurgeryInv /\ EditInv /\ FileInv
  BY SurgeryInit, EditInit, FileInit
<1>2. SurgeryInv /\ EditInv /\ FileInv /\ [Next]_vars => (SurgeryInv /\ EditInv /\ FileInv)'
  BY SurgeryStep, EditStep, FileStep DEF SurgeryInv, TypeInv
<1> QED
  BY <1>1, <1>2, PTL DEF Spec

(***************************************************************************)
(* The transcript is a tree whatever the operations and the turns do to    *)
(* it: uuids are distinct, every parent is there, and going up from parent *)
(* to parent ends.  So the check of buildChain() for a message it has      *)
(* already visited never finds one.                                        *)
(***************************************************************************)
THEOREM TranscriptIsTree == Spec => []Tree(file)
<1>1. FileInv => Tree(file)
  BY DEF FileInv
<1> QED
  BY <1>1, SurgeryAndFile, PTL

\* Every variable has its type, the transcript included.
THEOREM TypesAlways == Spec => []TypeOK
<1>1. SurgeryInv /\ FileInv => TypeOK
  <2> SUFFICES ASSUME SurgeryInv, FileInv PROVE TypeOK
    OBVIOUS
  <2>1. LiveTypes /\ file \in Seq(Records)
    BY DEF SurgeryInv, TypeInv, FileInv, Tree
  <2>2. \A i \in DOMAIN wire : wire[i] \in Commands
    <3>1. wire \in Seq(Commands)
      BY <2>1 DEF LiveTypes
    <3> QED
      BY <3>1
  <2> QED
    BY <2>1, <2>2 DEF LiveTypes, TypeOK, IpcTypeOK, AnswerTypes, OpStates
<1> QED
  BY <1>1, SurgeryAndFile, PTL
-----------------------------------------------------------------------------
(***************************************************************************)
(* What the operations make of the conversation on disk.                   *)
(***************************************************************************)
\* The operation, being asked to, has done what it was asked to.
FileExact(o) ==
  LET u == ops'[o].uuid
      new == ops'[o].new
      idx == FindIndex(Chain, u) + 1
  IN  CASE ops'[o].kind = "remove" ->
             idx > 0 /\ (Last(Chain) # u \/ Cardinality(AllLeaves(file)) = 1) =>
               Chain' = Picked(Chain, {i \in DOMAIN Chain : Chain[i] # u})
        [] ops'[o].kind = "inject" ->
             /\ u = Start => Chain' = <<new>> \o Chain
             /\ u = End => Chain' = Append(Chain, new)
             /\ idx > 0 => Chain' = InsertAt(Chain, idx + 1, new)
        [] ops'[o].kind = "truncate" -> /\ IsSuffix(Chain', Chain)
                                        /\ 1 \in Spoken' /\ Cardinality(Spoken') = 2 * Keep

\* What stands in the conversation, and where.
LEMMA ChainOfFile ==
  ASSUME FileInv
  PROVE  /\ Chain \in Seq(Uuids) /\ IsInjective(Chain) /\ IsChain(file, Chain)
         /\ Len(Chain) \in Nat /\ DOMAIN Chain = 1 .. Len(Chain)
<1>1. Tree(file) /\ IsChain(file, Chain)
  BY BuildChainIs DEF FileInv, Chain
<1>2. Chain \in Seq(Uuids) /\ Len(Chain) \in Nat /\ DOMAIN Chain = 1 .. Len(Chain)
  BY <1>1, ChainTyped
<1>3. \A i, j \in 1 .. Len(Chain) : Chain[i] = Chain[j] => i = j
  BY <1>1, ChainShape
<1> QED
  BY <1>1, <1>2, <1>3 DEF IsInjective

LEMMA FoundInChain ==
  ASSUME FileInv, NEW u, FindIndex(Chain, u) + 1 > 0
  PROVE  \E k \in 1 .. Len(Chain) : Chain[k] = u /\ FindIndex(Chain, u) + 1 = k
<1>1. \E k \in DOMAIN Chain : Chain[k] = u
  <2> SUFFICES ASSUME ~(\E k \in DOMAIN Chain : Chain[k] = u) PROVE FALSE
    OBVIOUS
  <2>1. FindIndex(Chain, u) = -1
    BY DEF FindIndex
  <2> QED
    BY <2>1
<1>2. PICK k \in 1 .. Len(Chain) : Chain[k] = u
  BY <1>1, ChainOfFile
<1>3. FindIndex(Chain, u) = k - 1
  BY <1>2, ChainOfFile, FindsIt
<1>4. FindIndex(Chain, u) + 1 = k
  <2>1. k \in Nat
    BY <1>2, ChainOfFile
  <2> QED
    BY <1>3, <2>1
<1> QED
  BY <1>2, <1>4

LEMMA RemoveExact ==
  ASSUME FileInv, NEW u, FindIndex(Chain, u) + 1 > 0,
         Last(Chain) # u \/ Cardinality(AllLeaves(file)) = 1
  PROVE  ReadSessionChain(RemoveMessage(file, u)) = Picked(Chain, {i \in DOMAIN Chain : Chain[i] # u})
<1>1. PICK k \in 1 .. Len(Chain) : Chain[k] = u
  BY FoundInChain
<1>2. /\ Chain \in Seq(Uuids) /\ IsChain(file, Chain) /\ Len(Chain) \in Nat /\ DOMAIN Chain = 1 .. Len(Chain)
      /\ \A i \in DOMAIN Chain : Chain[i] = u => i = k
  BY <1>1, ChainOfFile DEF IsInjective
<1>3. k < Len(Chain) \/ Cardinality(AllLeaves(file)) = 1
  <2>1. k < Len(Chain) \/ k = Len(Chain)
    <3>1. \A m \in Nat : \A i \in 1 .. m : i < m \/ i = m
      OBVIOUS
    <3> QED
      BY <1>2, <3>1
  <2> QED
    BY <1>1, <2>1 DEF Last
<1>4. ReadSessionChain(RemoveMessage(file, u)) = Narrowed(Chain, k)
  BY <1>1, <1>2, <1>3, RemovedFromChain DEF FileInv
<1>5. {i \in DOMAIN Chain : Chain[i] # u} = DOMAIN Chain \ {k}
  BY <1>1, <1>2
<1>6. Picked(Chain, DOMAIN Chain \ {k}) =
        [i \in 1 .. Len(Chain) - 1 |-> IF i < k THEN Chain[i] ELSE Chain[i + 1]]
  BY <1>2, PickedOthers
<1>7. Narrowed(Chain, k) = [i \in 1 .. Len(Chain) - 1 |-> IF i < k THEN Chain[i] ELSE Chain[i + 1]]
  <2>1. \A i \in 1 .. Len(Chain) - 1 : Chain[Behind(k, i)] = IF i < k THEN Chain[i] ELSE Chain[i + 1]
    BY DEF Behind
  <2> QED
    BY <2>1 DEF Narrowed
<1> QED
  BY <1>4, <1>5, <1>6, <1>7

LEMMA InjectExact ==
  ASSUME FileInv, NEW e \in Uuids, e \notin UuidsOf(file), NEW u \in UuidsOf(file) \cup {Start, End}
  PROVE  LET after == ReadSessionChain(InjectMessage(file, e, u))
             idx == FindIndex(Chain, u) + 1
         IN  /\ u = Start => after = <<e>> \o Chain
             /\ u = End => after = Append(Chain, e)
             /\ idx > 0 => after = InsertAt(Chain, idx + 1, e)
<1> DEFINE after == ReadSessionChain(InjectMessage(file, e, u))
<1>1. /\ u = Start => after = Widened(Chain, 0, e)
      /\ u = End => after = Append(Chain, e)
      /\ \A k \in 1 .. Len(Chain) : u = Chain[k] => after = Widened(Chain, k, e)
  BY InjectIs DEF FileInv, Chain
<1> HIDE DEF after
<1>2. Chain \in Seq(Uuids) /\ Len(Chain) \in Nat
  BY ChainOfFile
<1>3. Widened(Chain, 0, e) = <<e>> \o Chain
  <2>1. 0 \in Nat /\ 0 <= Len(Chain)
    BY <1>2
  <2>2. SubSeq(Chain, 1, 0) \o <<e>> \o SubSeq(Chain, 0 + 1, Len(Chain)) = Widened(Chain, 0, e)
    BY <1>2, <2>1, WidenedIs
  <2> QED
    BY <1>2, <2>2, AtTheEnds
<1>4. ASSUME FindIndex(Chain, u) + 1 > 0
      PROVE  after = InsertAt(Chain, FindIndex(Chain, u) + 1 + 1, e)
  <2>1. PICK k \in 1 .. Len(Chain) : Chain[k] = u /\ FindIndex(Chain, u) + 1 = k
    BY <1>4, FoundInChain
  <2>2. k \in Nat /\ k <= Len(Chain) /\ (k + 1) - 1 = k
    BY <1>2
  <2>3. SubSeq(Chain, 1, k) \o <<e>> \o SubSeq(Chain, k + 1, Len(Chain)) = Widened(Chain, k, e)
    BY <1>2, <2>2, WidenedIs
  <2>4. InsertAt(Chain, k + 1, e) = Widened(Chain, k, e)
    BY <2>2, <2>3 DEF InsertAt
  <2> QED
    BY <1>1, <2>1, <2>4
<1> QED
  BY <1>1, <1>3, <1>4 DEF after

LEMMA JsonlExact ==
  ASSUME LiveTypes, FileInv, NEW o \in Ops,
         NEW kind \in {"get_context", "get_stats", "remove", "inject", "truncate", "rewind"},
         NEW u \in Uuids \cup {Start, End}, Jsonl(o, kind, u), ops'[o].result = "ok"
  PROVE  FileExact(o)
<1> DEFINE Done(new) == [Off EXCEPT !.pc = "done", !.kind = kind, !.uuid = u, !.new = new, !.result = "ok"]
           Change(records, new) == file' = records /\ ops' = [ops EXCEPT ![o] = Done(new)]
           Unchanged == ops' = [ops EXCEPT ![o] = [Off EXCEPT !.pc = "done", !.result = "unchanged"]]
<1>1. ops \in [Ops -> OpStates] /\ Tree(file)
  BY DEF LiveTypes, FileInv
<1>2. ~Unchanged
  BY <1>1 DEF Off
<1>3. ASSUME NEW records, NEW new, Change(records, new)
      PROVE  /\ ops'[o].kind = kind /\ ops'[o].uuid = u /\ ops'[o].new = new
             /\ Chain' = ReadSessionChain(records)
  <2>1. ops'[o] = Done(new) /\ file' = records
    BY <1>1, <1>3
  <2> QED
    BY <2>1 DEF Off, Chain
<1> HIDE DEF Done, Unchanged
<1>4. CASE kind \in Reads \cup {"rewind"}
  BY <1>2, <1>4 DEF Jsonl, Reads, Finish, Unchanged
<1>5. CASE kind = "remove"
  <2>1. Change(RemoveMessage(file, u), Root)
    BY <1>2, <1>5 DEF Jsonl, Reads, Finish, Unchanged, Done
  <2> HIDE DEF Change
  <2>2. ops'[o].kind = "remove" /\ ops'[o].uuid = u /\ Chain' = ReadSessionChain(RemoveMessage(file, u))
    BY <1>3, <1>5, <2>1
  <2>3. FindIndex(Chain, u) + 1 > 0 /\ (Last(Chain) # u \/ Cardinality(AllLeaves(file)) = 1) =>
          Chain' = Picked(Chain, {i \in DOMAIN Chain : Chain[i] # u})
    BY <2>2, RemoveExact
  <2> QED
    BY <2>2, <2>3, Zenon DEF FileExact
<1>6. CASE kind = "inject"
  <2>1. /\ u \in UuidsOf(file) \cup {Start, End} /\ CanMake
        /\ Change(InjectMessage(file, Fresh, u), Fresh)
    BY <1>2, <1>6 DEF Jsonl, Reads, Finish, Unchanged, Done
  <2> HIDE DEF Change
  <2>2. /\ ops'[o].kind = "inject" /\ ops'[o].uuid = u /\ ops'[o].new = Fresh
        /\ Chain' = ReadSessionChain(InjectMessage(file, Fresh, u))
    BY <1>3, <1>6, <2>1
  <2>3. Fresh \in Uuids /\ Fresh \notin UuidsOf(file)
    BY <2>1, FreshInFile DEF CanMake
  <2>4. /\ u = Start => Chain' = <<Fresh>> \o Chain
        /\ u = End => Chain' = Append(Chain, Fresh)
        /\ FindIndex(Chain, u) + 1 > 0 => Chain' = InsertAt(Chain, FindIndex(Chain, u) + 1 + 1, Fresh)
    BY <2>1, <2>2, <2>3, InjectExact
  <2>5. ops'[o].kind # "remove"
    BY <2>2
  <2> QED
    BY <2>2, <2>4, <2>5, Zenon DEF FileExact
<1>7. CASE kind = "truncate"
  <2>1. Change(TruncateToLastN(file, Keep), Root) /\ TruncateToLastN(file, Keep) # file
    BY <1>2, <1>7 DEF Jsonl, Reads, Finish, Unchanged, Done
  <2>0. file' = TruncateToLastN(file, Keep)
    BY <2>1
  <2> HIDE DEF Change
  <2>2. ops'[o].kind = "truncate" /\ Chain' = ReadSessionChain(TruncateToLastN(file, Keep))
    BY <1>3, <1>7, <2>1
  <2>3. /\ IsSuffix(Chain', Chain)
        /\ 1 \in Spoken' /\ Cardinality(Spoken') = 2 * Keep
    <3>1. Spoken' = SpokenIn(file')
      BY DEF Spoken, Chain, SpokenIn
    <3> QED
      BY <1>1, <2>0, <2>1, <2>2, <3>1, TruncateIs, OpsAssumption DEF Chain
  <2>4. ops'[o].kind # "remove" /\ ops'[o].kind # "inject"
    BY <2>2
  <2> QED
    BY <2>2, <2>3, <2>4, Zenon DEF FileExact
<1> QED
  BY <1>4, <1>5, <1>6, <1>7 DEF Reads

\* Only a command on the transcript turns an operation that is off into one
\* that has made its change.
LEMMA OnlyJsonlChangesFile ==
  ASSUME SurgeryInv, EditInv, [Next]_vars, NEW o \in Ops, ChangesFile(o)
  PROVE  \E kind \in {"get_context", "get_stats", "remove", "inject", "truncate", "rewind"},
            u \in Uuids \cup {Start, End} : Jsonl(o, kind, u)
<1>1. ops \in [Ops -> OpStates] /\ pending \in Seq(Ops) /\ Merge \in Ops
  BY OpsAssumption DEF SurgeryInv, TypeInv, LiveTypes
<1>2. ops[o].pc = "off" /\ ops[o].result # "ok" /\ ops'[o].result = "ok"
  BY DEF ChangesFile, EditInv, RestInv, Off
<1>3. ops'[o] # ops[o] /\ o \notin UnderWay
  BY <1>2 DEF UnderWay
<1>4. ~(UNCHANGED vars \/ ConnectIpc \/ RunCmd \/ TurnBegins \/ TurnSpeaks \/ TurnCompacts \/ TurnEnds)
  BY <1>3 DEF vars, surgeryVars, ConnectIpc, RunCmd, TurnBegins, TurnSpeaks, TurnCompacts, TurnEnds
<1>5. ~(SnapshotDone \/ ForkBegins \/ ForkFails \/ BackgroundTold)
  BY <1>3 DEF SnapshotDone, ForkBegins, ForkFails, BackgroundTold
<1>6. ~(IpcBreaks \/ ForkSucceeds)
  BY <1>1, <1>3 DEF IpcBreaks, ForkSucceeds, Rejected
<1>7. ~OnData
  <2> SUFFICES ASSUME OnData PROVE FALSE
    OBVIOUS
  <2> DEFINE h == Head(pending)
  <2>1. pending # <<>> /\ h \in Ops /\ h \in UnderWay
    <3>1. pending # <<>> /\ Range(pending) = UnderWay
      BY DEF OnData, SurgeryInv, QueueInv
    <3> QED
      BY <1>1, <3>1, QueueTail DEF SurgeryInv, QueueInv
  <2>2. \E s : ops' = [ops EXCEPT ![h] = s]
    BY <1>1, <2>1, Zenon DEF OnData, ReadAnswered, Finish
  <2> HIDE DEF h
  <2> QED
    BY <1>1, <1>3, <2>1, <2>2
<1>8. ~BackgroundEnds
  <2> SUFFICES ASSUME BackgroundEnds PROVE FALSE
    OBVIOUS
  <2>1. \/ ops' = [ops EXCEPT ![Merge].pc = "reading", ![Merge].kind = "merge", ![Merge].uuid = End]
        \/ ops' = [ops EXCEPT ![Merge].pc = "editing", ![Merge].kind = "merge", ![Merge].new = Fresh]
        \/ ops' = ops
    BY DEF BackgroundEnds, BeginIpc
  <2>2. CASE ops' = [ops EXCEPT ![Merge].pc = "reading", ![Merge].kind = "merge", ![Merge].uuid = End]
    BY <1>1, <1>2, <2>2 DEF OpStates
  <2>3. CASE ops' = [ops EXCEPT ![Merge].pc = "editing", ![Merge].kind = "merge", ![Merge].new = Fresh]
    BY <1>1, <1>2, <2>3 DEF OpStates
  <2> QED
    BY <1>2, <2>1, <2>2, <2>3
<1>9. ASSUME NEW p \in Ops, BeginIpc(p, "snapshot", End) PROVE FALSE
  <2>1. ops' = [ops EXCEPT ![p].pc = "reading", ![p].kind = "snapshot", ![p].uuid = End]
    BY <1>9 DEF BeginIpc
  <2> QED
    BY <1>1, <1>2, <2>1 DEF OpStates
<1>10. \A p \in Ops : ~SendAnswer(p)
  <2> SUFFICES ASSUME NEW p \in Ops, SendAnswer(p) PROVE FALSE
    OBVIOUS
  <2>1. ops' = [ops EXCEPT ![p] = Off]
    BY DEF SendAnswer
  <2> QED
    BY <1>1, <1>2, <2>1 DEF Off
<1>11. PICK p \in Ops : HandleContext(p)
  BY <1>4, <1>5, <1>6, <1>7, <1>8, <1>9, <1>10 DEF Next, Snapshot
<1>12. PICK kind \in {"get_context", "get_stats", "remove", "inject", "truncate", "rewind"},
            u \in Uuids \cup {Start, End} :
         Finish(p, "unchanged") \/ Jsonl(p, kind, u) \/ BeginIpc(p, kind, u)
  BY <1>11 DEF HandleContext
<1>13. ~Finish(p, "unchanged")
  BY <1>1, <1>2 DEF Finish, Off
<1>14. ~BeginIpc(p, kind, u)
  <2> SUFFICES ASSUME BeginIpc(p, kind, u) PROVE FALSE
    OBVIOUS
  <2>1. ops' = [ops EXCEPT ![p].pc = "reading", ![p].kind = kind, ![p].uuid = u]
    BY DEF BeginIpc
  <2> QED
    BY <1>1, <1>2, <2>1 DEF OpStates
<1>15. p = o
  <2> SUFFICES ASSUME p # o PROVE FALSE
    OBVIOUS
  <2>1. \E s : ops' = [ops EXCEPT ![p] = s]
    <3>1. CASE kind \in {"get_context", "get_stats", "rewind"}
      BY <1>12, <1>13, <1>14, <3>1 DEF Jsonl, Reads, Finish
    <3>2. CASE kind = "remove"
      BY <1>12, <1>13, <1>14, <3>2 DEF Jsonl, Reads, Finish
    <3>3. CASE kind = "inject"
      BY <1>12, <1>13, <1>14, <3>3 DEF Jsonl, Reads, Finish
    <3>4. CASE kind = "truncate"
      BY <1>12, <1>13, <1>14, <3>4 DEF Jsonl, Reads, Finish
    <3> QED
      BY <3>1, <3>2, <3>3, <3>4
  <2> QED
    BY <1>1, <1>3, <2>1
<1> QED
  BY <1>12, <1>13, <1>14, <1>15

(***************************************************************************)
(* An operation on the transcript does to the conversation what it says:   *)
(* the removed message is gone and all others stay, the injected one       *)
(* stands where it was asked for, and a truncation leaves the end, with    *)
(* two messages for each of the turns to keep.  That holds for every file  *)
(* the operations and the turns can make, with its side chains and         *)
(* abandoned branches, and whatever the number of messages.                *)
(***************************************************************************)
THEOREM FileSurgeryExactAlways == Spec => FileSurgeryExact
<1>1. ASSUME SurgeryInv, EditInv, FileInv, [Next]_vars
      PROVE  [\A o \in Ops : ChangesFile(o) => FileExact(o)]_vars
  <2> SUFFICES ASSUME NEW o \in Ops, ChangesFile(o) PROVE FileExact(o)
    OBVIOUS
  <2>1. PICK kind \in {"get_context", "get_stats", "remove", "inject", "truncate", "rewind"},
             u \in Uuids \cup {Start, End} : Jsonl(o, kind, u)
    BY <1>1, OnlyJsonlChangesFile
  <2>2. LiveTypes /\ ops'[o].result = "ok"
    BY <1>1 DEF SurgeryInv, TypeInv, ChangesFile
  <2> QED
    BY <1>1, <2>1, <2>2, JsonlExact
<1> QED
  BY <1>1, SurgeryAndFile, PTL DEF Spec, FileSurgeryExact, FileExact
===============================================================================
