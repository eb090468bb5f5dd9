----------------------------- MODULE Transcript -----------------------------
(***************************************************************************)
(* runner/src/context.ts: the JSONL file of a conversation and the surgery *)
(* on it.  The file is the sequence of its records in the order they were  *)
(* written; a record names its parent, so that the records form a tree and *)
(* the conversation is the path from a root to the latest leaf.  Contents  *)
(* are left out: a message is its uuid.                                    *)
(***************************************************************************)
EXTENDS Integers, FiniteSets, SequencesExt

CONSTANTS
  Uuids,      \* the uuids of messages
  Root,       \* the parentUuid of a record without parent (null)
  Start, End  \* after_uuid of an injection: "__start__", and none at all

ASSUME UuidAssumption == {Root, Start, End} \cap Uuids = {} /\ Start # End

Kinds == {"user", "assistant", "system"}

Records == [uuid : Uuids, parent : Uuids \cup {Root}, type : Kinds, isSidechain : BOOLEAN]

UuidsOf(records) == {records[i].uuid : i \in DOMAIN records}

\* The uuids some record names as its parent.
HasChildren(records) == {records[i].parent : i \in DOMAIN records}

Lookup(records, u) == CHOOSE i \in DOMAIN records : records[i].uuid = u

(***************************************************************************)
(* buildChain(): the leaves of the main conversation, or all leaves if it  *)
(* has none; the last of them in the file; and from it back to the root.   *)
(***************************************************************************)
AllLeaves(records) == {i \in DOMAIN records : records[i].uuid \notin HasChildren(records)}

Leaves(records) ==
  LET main == {i \in AllLeaves(records) : ~records[i].isSidechain}
  IN  IF main # {} THEN main ELSE AllLeaves(records)

\* Where in the file the parent of the i-th record is, 0 when it has none.
ParentOf(records) ==
  [i \in 0 .. Len(records) |->
     IF i # 0 /\ records[i].parent \in UuidsOf(records)
     THEN Lookup(records, records[i].parent) ELSE 0]

\* Where in the file the n-th record on the way up from the last leaf is, 0
\* when there is none.  Parents never form a circle (TranscriptProofs).
Ascent(records) ==
  LET Up[n \in 1 .. Len(records)] ==
        IF n = 1 THEN Max(Leaves(records)) ELSE ParentOf(records)[Up[n - 1]]
  IN  Up

BuildChain(records) ==
  LET up == Ascent(records)
      length == Cardinality({n \in DOMAIN up : up[n] # 0})
  IN  [i \in 1 .. length |-> records[up[length + 1 - i]]]

\* readSessionChain(): what get_context answers.
ReadSessionChain(records) ==
  LET chain == BuildChain(records) IN [i \in DOMAIN chain |-> chain[i].uuid]

\* filter(): what s holds at the indexes in I, in order.
Picked(s, I) ==
  [k \in 1 .. Cardinality(I) |->
     s[CHOOSE i \in I : Cardinality({j \in I : j <= i}) = k]]

Reparent(records, from, to) ==
  [i \in DOMAIN records |->
     IF records[i].parent = from THEN [records[i] EXCEPT !.parent = to] ELSE records[i]]

\* Mutant of RemoveMessage: the children of the message are left orphans.
RemoveOrphans(records, u) == Picked(records, {i \in DOMAIN records : records[i].uuid # u})

\* removeMessage(): the children of the message become its parent's.
RemoveMessage(records, u) ==
  Reparent(Picked(records, {i \in DOMAIN records : records[i].uuid # u}),
           u, records[Lookup(records, u)].parent)

\* injectMessage(): first ("__start__"), after a message, or last.
InjectMessage(records, u, after) ==
  LET chain  == ReadSessionChain(records)
      record(parent) == [uuid |-> u, parent |-> parent, type |-> "user", isSidechain |-> FALSE]
  IN  CASE after = Start ->
             LET rooted == [i \in DOMAIN records |->
                              IF chain # <<>> /\ records[i].uuid = chain[1] /\ records[i].parent = Root
                              THEN [records[i] EXCEPT !.parent = u] ELSE records[i]]
             IN  Append(rooted, record(Root))
        [] after = End -> Append(records, record(IF chain = <<>> THEN Root ELSE Last(chain)))
        [] OTHER -> Append(Reparent(records, after, u), record(after))

\* truncateToLastN(): the user and assistant messages of the last n turns, two
\* to a turn, and whatever stands between them in the chain.
TruncateToLastN(records, n) ==
  LET chain  == BuildChain(records)
      spoken == {i \in DOMAIN chain : chain[i].type # "system"}
      from   == CHOOSE i \in spoken : Cardinality({j \in spoken : j >= i}) = 2 * n
      kept   == UuidsOf(SubSeq(chain, from, Len(chain)))
      file   == Picked(records, {i \in DOMAIN records : records[i].uuid \in kept})
  IN  IF Cardinality(spoken) <= 2 * n THEN records
      ELSE [i \in DOMAIN file |->
              IF file[i].uuid = chain[from].uuid THEN [file[i] EXCEPT !.parent = Root] ELSE file[i]]
=============================================================================
