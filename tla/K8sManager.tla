----------------------------- MODULE K8sManager -----------------------------
(***************************************************************************)
(* orchestrator/src/k8s-manager.ts, the container manager of the k8s       *)
(* backend, and as much of the cluster as it sees.  A pod is named after   *)
(* the id it is spawned for (runner-<id>), so the id also names the pod; a *)
(* name is taken until its pod is gone, which is up to the grace period    *)
(* after a delete and, for a pod whose runner ended, until it is deleted.  *)
(* kill() is one step: no two requests work on one id at the same time.    *)
(***************************************************************************)
EXTENDS FiniteSets, Integers

CONSTANTS
  Sessions,    \* session ids
  WarmIds,     \* the ids warm-<uuid> the warm pool can still draw
  Elsewhere,   \* the warm ids spawned into a namespace of their profile
  None

Ids == Sessions \cup WarmIds

ASSUME IdsAssumption == /\ Sessions \cap WarmIds = {}
                        /\ Elsewhere \subseteq WarmIds
                        /\ None \notin Ids

VARIABLES
  pods,       \* id -> name of the pod tracked under it (podNamespaces goes with it)
  phase,      \* name -> state of the pod of that name
  label,      \* name -> its session-id label
  patching,   \* name -> the label a patch in flight will give it, or None
  spawning    \* id -> how far the spawn() for it has come

k8sVars == <<pods, phase, label, patching, spawning>>

K8sTypeOK ==
  /\ pods \in [Ids -> Ids \cup {None}]
  /\ phase \in [Ids -> {"absent", "pending", "running", "ended", "terminating"}]
  /\ label \in [Ids -> Ids]
  /\ patching \in [Ids -> Sessions \cup {None}]
  /\ spawning \in [Ids -> {"no", "called", "created"}]

K8sInit ==
  /\ pods = [i \in Ids |-> None]
  /\ phase = [i \in Ids |-> "absent"]
  /\ label = [i \in Ids |-> i]
  /\ patching = [i \in Ids |-> None]

\* The API server accepts the pod of a suspended spawn().
PodIsCreated(i) ==
  /\ spawning[i] = "called" /\ phase[i] = "absent"
  /\ spawning' = [spawning EXCEPT ![i] = "created"]
  /\ phase' = [phase EXCEPT ![i] = "pending"]
  /\ label' = [label EXCEPT ![i] = i]
  /\ UNCHANGED <<pods, patching>>

\* createNamespacedPod() returned.
SpawnReturns(i) ==
  /\ spawning[i] = "created"
  /\ spawning' = [spawning EXCEPT ![i] = "no"]
  /\ pods' = [pods EXCEPT ![i] = i]
  /\ UNCHANGED <<phase, label, patching>>

\* spawn() throws: of the name conflict (409) or, where it may fail, of anything.
SpawnThrows(i, mayFail) ==
  /\ spawning[i] = "called"
  /\ phase[i] # "absent" \/ mayFail
  /\ spawning' = [spawning EXCEPT ![i] = "no"]
  /\ UNCHANGED <<pods, phase, label, patching>>

\* The phases after a delete of the pod tracked under i, if there is one: a
\* runner that runs has five seconds, a pod without one is gone.
Deleted(i) ==
  IF pods[i] = None THEN phase
  ELSE [phase EXCEPT ![pods[i]] = IF @ \in {"running", "terminating"} THEN "terminating" ELSE "absent"]

\* kill(): an error of the API is logged, and the pod is forgotten all the same.
Kill(i, mayFail) ==
  /\ pods' = [pods EXCEPT ![i] = None]
  /\ (phase' = Deleted(i)) \/ (mayFail /\ phase' = phase)
  /\ UNCHANGED <<label, patching>>

\* rekeySession(): the map at once, the label by a patch that is not awaited.
Rekey(old, new) ==
  /\ \/ /\ pods[old] = None
        /\ UNCHANGED <<pods, patching>>
     \/ /\ pods[old] # None
        /\ pods' = [pods EXCEPT ![old] = None, ![new] = pods[old]]
        /\ patching' = [patching EXCEPT ![pods[old]] = new]
  /\ UNCHANGED <<phase, label, spawning>>

\* patchPodLabel() ends: the label is set, or the error is logged.
PatchEnds(n, mayFail) ==
  /\ patching[n] # None
  /\ \/ label' = [label EXCEPT ![n] = patching[n]]
     \/ (mayFail \/ phase[n] = "absent") /\ UNCHANGED label
  /\ patching' = [patching EXCEPT ![n] = None]
  /\ UNCHANGED <<pods, phase, spawning>>

\* The pods of a list of the managed pods that carry the label of s.
Labelled(s, seen) == {n \in seen : phase[n] # "absent" /\ label[n] = s}

\* recoverFromSessions() for the given sessions: of several pods with the same
\* label the last in the list counts, and a pod that is being deleted may still
\* report the phase Running. The list has every namespace, or (its request
\* failed) the default one, or (that failed too) is empty.
Recover(known, mayFail) ==
  /\ \E seen \in {Ids} \cup IF mayFail THEN {Ids \ Elsewhere, {}} ELSE {} :
       /\ pods' \in [Ids -> Ids \cup {None}]
       /\ \A i \in Ids :
            IF i \in known /\ Labelled(i, seen) # {}
              THEN \E n \in Labelled(i, seen) :
                     \/ phase[n] \in {"running", "terminating"} /\ pods'[i] = n
                     \/ phase[n] # "running" /\ pods'[i] = None
              ELSE pods'[i] = None
  /\ UNCHANGED <<phase, label, patching>>
=============================================================================
