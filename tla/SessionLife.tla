---------------------------- MODULE SessionLife ----------------------------
(***************************************************************************)
(* What the session layer promises about the life of one HdcSession        *)
(* object, without saying how two threads agree on it: the object is       *)
(* opened, may get a worker thread, is declared dead once, and is deleted  *)
(* only when it is dead and no worker thread is using it.  The detailed    *)
(* protocol that keeps this promise is module HdcSession.                  *)
(***************************************************************************)
CONSTANT Sessions       \* the session ids the server ever hands out

VARIABLES
    life,    \* life[s]: "none", "live", "dead" or "freed"
    worker   \* worker[s]: "none", "running" or "finished"

vars == <<life, worker>>

TypeOK ==
    /\ life \in [Sessions -> {"none", "live", "dead", "freed"}]
    /\ worker \in [Sessions -> {"none", "running", "finished"}]

Init ==
    /\ life = [s \in Sessions |-> "none"]
    /\ worker = [s \in Sessions |-> "none"]

Open(s) ==
    /\ life[s] = "none"
    /\ life' = [life EXCEPT ![s] = "live"]
    /\ UNCHANGED worker

\* A session that was declared dead while it was still connecting may get its
\* worker all the same; it is then told to stop at once.
StartWorker(s) ==
    /\ life[s] \in {"live", "dead"}
    /\ worker[s] = "none"
    /\ worker' = [worker EXCEPT ![s] = "running"]
    /\ UNCHANGED life

Kill(s) ==
    /\ life[s] = "live"
    /\ life' = [life EXCEPT ![s] = "dead"]
    /\ UNCHANGED worker

\* A worker only leaves a session that is already dead.
FinishWorker(s) ==
    /\ life[s] = "dead"
    /\ worker[s] = "running"
    /\ worker' = [worker EXCEPT ![s] = "finished"]
    /\ UNCHANGED life

Free(s) ==
    /\ life[s] = "dead"
    /\ worker[s] # "running"
    /\ life' = [life EXCEPT ![s] = "freed"]
    /\ UNCHANGED worker

Next ==
    \E s \in Sessions :
        Open(s) \/ StartWorker(s) \/ Kill(s) \/ FinishWorker(s) \/ Free(s)

Spec == Init /\ [][Next]_vars
=============================================================================
