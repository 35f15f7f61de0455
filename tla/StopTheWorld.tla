---------------------------- MODULE StopTheWorld ----------------------------
(***************************************************************************)
(* What freezing promises to the rest of the runtime, without counters,    *)
(* mutexes or condition variables: threads enter and leave, run and stop,  *)
(* and while one thread is the owner of the world no other thread runs.    *)
(***************************************************************************)
CONSTANT Thread, NoThread

VARIABLES mode,   \* [Thread -> {"out", "run", "stopped"}]
          owner   \* the thread that has stopped the world, or NoThread

vars == <<mode, owner>>

Running == {t \in Thread : mode[t] = "run"}

TypeOK == /\ mode \in [Thread -> {"out", "run", "stopped"}]
          /\ owner \in Thread \cup {NoThread}

Init == /\ \E t \in Thread :
              mode = [u \in Thread |-> IF u = t THEN "run" ELSE "out"]
        /\ owner = NoThread

(* A thread that does not run may come and go at any time. *)
Move(t) == /\ mode[t] # "run"
           /\ \E m \in {"out", "stopped"} : mode' = [mode EXCEPT ![t] = m]
           /\ UNCHANGED owner

(* A thread that runs stops or leaves; the owner does neither. *)
Stop(t) == /\ mode[t] = "run"
           /\ owner # t
           /\ \E m \in {"out", "stopped"} : mode' = [mode EXCEPT ![t] = m]
           /\ UNCHANGED owner

(* Threads begin to run only while nobody owns the world. *)
Run(t) == /\ mode[t] # "run"
          /\ owner = NoThread
          /\ mode' = [mode EXCEPT ![t] = "run"]
          /\ UNCHANGED owner

Acquire(t) == /\ owner = NoThread
              /\ Running = {t}
              /\ owner' = t
              /\ UNCHANGED mode

Release(t) == /\ owner = t
              /\ owner' = NoThread
              /\ UNCHANGED mode

Next == \E t \in Thread :
          Move(t) \/ Stop(t) \/ Run(t) \/ Acquire(t) \/ Release(t)

Spec == Init /\ [][Next]_vars
=============================================================================
