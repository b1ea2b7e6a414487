------------------------------ MODULE WorkDeque ------------------------------
(***************************************************************************)
(* What the scheduler expects of a worker's deque: a sequence of tasks.    *)
(* The owner puts at the young end and takes from it, thieves take from    *)
(* the old end, every operation in one step, and a task that has been      *)
(* handed to somebody is never handed out again.  ChaseLevDeque, the       *)
(* lock-free implementation, is shown to implement this module.            *)
(***************************************************************************)
EXTENDS Integers, Sequences

CONSTANTS Task,     \* task items, each spawned once
          Thief,    \* threads that steal
          Owner,    \* the worker the deque belongs to
          Inject,   \* the global queue a refused task falls back to
          Nobody,   \* holder of a task that is still to be taken
          NoTask,   \* NULL
          Cap       \* OSTY_SCHED_DEQUE_CAP

VARIABLES q,      \* the queued tasks, oldest first
          fresh,  \* tasks not spawned yet
          taken,  \* who was given each task
          got     \* what the owner's last take returned

dvars == <<q, fresh, taken, got>>

DInit == /\ q = << >>
         /\ fresh = Task
         /\ taken = [t \in Task |-> Nobody]
         /\ got = NoTask

Put(t) == /\ t \in fresh
          /\ Len(q) < Cap
          /\ q' = Append(q, t)
          /\ fresh' = fresh \ {t}
          /\ UNCHANGED <<taken, got>>

\* A full deque refuses the task, which goes to the inject queue instead.
Refuse(t) == /\ t \in fresh
             /\ Len(q) = Cap
             /\ fresh' = fresh \ {t}
             /\ taken' = [taken EXCEPT ![t] = Inject]
             /\ UNCHANGED <<q, got>>

TakeYoungest == /\ q # << >>
                /\ taken[q[Len(q)]] = Nobody
                /\ q' = [i \in 1 .. Len(q) - 1 |-> q[i]]
                /\ got' = q[Len(q)]
                /\ taken' = [taken EXCEPT ![q[Len(q)]] = Owner]
                /\ UNCHANGED fresh

\* The owner is told "empty" only when the deque is empty.
TakeNothing == /\ q = << >>
               /\ got' = NoTask
               /\ UNCHANGED <<q, fresh, taken>>

TakeOldest(i) == /\ q # << >>
                 /\ taken[q[1]] = Nobody
                 /\ q' = Tail(q)
                 /\ taken' = [taken EXCEPT ![q[1]] = i]
                 /\ UNCHANGED <<fresh, got>>

DNext == \/ \E t \in Task : Put(t) \/ Refuse(t)
         \/ TakeYoungest
         \/ TakeNothing
         \/ \E i \in Thief : TakeOldest(i)

DSpec == DInit /\ [][DNext]_dvars
==============================================================================
