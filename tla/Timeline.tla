------------------------------ MODULE Timeline ------------------------------
(***************************************************************************)
(* What host1x promises of a syncpoint: a value that only counts up, and   *)
(* fences, each of which is signalled at most once, as reached only when   *)
(* the value has reached its goal, and is not freed before it is signalled *)
(* once somebody waits for it.                                             *)
(* Values are integers: nothing wraps here.                                *)
(***************************************************************************)
EXTENDS Integers

CONSTANT Fence

VARIABLES value,  \* increments so far
          goal,   \* goal[f]: the value f waits for, 0 while it is free
          status  \* status[f]: "free", "new", "pending", "reached", or "late"

tvars == <<value, goal, status>>

TimelineInit ==
  /\ value = 0
  /\ goal = [f \in Fence |-> 0]
  /\ status = [f \in Fence |-> "free"]

Become(f, s) == status' = [status EXCEPT ![f] = s]

Tick == value' = value + 1 /\ UNCHANGED <<goal, status>>

Create(f) ==
  /\ status[f] = "free"
  /\ goal' \in [Fence -> Int] /\ \A g \in Fence \ {f} : goal'[g] = goal[g]
  /\ Become(f, "new") /\ UNCHANGED value

Await(f) ==
  /\ status[f] = "new"
  /\ Become(f, "pending") /\ UNCHANGED <<value, goal>>

Reach(f) ==
  /\ status[f] \in {"new", "pending"} /\ goal[f] <= value
  /\ Become(f, "reached") /\ UNCHANGED <<value, goal>>

GiveUp(f) ==
  /\ status[f] = "pending"
  /\ Become(f, "late") /\ UNCHANGED <<value, goal>>

Free(f) ==
  /\ status[f] \in {"new", "reached", "late"}
  /\ Become(f, "free") /\ goal' = [goal EXCEPT ![f] = 0] /\ UNCHANGED value

TimelineNext == Tick \/ \E f \in Fence : Create(f) \/ Await(f) \/ Reach(f) \/ GiveUp(f) \/ Free(f)

TimelineSpec == TimelineInit /\ [][TimelineNext]_tvars
=============================================================================
