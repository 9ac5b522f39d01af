---------------------------- MODULE AtLeastOnce ----------------------------
(***************************************************************************)
(* What the durable queue promises its publishers, without workers, leases *)
(* or rows: every published job is tried a bounded number of times, it is  *)
(* given up only when those tries are used up, and it is forgotten only    *)
(* after one try has succeeded.  JobQueue implements it.                   *)
(***************************************************************************)
EXTENDS Naturals

CONSTANTS Jobs, MaxAttempts

VARIABLES
    phase,   \* what has become of each job
    tries    \* how many times a handler was started on it

Phases == {"absent", "pending", "delivered", "abandoned", "forgotten"}

Init == /\ phase = [j \in Jobs |-> "absent"]
        /\ tries = [j \in Jobs |-> 0]

Submit(j) == /\ phase[j] = "absent"
             /\ phase' = [phase EXCEPT ![j] = "pending"]
             /\ UNCHANGED tries

\* A delivered job may be tried again: at least once is not exactly once.
Try(j) == /\ phase[j] \in {"pending", "delivered"}
          /\ tries[j] < MaxAttempts
          /\ tries' = [tries EXCEPT ![j] = @ + 1]
          /\ UNCHANGED phase

\* An abandoned job may still be delivered by a try that was under way.
Deliver(j) == /\ phase[j] \in {"pending", "abandoned"}
              /\ tries[j] > 0
              /\ phase' = [phase EXCEPT ![j] = "delivered"]
              /\ UNCHANGED tries

Abandon(j) == /\ phase[j] = "pending"
              /\ tries[j] = MaxAttempts
              /\ phase' = [phase EXCEPT ![j] = "abandoned"]
              /\ UNCHANGED tries

\* Retention removes delivered jobs, any number at once.
Forget(S) == /\ \A j \in S : phase[j] = "delivered"
             /\ phase' = [j \in Jobs |-> IF j \in S THEN "forgotten"
                                                    ELSE phase[j]]
             /\ UNCHANGED tries

Next == \/ \E j \in Jobs : \/ Submit(j) \/ Try(j) \/ Deliver(j) \/ Abandon(j)
        \/ \E S \in SUBSET Jobs : Forget(S)

Spec == Init /\ [][Next]_<<phase, tries>>
=============================================================================
