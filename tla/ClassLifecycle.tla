-------------------------- MODULE ClassLifecycle --------------------------
(***************************************************************************)
(* What the Worker controller promises the machine-controller-manager,     *)
(* without saying how: a machine class becomes available (the object and   *)
(* its secret are there), deployments refer to available classes only,     *)
(* machines start from a class their deployment refers to, and a class     *)
(* that a deployment or a machine uses is not withdrawn.                   *)
(***************************************************************************)
CONSTANTS Deployments, Classes, None

VARIABLES
    available,  \* the classes the MCM can work with
    refs,       \* the class each deployment refers to, None without a deployment
    running     \* the classes that live machines were created from

lifecycleVars == <<available, refs, running>>

InUse(c) == c \in running \/ \E d \in Deployments : refs[d] = c

LifecycleInit ==
    /\ available = {}
    /\ refs = [d \in Deployments |-> None]
    /\ running = {}

Publish(c) ==
    /\ available' = available \cup {c}
    /\ UNCHANGED <<refs, running>>

Withdraw(c) ==
    /\ ~InUse(c)
    /\ available' = available \ {c}
    /\ UNCHANGED <<refs, running>>

Refer(d, c) ==
    /\ c \in available
    /\ refs' = [refs EXCEPT ![d] = c]
    /\ UNCHANGED <<available, running>>

Release(d) ==
    /\ refs' = [refs EXCEPT ![d] = None]
    /\ UNCHANGED <<available, running>>

Start(d) ==
    /\ refs[d] \in available
    /\ running' = running \cup {refs[d]}
    /\ UNCHANGED <<available, refs>>

Stop(c) ==
    /\ c \in running \cap available
    /\ \A d \in Deployments : refs[d] # c
    /\ running' = running \ {c}
    /\ UNCHANGED <<available, refs>>

LifecycleNext ==
    \/ \E c \in Classes : Publish(c) \/ Withdraw(c) \/ Stop(c)
    \/ \E d \in Deployments : Release(d) \/ Start(d)
    \/ \E d \in Deployments, c \in Classes : Refer(d, c)

LifecycleSpec == LifecycleInit /\ [][LifecycleNext]_lifecycleVars
=============================================================================
