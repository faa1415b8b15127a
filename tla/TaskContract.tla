---------------------------- MODULE TaskContract ----------------------------
(***************************************************************************)
(* What the driver promises the Nomad client, as the comments of           *)
(* chdriver/driver.go and the interface it implements have it: StartTask   *)
(* answers with the handle of a VM it made for the task, WaitTask "is used *)
(* to notify Nomad when a task exits", RecoverTask and DestroyTask give up *)
(* a task that has ended and no other.  Stores, handles, goroutines and    *)
(* pids are not seen at this level, and a plugin that dies is seen by the  *)
(* waits it drops.                                                         *)
(***************************************************************************)
CONSTANTS Task, Vm, Wait, ExitStatus, None

VARIABLES
    owner,    \* [Vm -> Task or None]: the task a VM is made for
    life,     \* [Vm -> Life]; "doomed" has been sent SIGKILL
    outcome,  \* [Vm -> ExitStatus or None]: how it ended
    blind,    \* [Vm -> BOOLEAN]: the executor that would know has died
    holds,    \* [Task -> Vm or None]: the VM of the handle Nomad holds
    waiter    \* [Wait -> record]: a WaitTask, its VM and what it was told

vars == <<owner, life, outcome, blind, holds, waiter>>
vmVars == <<owner, life, outcome, blind>>

Life == {"fresh", "running", "doomed", "ended"}
NoWait == [state |-> "idle", vm |-> None, told |-> None]

Init ==
    /\ owner = [v \in Vm |-> None]
    /\ life = [v \in Vm |-> "fresh"]
    /\ outcome = [v \in Vm |-> None]
    /\ blind = [v \in Vm |-> FALSE]
    /\ holds = [t \in Task |-> None]
    /\ waiter = [w \in Wait |-> NoWait]

\* A start of task t, the only one.
Claim(v, t) ==
    /\ owner[v] = None /\ \A u \in Vm : owner[u] # t
    /\ owner' = [owner EXCEPT ![v] = t]
    /\ UNCHANGED <<life, outcome, blind, holds, waiter>>

Boot(v) ==
    /\ owner[v] # None /\ life[v] = "fresh" /\ ~blind[v]
    /\ life' = [life EXCEPT ![v] = "running"]
    /\ UNCHANGED <<owner, outcome, blind, holds, waiter>>

Doom(v) ==
    /\ life[v] = "running"
    /\ life' = [life EXCEPT ![v] = "doomed"]
    /\ UNCHANGED <<owner, outcome, blind, holds, waiter>>

End(v) ==
    /\ life[v] \in {"running", "doomed"}
    /\ life' = [life EXCEPT ![v] = "ended"]
    /\ \E s \in ExitStatus : outcome' = [outcome EXCEPT ![v] = s]
    /\ UNCHANGED <<owner, blind, holds, waiter>>

Blind(v) ==
    /\ owner[v] # None /\ ~blind[v]
    /\ blind' = [blind EXCEPT ![v] = TRUE]
    /\ UNCHANGED <<owner, life, outcome, holds, waiter>>

\* The answer to StartTask: the VM of this task, which has been launched.
Reply(t, v) ==
    /\ owner[v] = t /\ life[v] # "fresh"
    /\ holds[t] = None
    /\ holds' = [holds EXCEPT ![t] = v]
    /\ UNCHANGED <<vmVars, waiter>>

\* Nomad drops a handle: its VM has ended, or will at once, or nobody can
\* watch it any more.
Forget(t) ==
    /\ holds[t] # None
    /\ life[holds[t]] \in {"doomed", "ended"} \/ blind[holds[t]]
    /\ holds' = [holds EXCEPT ![t] = None]
    /\ UNCHANGED <<vmVars, waiter>>

Ask(w, t) ==
    /\ waiter[w] = NoWait
    /\ holds[t] # None
    /\ waiter' = [waiter EXCEPT ![w] = [state |-> "asked", vm |-> holds[t], told |-> None]]
    /\ UNCHANGED <<vmVars, holds>>

\* The truth about the VM that was asked for, or that it cannot be had.
Answer(w) ==
    /\ waiter[w].state = "asked"
    /\ \E r \in ExitStatus \union {"error"} :
         /\ \/ life[waiter[w].vm] = "ended" /\ r = outcome[waiter[w].vm]
            \/ blind[waiter[w].vm] /\ r = "error"
         /\ waiter' = [waiter EXCEPT ![w] = [state |-> "told", vm |-> @.vm, told |-> r]]
    /\ UNCHANGED <<vmVars, holds>>

Leave(w) ==
    /\ waiter[w] # NoWait
    /\ waiter' = [waiter EXCEPT ![w] = NoWait]
    /\ UNCHANGED <<vmVars, holds>>

\* The plugin dies: what Nomad holds and what runs stays.
Restart ==
    /\ waiter' = [w \in Wait |-> NoWait]
    /\ UNCHANGED <<vmVars, holds>>

Next ==
    \/ \E v \in Vm, t \in Task : Claim(v, t) \/ Reply(t, v)
    \/ \E v \in Vm : Boot(v) \/ Doom(v) \/ End(v) \/ Blind(v)
    \/ \E t \in Task : Forget(t)
    \/ \E w \in Wait, t \in Task : Ask(w, t)
    \/ \E w \in Wait : Answer(w) \/ Leave(w)
    \/ Restart

Spec == Init /\ [][Next]_vars
=============================================================================
