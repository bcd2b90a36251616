---------------------------- MODULE EffectService ----------------------------
(***************************************************************************)
(* What the workflow relies on when a node calls ToolExecutor.execute for  *)
(* a side-effecting tool, stated without the ledger, the budget, the       *)
(* retries and the trace: an effect may land at any time while a call for  *)
(* it is being served, never otherwise and never to be undone; a call is   *)
(* answered with success only if its effect has landed, then or before;    *)
(* and a call may fail, or die with its process, either way.               *)
(*                                                                         *)
(* The steps EffectLands and ExecuteEffect of RunService are Land and      *)
(* Succeed or GiveUp here; ToolExecutor implements this specification.     *)
(***************************************************************************)
CONSTANTS
    Drivers,   \* threads of control that may be inside execute
    Keys,      \* side effects, one for each side-effecting step
    None       \* no key

VARIABLES
    landed,    \* effects the outside world has seen
    serving,   \* the effect each driver's call is for, None outside a call
    done       \* the effect each driver's last call reported, None if it failed

vars == <<landed, serving, done>>

TypeOK ==
    /\ landed \subseteq Keys
    /\ serving \in [Drivers -> Keys \cup {None}]
    /\ done \in [Drivers -> Keys \cup {None}]

Init ==
    /\ landed = {}
    /\ serving = [d \in Drivers |-> None]
    /\ done = [d \in Drivers |-> None]

\* A node calls execute.
Call(d, k) ==
    /\ serving[d] = None
    /\ serving' = [serving EXCEPT ![d] = k]
    /\ done' = [done EXCEPT ![d] = None]
    /\ UNCHANGED landed

\* The effect of a call in service changes the world.
Land(d) ==
    /\ serving[d] # None
    /\ landed' = landed \cup {serving[d]}
    /\ UNCHANGED <<serving, done>>

\* execute returns a receipt.
Succeed(d) ==
    /\ serving[d] \in landed
    /\ serving' = [serving EXCEPT ![d] = None]
    /\ done' = [done EXCEPT ![d] = serving[d]]
    /\ UNCHANGED landed

\* execute raises, or the process dies.
GiveUp(d) ==
    /\ serving[d] # None
    /\ serving' = [serving EXCEPT ![d] = None]
    /\ UNCHANGED <<landed, done>>

Next ==
    \E d \in Drivers :
        \/ \E k \in Keys : Call(d, k)
        \/ Land(d) \/ Succeed(d) \/ GiveUp(d)

Spec == Init /\ [][Next]_vars
=============================================================================
