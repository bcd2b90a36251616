------------------------ MODULE MCSideEffectLedger ------------------------
(***************************************************************************)
(* SideEffectLedger on small instances: the cfg files say how many drivers *)
(* there are and which kinds of tool the keys belong to.                   *)
(***************************************************************************)
EXTENDS SideEffectLedger

CONSTANTS
    d1, d2,
    answering,  \* a key whose provider always answers a lookup
    flaky,      \* a key whose provider's lookup may raise
    mute        \* a key whose tool has no lookup at all
=============================================================================
