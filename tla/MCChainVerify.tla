--------------------------- MODULE MCChainVerify ---------------------------
(* Small instances of ChainVerify for TLC.                                 *)
EXTENDS ChainVerify

CONSTANTS act, remember, m1

\* A step attests to no memory (recordStep), a memory to itself (Remember).
StepAndMemory == {<<act, NoMemory>>, <<remember, m1>>}

=============================================================================
