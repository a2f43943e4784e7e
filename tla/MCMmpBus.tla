------------------------------ MODULE MCMmpBus ------------------------------
EXTENDS MmpBusLink, TLC

\* Two nodes with a transfer for the same third one.
SharedPlan == 7 :> <<9>> @@ 8 :> <<9>> @@ 9 :> <<>>

\* A chain: the middle node receives from the one and sends to the other, twice.
RelayPlan == 7 :> <<8>> @@ 8 :> <<9, 9>> @@ 9 :> <<>>
=============================================================================
