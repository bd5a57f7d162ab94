------------------------------ MODULE MCDataFlow ------------------------------
(* A subscriber with its owner, two subscribers of a channel, or a visitor *)
(* that fuses two channels.                                                *)
EXTENDS DataFlow
CONSTANTS known, plain, c1, c2, sub, first, second, fused
ConstInputs ==
  (sub :> <<known>>) @@ (first :> <<plain>>) @@ (second :> <<plain>>)
  @@ (fused :> <<c1, c2>>)
ConstQueueSize == (sub :> 1) @@ (first :> 1) @@ (second :> 2) @@ (fused :> 2)
ConstMaxMsgs == (known :> 2) @@ (plain :> 1) @@ (c1 :> 2) @@ (c2 :> 2)
===============================================================================
