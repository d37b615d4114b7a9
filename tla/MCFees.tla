-------------------------------- MODULE MCFees --------------------------------
(* Instances of Fees for TLC; the cfgs give the other constants. *)
EXTENDS Fees

MCIds == {"m1", "m2", "m3", "m4", "m5", "m6", "p1", "p2", "p3", "p4"}

Fee(id, gas, max, tip) ==
  [id |-> id, gas |-> gas, type |-> 2, maxFee |-> max, priority |-> tip, gasPrice |-> max]
Legacy(id, gas, price) ==
  [id |-> id, gas |-> gas, type |-> 0, maxFee |-> None, priority |-> None, gasPrice |-> price]
Untyped(id) ==
  [id |-> id, gas |-> 2, type |-> None, maxFee |-> None, priority |-> None, gasPrice |-> None]
Weightless(id) == [Fee(id, 1, 30, 9) EXCEPT !.gas = None]

\* One block, two forks above it, and a child of each.
MCBlocks == {<<0>>, <<0, 0>>, <<0, 1>>, <<0, 0, 0>>, <<0, 1, 1>>}

MCBaseFeeOf ==
  [b \in MCBlocks |-> CASE b = <<0>> -> 16 [] b = <<0, 0>> -> 18 [] b = <<0, 1>> -> 14
                        [] b = <<0, 0, 0>> -> 20 [] b = <<0, 1, 1>> -> 16]

MCTxsOf ==
  [b \in MCBlocks |->
     CASE b = <<0>>       -> <<Fee("m1", 1, 40, 12), Legacy("m2", 3, 20)>>
       [] b = <<0, 0>>    -> <<>>
       [] b = <<0, 1>>    -> <<Fee("p1", 2, 30, 5), Untyped("m3")>>
       [] b = <<0, 0, 0>> -> <<Legacy("m4", 5, 36)>>
       [] b = <<0, 1, 1>> -> <<Fee("m5", 1, 17, 3), Weightless("m6")>>]

MCPools ==
  {<<>>,
   <<Fee("p1", 2, 30, 5), Fee("p2", 1, 30, 2)>>,
   <<Fee("p3", 1, 19, 7), Fee("p2", 1, 30, 2), Legacy("p4", 4, 29), Fee("p1", 2, 30, 5)>>}

MCFeeHistories == {None, <<20, 18, 16>>}

AllConfigs == ConfigSet
Reading(s, l) == [model |-> "flat", surface |-> s, lifecycle |-> l]
MixedConfigs ==
  {Reading("actions", "lazy"), [Reading("actions", "eager") EXCEPT !.model = "eip1559"],
   Reading("transport", "eager"), [Reading("transport", "lazy") EXCEPT !.model = "eip1559"]}
===============================================================================
