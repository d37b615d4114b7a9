----------------------------- MODULE MCGasOracle -----------------------------
(* Instances of GasOracle for TLC; the cfgs give the other constants. *)
EXTENDS GasOracle, TLC

CONSTANTS
  MinHeight,   \* the blocks up to this number are one chain
  MaxHeight

MCChains ==
  {b \in UNION {[1..n -> Forks] : n \in MinHeight..MaxHeight} :
     \A i \in 1..Len(b) : i <= MinHeight => b[i] = 0}

AllOptions == OptionSet
Option(idle, hid, lingers, owns) ==
  [pauseWhenIdle |-> idle, pauseWhenHidden |-> hid, lingers |-> lingers, ownsSource |-> owns]
Prompt == {o \in OptionSet : ~o.lingers}
Lingering == {Option(TRUE, FALSE, TRUE, FALSE)}
MixedOptions ==
  {Option(FALSE, FALSE, FALSE, FALSE), Option(TRUE, FALSE, TRUE, TRUE),
   Option(TRUE, TRUE, FALSE, FALSE), Option(FALSE, TRUE, FALSE, TRUE)}
AlwaysOn == {Option(FALSE, FALSE, FALSE, FALSE)}

Symmetry == Permutations(Slots) \cup Permutations(Consumers)
==============================================================================
