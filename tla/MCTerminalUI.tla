---------------------------- MODULE MCTerminalUI ----------------------------
(* A small instance of TerminalUI: no process; a list that is longer than a   *)
(* low terminal; a longer one below nine GPUs, which even a high terminal has *)
(* less room for than the keys assume.                                       *)
EXTENDS TerminalUI

TwoHosts == 1 .. 2
ThreeStatuses ==
  {[groups |-> <<>>, gpus |-> 0], [groups |-> <<1, 2>>, gpus |-> 0],
   [groups |-> <<4, 1, 1>>, gpus |-> 9]}
=============================================================================
