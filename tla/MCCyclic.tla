------------------------------ MODULE MCCyclic ------------------------------
(* Cyclic on small instances: a tick of 4 units; periods below, at and     *)
(* above it, with and without a remainder; phases of 0, within and beyond. *)
EXTENDS Cyclic

MCConfig == { [cyctim |-> 3, cycphs |-> 0, sta |-> TRUE],
              [cyctim |-> 10, cycphs |-> 8, sta |-> FALSE],
              [cyctim |-> 4, cycphs |-> 5, sta |-> FALSE],
              [cyctim |-> 1, cycphs |-> 2, sta |-> TRUE] }
=============================================================================
