------------------------------ MODULE MCAppend ------------------------------
(* Three resumed or forced calls of two processes, for TLC.                *)
EXTENDS Append

ThreeCalls ==
    {[calls |-> 3, runs |-> 0, faults |-> 1, deletions |-> 0,
      modes |-> {"resume", "force"}, lists |-> {<<"g">>}, batches |-> {<<1>>, <<1, 2>>}]}
=============================================================================
