---------------------------- MODULE MCOutThread ----------------------------
(* Instances of OutThread for TLC. *)
EXTENDS OutThread

\* The first two packets come from one source, the third from another.
MCHash == [p \in Packets |-> IF p <= 2 THEN 0 ELSE 1]

\* The kinds of stage and the ways to wait: one next thread beside the output
\* thread; for defrag one that a second joins, by which every source changes its
\* thread; up to two that come and go; and none.
MCConfs ==
    {[type |-> t, opt |-> o, semSync |-> s, termSync |-> TRUE, usleep |-> TRUE,
      maxResize |-> r] :
        <<t, o, s, r>> \in {<<"detach2", 1, 2, 0>>, <<"defrag", 1, 0, 1>>,
                            <<"detach", 0, 1, 2>>, <<"dedup", 0, 1, 0>>}}
=============================================================================
