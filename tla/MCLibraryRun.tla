---------------------------- MODULE MCLibraryRun ----------------------------
(* Every plan of up to MaxSteps tools, and one that is a step too long.    *)
EXTENDS LibraryRun

MCPlans ==
    UNION {[1..n -> Tools] : n \in 0..MaxSteps}
        \cup {[i \in 1..(MaxSteps + 1) |-> IF i = 1 THEN "open" ELSE "observe"]}
=============================================================================
