-------------------------- MODULE MCExecutableRun --------------------------
(* A small executable: two commands on fixed scratch and a weight, a paged  *)
(* append, a command on dynamic scratch, and a second capturable region.    *)
EXTENDS ExecutableRun

MCProgram ==
    LET Op(n, fixed, weight, append) ==
            [op |-> n, fixed |-> fixed, weight |-> weight, append |-> append]
    IN  <<Op(1, TRUE, FALSE, FALSE), Op(2, TRUE, TRUE, FALSE), Op(3, FALSE, FALSE, TRUE),
          Op(4, FALSE, FALSE, FALSE), Op(5, TRUE, TRUE, FALSE)>>
=============================================================================
