----------------------------- MODULE MCMMDBLookup -----------------------------
(* Command lines of every mode, with an int of four bits: 8 and 9 are too    *)
(* large, -16 becomes 0 and -15 becomes 1.                                   *)
EXTENDS MMDBLookup

Line(b, t) == [help |-> FALSE, version |-> FALSE, verbose |-> FALSE, file |-> TRUE,
               ip |-> FALSE, path |-> FALSE, ip_file |-> FALSE, lines |-> 0,
               b |-> b, t |-> t]

\* Everything but the benchmarks.
Plain == [help : BOOLEAN, version : BOOLEAN, verbose : BOOLEAN, file : BOOLEAN,
          ip : BOOLEAN, path : BOOLEAN, ip_file : BOOLEAN, lines : {0, 3},
          b : {0, -16, 8}, t : {0}]

Benchmarks == {Line(b, t) : b \in {-15, -1, 2, 3, 8}, t \in {-1, 0, 2, 9}}
                \cup {Line(1, 3), Line(5, 2)}

MCCommands == Plain \cup Benchmarks

===============================================================================
