------------------------------ MODULE MCPipeline ------------------------------
(* Instances of Pipeline for TLC.                                          *)
EXTENDS Pipeline, TLC

(* The --check lists of one token, two mixed ones, and an empty list.      *)
MCCheckSpecs == {{}} \cup {{n} : n \in CheckNames}
                     \cup {{"TCP", "Latency", "Path", "Ports"}, {"TLS", "Security"}}

(* The addresses of a family are interchangeable.                          *)
MCSymmetry == Permutations(V4)
===============================================================================
