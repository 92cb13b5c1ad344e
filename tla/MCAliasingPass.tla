--------------------------- MODULE MCAliasingPass ---------------------------
(* Constants of AliasingPass for TLC: see the .cfg file for the bounds. *)
EXTENDS AliasingPass, TLC

MCMaxOf ==
  [op \in Ops |-> CASE op \in {"nki1"} -> 2
                    [] op = "aten_" -> 0
                    [] OTHER -> 1]
=============================================================================
