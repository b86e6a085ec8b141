---------------------------- MODULE MCHeaderQueue ----------------------------
(* Values of HeaderQueue's constants for the model checker.                 *)
EXTENDS HeaderQueue

(* A compact form with a mantissa of two bits: 1, 2, 3, 4, 6, 8, 12, 16 ... *)
MCScales == {1, 2, 4, 8, 16, 32}
=============================================================================
