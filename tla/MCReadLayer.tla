------------------------------ MODULE MCReadLayer ------------------------------
(***************************************************************************)
(* Every file of fewer than MaxBytes bytes, and those of MaxBytes that     *)
(* have no NUL, for TLC.                                                   *)
(***************************************************************************)
EXTENDS ReadLayer

CONSTANT MaxBytes

MCFiles ==
  UNION {[1 .. n -> Bytes] : n \in 0 .. MaxBytes - 1} \union [1 .. MaxBytes -> Bytes \ {"NUL"}]
================================================================================
