---------------------------- MODULE MCFileServing -----------------------------
(* FileServing with files of none to three bytes, read two at a time, the  *)
(* longest of which is too long for an int where IntMax is 2.              *)
EXTENDS FileServing

Bytes == 0 .. 3
===============================================================================
