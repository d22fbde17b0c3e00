------------------------------ MODULE MCSer2sockd ------------------------------
(* The instances of Ser2sockd are small numbers, given in the .cfg files. *)
EXTENDS Ser2sockd
================================================================================
