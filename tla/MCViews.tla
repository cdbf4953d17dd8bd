------------------------------ MODULE MCViews ------------------------------
(* Instances of Views for TLC.                                              *)
EXTENDS Views

\* The config file declares no product.
NoProduct == [n \in Names |-> None]
=============================================================================
