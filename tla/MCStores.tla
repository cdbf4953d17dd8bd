------------------------------ MODULE MCStores ------------------------------
(* An instance of MetaStores for TLC: one catalog binding.                  *)
EXTENDS MetaStores

OneBinding == {<<"default", "c">>}
=============================================================================
