--------------------------- MODULE MCMallocLayout ---------------------------
(* Instances of MallocLayout for TLC.                                      *)
EXTENDS MallocLayout

(* Sizes 0, 1, 2; a product that wraps, to 2; and a size that wraps when   *)
(* the overhead is added.                                                  *)
SomeRequests == {<<1, 0>>, <<1, 1>>, <<1, 2>>, <<8, 3>>, <<1, 17>>}
=============================================================================
