-------------------------------- MODULE MCServe --------------------------------
(* Serve with two requests, two writers and both nestings.                  *)
EXTENDS Serve
MCOrders == {[outer |-> "cors", inner |-> "gzip"], [outer |-> "gzip", inner |-> "cors"]}
===============================================================================
