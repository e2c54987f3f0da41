---------------------------- MODULE MCDeployment ----------------------------
(* Two releases of the two services, from nothing or from the code of the     *)
(* fourth migration, to the last two; each may be broken on purpose.          *)
EXTENDS Deployment

MCServices == <<"api", "worker">>
=============================================================================
