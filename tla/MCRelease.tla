------------------------------ MODULE MCRelease -----------------------------
(* The two services, with and without a deliberately broken revision.         *)
EXTENDS Release

MCServices == <<"api", "worker">>
=============================================================================
