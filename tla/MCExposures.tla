----------------------------- MODULE MCExposures ------------------------------
(***************************************************************************)
(* Instances of Exposures: tenant trees that conform but for one surface,  *)
(* so that a verification meets both old and new stands of it.             *)
(***************************************************************************)
EXTENDS Exposures, MCProvisioner

StaleTrees ==
    {Drifted, Provisioned,
     With(Provisioned, "ci.yml", <<Text("prose")>>),
     With(Provisioned, "README.md", <<Text("prose")>>)}
===============================================================================
