------------------------------ MODULE MCConfigSync ------------------------------
(***************************************************************************)
(* The instance of ConfigSync: every way to write spec.config.server.  At  *)
(* the start an object holds the text x1, if any: another is as good.      *)
(***************************************************************************)
EXTENDS ConfigSync, TLC

CONSTANTS o1, o2, x1, x2

AllServers == Server

AnyStart ==
    {f \in [Sources -> {None, Empty, x1}] :
        f["kube-root-ca.crt"] # Empty /\ f["referenced"] # Empty}
=================================================================================
