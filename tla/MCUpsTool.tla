------------------------------ MODULE MCUpsTool ------------------------------
(* Instances of UpsTool for TLC.                                           *)
EXTENDS UpsTool

Run(prog, args) == [prog |-> prog, args |-> args]

(* Every option and every combination that main treats differently.        *)
AnyRun ==
    {Run("apc", <<"h">>), Run("wow", <<"v">>),
     Run("apc", <<>>), Run("wow", <<>>), Run("wow", <<"t", "b">>),
     Run("apc", <<"d", "a", "u">>), Run("wow", <<"d", "a", "s">>),
     Run("apc", <<"d", "a">>), Run("wow", <<"a">>), Run("apc", <<"d", "t">>)}

Commands == {Run("apc", <<"d", "t">>), Run("wow", <<"d", "b">>)}
=============================================================================
