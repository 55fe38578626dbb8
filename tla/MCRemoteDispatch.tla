-------------------------- MODULE MCRemoteDispatch --------------------------
(* Instance of RemoteDispatch for TLC: a wave of two assignments.          *)
EXTENDS RemoteDispatch

MCWave == <<"a", "b">>
MCAllowance == [x \in {"a", "b"} |-> IF x = "a" THEN 1 ELSE 0]
=============================================================================
