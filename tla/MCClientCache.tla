---------------------------- MODULE MCClientCache ----------------------------
(* ClientCache for TLC.                                                    *)
EXTENDS ClientCache

CONSTANTS k1, k2, k3

ThreeKeys  == {k1, k2, k3}
NewOpenAI  == {k1}
=============================================================================
