-------------------------- MODULE MCClientSessions --------------------------
(***************************************************************************)
(* Instances of ClientSessions for TLC: every bound is set in the cfg.     *)
(***************************************************************************)
EXTENDS ClientSessions

\* The contexts of the application are alike, and so are the configurations of an
\* instance in which none is a server's.
AlikeSymmetry == Permutations(Contexts) \cup Permutations(Configs)
=============================================================================
