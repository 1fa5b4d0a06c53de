--------------------------- MODULE MCEchoServers ---------------------------
(***************************************************************************)
(* libco's server closes a connection only when its client is gone, so     *)
(* that no client is reset and Exit, the only action that asks for         *)
(* threads, is never taken with it: one value of threads is enough there.  *)
(***************************************************************************)
EXTENDS EchoServers

MCInit == Init /\ (libco => ~threads)
MCFairSpec == MCInit /\ [][Next]_vars /\ Fairness
=============================================================================
