----------------------------- MODULE MCMqttSession -----------------------------
(***************************************************************************)
(* Small instances of MqttSession.                                         *)
(***************************************************************************)
EXTENDS MqttSession, TLC

\* Calls are interchangeable.
Symmetry == Permutations(Calls)

================================================================================
