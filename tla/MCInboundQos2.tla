----------------------------- MODULE MCInboundQos2 -----------------------------
(***************************************************************************)
(* A small instance of InboundQos2.                                        *)
(***************************************************************************)
EXTENDS InboundQos2, TLC

\* Two messages under one id.
MCMsgs == {1, 2}
MCIds == {1}
MCIdOf == 1 :> 1 @@ 2 :> 1

================================================================================
