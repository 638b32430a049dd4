---------------------------- MODULE MCHandleManage ----------------------------
(* Instances of HandleManage for TLC. *)
EXTENDS HandleManage, TLC

CONSTANTS h1, h2, h3

\* Two of the handles agree in the member that is searched for.
MCMember == h1 :> 1 @@ h2 :> 2 @@ h3 :> 1
=============================================================================
