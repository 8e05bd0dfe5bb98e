------------------------------ MODULE MCPeople ------------------------------
(***************************************************************************)
(* A phone book for checking People.                                      *)
(***************************************************************************)
EXTENDS People, TLC

CONSTANTS t1, w1, o1

\* One human on both channels, and the owner's own account.
OneBridge == (t1 :> "p") @@ (w1 :> "p") @@ (o1 :> "q")
=============================================================================
