----------------------------- MODULE MCTcpServer -----------------------------
(* TcpServer for TLC. *)
EXTENDS TcpServer

(* The uninitialised totalClients: any value. *)
AnyTotal == 0..Ids-1
==============================================================================
