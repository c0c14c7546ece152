------------------------------ MODULE MCAppRun ------------------------------
(***************************************************************************)
(* A small instance of AppRun: a gateway call, a direct gRPC call and a    *)
(* call to the debug port.  Each server has a port of its own, and any of  *)
(* the three may be held by a stranger.                                    *)
(***************************************************************************)
EXTENDS AppRun, TLC

CONSTANTS g1, r1, d1

MCCalls == {g1, r1, d1}
MCKind == (g1 :> "http") @@ (r1 :> "grpc") @@ (d1 :> "debug")

MCPorts == 8080 .. 8082
MCOwnPorts == [grpc |-> 8080, http |-> 8081, debug |-> 8082]
=============================================================================
