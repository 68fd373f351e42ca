------------------------------ MODULE MCGateway ------------------------------
(* Gateway with as many sessions and requests as its .cfg allows.          *)
EXTENDS Gateway
=============================================================================
