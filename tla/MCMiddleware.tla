---------------------------- MODULE MCMiddleware ----------------------------
(***************************************************************************)
(* An instance of Middleware: two calls of one context without an inbound  *)
(* hash, and one of another context that carries one.                      *)
(***************************************************************************)
EXTENDS Middleware

CONSTANTS c1, c2, c3, x1, x2, t1

MCCtxOf == [c \in Calls |-> IF c = c3 THEN x2 ELSE x1]

MCInboundOf == [c \in Calls |-> IF c = c3 THEN t1 ELSE Nil]
=============================================================================
