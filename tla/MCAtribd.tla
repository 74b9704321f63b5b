------------------------------ MODULE MCAtribd ------------------------------
(***************************************************************************)
(* Instances of AtribdBackend.  Calls a1 and a2 are an action and its      *)
(* retry, b1 reuses their key for another action in another context, e1    *)
(* has a key of its own, u1 writes without a key in the first context, n1  *)
(* has a key and no context, m1 a key and a malformed context.             *)
(***************************************************************************)
EXTENDS AtribdBackend

CONSTANTS a1, a2, b1, e1, u1, n1, m1, k1, k2, x1, x2, doA, doB

MCKeyOf == [c \in Calls |-> CASE c = u1 -> NoKey [] c = e1 -> k2 [] OTHER -> k1]

MCCtxOf == [c \in Calls |-> CASE c \in {b1, e1} -> x2
                              [] c = n1 -> NoContext
                              [] c = m1 -> BadContext
                              [] OTHER -> x1]

MCBindingOf == [c \in Calls |-> IF c \in {a1, a2} THEN doA ELSE doB]
=============================================================================
