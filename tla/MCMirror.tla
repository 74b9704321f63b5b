------------------------------- MODULE MCMirror -------------------------------
(***************************************************************************)
(* An instance of MirrorIndex: two files, two records, two reads.          *)
(***************************************************************************)
EXTENDS MirrorIndex

CONSTANT p1
=============================================================================
