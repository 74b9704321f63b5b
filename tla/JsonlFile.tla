------------------------------- MODULE JsonlFile -------------------------------
(***************************************************************************)
(* A file of JSON lines that one process appends to and reads again when   *)
(* it starts, as graph-node and archive-node keep one.  A line is written  *)
(* with its newline in one call that may be cut short.  A line that does   *)
(* not parse is Garbage.                                                   *)
(***************************************************************************)
EXTENDS Sequences, Naturals

CONSTANT Garbage

\* torn: the file does not end with a newline.
EmptyFile == [lines |-> <<>>, torn |-> FALSE]

JoinedLines(file) == [file.lines EXCEPT ![Len(file.lines)] = Garbage]

\* A whole line is written.  It becomes part of a torn last line, if there is one.
AppendLine(file, line) ==
  [lines |-> IF file.torn THEN JoinedLines(file) ELSE Append(file.lines, line),
   torn |-> FALSE]

\* The write is cut short: inside the line, or before its newline only.
CutLine(file, line) ==
  IF file.torn THEN {[lines |-> JoinedLines(file), torn |-> TRUE]}
  ELSE {[lines |-> Append(file.lines, l), torn |-> TRUE] : l \in {line, Garbage}}
=============================================================================
