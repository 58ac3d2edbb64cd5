------------------------------ MODULE ReadLines ------------------------------
(***************************************************************************)
(* readLines(const std::string&, string_vector&) of src/src/utils.cpp:    *)
(* splits a UTF-8 text (exclusion files, .megaignore) into its non-blank  *)
(* lines.  The input is a sequence of byte values; current, delim and     *)
(* whitespace are the three pointers of the code, as indices.            *)
(***************************************************************************)
EXTENDS Integers, Sequences

CR == 13
LF == 10
BOM == <<239, 187, 191>>

IsEol(ch) == ch = CR \/ ch = LF

(* is_space: std::isspace in the "C" locale.                              *)
IsSpace(ch) == ch \in {9, 10, 11, 12, 13, 32}

(* Skip a UTF-8 byte order mark when the input is longer than 2 bytes.  *)
Start(in) == IF Len(in) > 2 /\ SubSeq(in, 1, 3) = BOM THEN 4 ELSE 1

(* The loop that steps current over a run of CR and LF bytes.            *)
RECURSIVE SkipEols(_, _)
SkipEols(in, p) == IF p <= Len(in) /\ IsEol(in[p]) THEN SkipEols(in, p + 1) ELSE p

(* Mutation of ScanLine that advances whitespace on every byte.           *)
RECURSIVE ScanLineAllSpace(_, _, _)
ScanLineAllSpace(in, delim, whitespace) ==
  IF delim <= Len(in) /\ ~IsEol(in[delim])
  THEN ScanLineAllSpace(in, delim + 1, whitespace + 1)
  ELSE <<delim, whitespace>>

(* The inner loop: delim runs to the end of the line, and whitespace      *)
(* moves along with it for as long as it stands on a space.  Returns the *)
(* pair <<delim, whitespace>> at the end of the line.                    *)
RECURSIVE ScanLine(_, _, _)
ScanLine(in, delim, whitespace) ==
  IF delim <= Len(in) /\ ~IsEol(in[delim])
  THEN ScanLine(in, delim + 1, IF IsSpace(in[whitespace]) THEN whitespace + 1 ELSE whitespace)
  ELSE <<delim, whitespace>>

(* The outer loop: from current, scan a line, emit it unless delim and    *)
(* whitespace met (the line was all spaces), skip the line ends.          *)
RECURSIVE Lines(_, _)
Lines(in, current) ==
  IF current > Len(in) THEN << >>
  ELSE LET scan == ScanLine(in, current, current)
           line == IF scan[1] # scan[2] THEN << SubSeq(in, current, scan[1] - 1) >> ELSE << >>
       IN line \o Lines(in, SkipEols(in, scan[1]))

ReadLinesOf(in) == Lines(in, SkipEols(in, Start(in)))

=============================================================================
