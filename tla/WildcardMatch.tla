---------------------------- MODULE WildcardMatch ----------------------------
(***************************************************************************)
(* wildcardMatch(pszString, pszMatch) of src/src/utils.cpp: the greedy    *)
(* matcher with one backtrack point that the sync exclusion rules and     *)
(* name filters use.  Strings are sequences of byte values; si and pi are *)
(* the two pointers as indices, mp and cp the backtrack pointers, with 0  *)
(* standing for the nullptr they start as.                                *)
(***************************************************************************)
EXTENDS Integers, Sequences

STAR == 42      \* '*'
QMARK == 63     \* '?'

(* *p: the byte at position p, or the terminating NUL past the end.       *)
CharAt(s, p) == IF p <= Len(s) THEN s[p] ELSE 0

(* The byte at pi of the pattern matches the byte at si of the text.     *)
Accepts(str, pat, si, pi) == CharAt(pat, pi) = CharAt(str, si) \/ CharAt(pat, pi) = QMARK

(* Mutation of SkipStars that leaves trailing stars in the pattern.       *)
SkipNoStars(pat, pi) == pi

(* The loop that steps pszMatch over every trailing star.                 *)
RECURSIVE SkipStars(_, _)
SkipStars(pat, pi) == IF CharAt(pat, pi) = STAR THEN SkipStars(pat, pi + 1) ELSE pi

(* The second loop, over the rest of the text, then the trailing-star    *)
(* skip and the final test of the pattern byte.  A backtrack through    *)
(* the null mp would be a crash; it yields "null" so that a property     *)
(* sees it.                                                              *)
RECURSIVE Backtracking(_, _, _, _, _, _)
Backtracking(str, pat, si, pi, mp, cp) ==
  IF CharAt(str, si) = 0
  THEN CharAt(pat, SkipStars(pat, pi)) = 0
  ELSE IF CharAt(pat, pi) = STAR
  THEN IF CharAt(pat, pi + 1) = 0 THEN TRUE
       ELSE Backtracking(str, pat, si, pi + 1, pi + 1, si + 1)
  ELSE IF Accepts(str, pat, si, pi)
  THEN Backtracking(str, pat, si + 1, pi + 1, mp, cp)
  ELSE IF mp = 0 THEN "null"
  ELSE Backtracking(str, pat, cp, mp, mp, cp + 1)

(* The first loop: literal prefix up to the first star of the pattern.   *)
RECURSIVE Prefix(_, _, _, _)
Prefix(str, pat, si, pi) ==
  IF CharAt(str, si) # 0 /\ CharAt(pat, pi) # STAR
  THEN IF ~Accepts(str, pat, si, pi) THEN FALSE
       ELSE Prefix(str, pat, si + 1, pi + 1)
  ELSE Backtracking(str, pat, si, pi, 0, 0)

WildcardMatchOf(str, pat) == Prefix(str, pat, 1, 1)

=============================================================================
