----------------------------- MODULE LikeCompare -----------------------------
(***************************************************************************)
(* icuLikeCompare / likeCompare and escapeWildCards of src/src/utils.cpp: *)
(* the LIKE matcher (taken from SQLite's icu.c) behind tag and name       *)
(* search.  '*' matches any run of characters, '?' one character, the     *)
(* escape character makes the next pattern character literal, and         *)
(* ordinary characters compare by foldCaseAccentEqual.                    *)
(*                                                                         *)
(* Strings are sequences of UTF-8 bytes, read through the code's          *)
(* SQLITE_ICU_READ_UTF8 / SKIP_UTF8 macros; position p past the end reads *)
(* the terminating NUL.  Results 0 / 1 are FALSE / TRUE.                  *)
(***************************************************************************)
EXTENDS Integers, Sequences

MATCH_ALL == 42          \* WILDCARD_MATCH_ALL, '*'
MATCH_ONE == 63          \* WILDCARD_MATCH_ONE, '?'
ESCAPE_CHARACTER == 92   \* '\'

Byte(s, p) == IF p <= Len(s) THEN s[p] ELSE 0

(* icuUtf8Trans1: the payload bits of a lead byte 0xC0 .. 0xFF.           *)
IcuUtf8Trans1 ==
  << 0, 1, 2, 3, 4, 5, 6, 7, 8, 9, 10, 11, 12, 13, 14, 15,
     16, 17, 18, 19, 20, 21, 22, 23, 24, 25, 26, 27, 28, 29, 30, 31,
     0, 1, 2, 3, 4, 5, 6, 7, 8, 9, 10, 11, 12, 13, 14, 15,
     0, 1, 2, 3, 4, 5, 6, 7, 0, 1, 2, 3, 0, 1, 0, 0 >>

IsContinuation(b) == b >= 128 /\ b < 192

(* The while loop of SQLITE_ICU_READ_UTF8: fold continuation bytes in.    *)
RECURSIVE Continue(_, _, _)
Continue(s, p, c) ==
  IF IsContinuation(Byte(s, p)) THEN Continue(s, p + 1, c * 64 + (Byte(s, p) % 64))
  ELSE [c |-> c, next |-> p]

(* SQLITE_ICU_READ_UTF8(zIn, c): the code point at p and where it ends.  *)
ReadUtf8(s, p) ==
  IF Byte(s, p) >= 192 THEN Continue(s, p + 1, IcuUtf8Trans1[Byte(s, p) - 192 + 1])
  ELSE [c |-> Byte(s, p), next |-> p + 1]

(* SQLITE_ICU_SKIP_UTF8(zIn).                                             *)
RECURSIVE SkipCont(_, _)
SkipCont(s, p) == IF IsContinuation(Byte(s, p)) THEN SkipCont(s, p + 1) ELSE p
SkipUtf8(s, p) == IF Byte(s, p) >= 192 THEN SkipCont(s, p + 1) ELSE p + 1

(* foldCaseAccentEqual: utf8proc's case fold (and, with stripAccents,    *)
(* mark stripping) of both code points, compared.  Given for the code    *)
(* points the model uses: ASCII letters, E and e with acute accent.       *)
Fold(c, stripAccents) ==
  LET lower == IF c \in 65..90 THEN c + 32 ELSE IF c = 201 THEN 233 ELSE c
  IN IF stripAccents /\ lower = 233 THEN 101 ELSE lower

FoldCaseAccentEqual(c1, c2, stripAccents) == Fold(c1, stripAccents) = Fold(c2, stripAccents)

(* Mutation of SkipWild that does not consume a character for '?'.        *)
SkipWildNoConsume(pat, str, pi, si) ==
  LET RECURSIVE L(_, _)
      L(p, s) == IF Byte(pat, p) = MATCH_ALL \/ Byte(pat, p) = MATCH_ONE
                 THEN IF Byte(pat, p) = MATCH_ONE /\ Byte(str, s) = 0 THEN [ok |-> FALSE, pi |-> p, si |-> s]
                      ELSE L(p + 1, s)
                 ELSE [ok |-> TRUE, pi |-> p, si |-> s]
  IN L(pi, si)

(* Case 1's first loop: skip the '*' and '?' that follow a '*', one      *)
(* character of the text for each '?' (return 0 if there is none).        *)
SkipWild(pat, str, pi, si) ==
  LET RECURSIVE L(_, _)
      L(p, s) == IF Byte(pat, p) = MATCH_ALL \/ Byte(pat, p) = MATCH_ONE
                 THEN IF Byte(pat, p) = MATCH_ONE
                      THEN IF Byte(str, s) = 0 THEN [ok |-> FALSE, pi |-> p, si |-> s]
                           ELSE L(p + 1, SkipUtf8(str, s))
                      ELSE L(p + 1, s)
                 ELSE [ok |-> TRUE, pi |-> p, si |-> s]
  IN L(pi, si)

(* icuLikeCompare(zPattern + pi, zString + si) with prevEscape; case 1    *)
(* tries the rest of the pattern at every remaining text position.       *)
RECURSIVE IcuLikeCompare(_, _, _, _, _, _)
IcuLikeCompare(pat, str, pi, si, prevEscape, stripAccents) ==
  LET rp == ReadUtf8(pat, pi)
      u == rp.c
  IN IF u = 0 THEN Byte(str, si) = 0
     ELSE IF u = MATCH_ALL /\ ~prevEscape
     THEN LET w == SkipWild(pat, str, rp.next, si)
              RECURSIVE Try(_)
              Try(s) == Byte(str, s) # 0
                        /\ (IcuLikeCompare(pat, str, w.pi, s, FALSE, stripAccents)
                            \/ Try(SkipUtf8(str, s)))
          IN w.ok /\ (Byte(pat, w.pi) = 0 \/ Try(w.si))
     ELSE IF u = MATCH_ONE /\ ~prevEscape
     THEN Byte(str, si) # 0
          /\ IcuLikeCompare(pat, str, rp.next, SkipUtf8(str, si), prevEscape, stripAccents)
     ELSE IF u = ESCAPE_CHARACTER /\ ~prevEscape
     THEN IcuLikeCompare(pat, str, rp.next, si, TRUE, stripAccents)
     ELSE LET rs == ReadUtf8(str, si)
          IN FoldCaseAccentEqual(rs.c, u, stripAccents)
             /\ IcuLikeCompare(pat, str, rp.next, rs.next, FALSE, stripAccents)

LikeCompareOf(pat, str, stripAccents) == IcuLikeCompare(pat, str, 1, 1, FALSE, stripAccents)

(* Mutation of EscapeWildCards that escapes '*' only.                     *)
EscapeWildCardsStarOnly(s) ==
  LET RECURSIVE E(_, _)
      E(i, isEscaped) ==
        IF i > Len(s) THEN << >>
        ELSE (IF s[i] = MATCH_ALL /\ ~isEscaped THEN << ESCAPE_CHARACTER >> ELSE << >>)
             \o << s[i] >> \o E(i + 1, s[i] = ESCAPE_CHARACTER /\ ~isEscaped)
  IN E(1, FALSE)

(* escapeWildCards: an escape before every '*' and '?' that does not      *)
(* already follow an unescaped escape.                                    *)
EscapeWildCards(s) ==
  LET RECURSIVE E(_, _)
      E(i, isEscaped) ==
        IF i > Len(s) THEN << >>
        ELSE (IF s[i] \in {MATCH_ONE, MATCH_ALL} /\ ~isEscaped THEN << ESCAPE_CHARACTER >> ELSE << >>)
             \o << s[i] >> \o E(i + 1, s[i] = ESCAPE_CHARACTER /\ ~isEscaped)
  IN E(1, FALSE)

(* TextPattern::isOnlyWildCards: every character is '*'.                  *)
IsOnlyWildCards(text) == \A i \in 1..Len(text) : text[i] = MATCH_ALL

(* TextPattern::recalcPattern: no pattern for an empty or all-'*' text,   *)
(* otherwise the text wrapped in '*'.                                     *)
RecalcPattern(text) ==
  IF text = << >> \/ IsOnlyWildCards(text) THEN << >>
  ELSE << MATCH_ALL >> \o text \o << MATCH_ALL >>

=============================================================================
