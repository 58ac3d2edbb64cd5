----------------------------- MODULE NaturalSort -----------------------------
(***************************************************************************)
(* naturalsorting_compare (src/src/utils.cpp) and its character classes.  *)
(* A C string is a sequence of byte values (ASCII codes) and position i   *)
(* past its end reads the terminating NUL.  The pointers i and j of the   *)
(* code are indices into s and t; stringMode is the flag of the same name.*)
(*                                                                         *)
(* Digit runs are read into an unsigned long of ULONG_BITS bits (64 on    *)
(* the LP64 builds); the cfg scales the width down so that TLC reaches    *)
(* the overflow branch with short strings.                                *)
(***************************************************************************)
EXTENDS Integers, Sequences

CONSTANT ULONG_BITS

ASSUME ULONG_BITS \in 7..30

ULONG_MAX == 2^ULONG_BITS - 1

(* static uint64_t maxNumber = (ULONG_MAX - 57) / 10                      *)
maxNumber == (ULONG_MAX - 57) \div 10

(* *p: the byte at position p, or the terminating NUL past the end.       *)
At(s, p) == IF p <= Len(s) THEN s[p] ELSE 0

(* is_digit, is_symbol (isdigit / !isalnum in the "C" locale) and         *)
(* getCharType.  The CharType enumerators are declared in the order       *)
(* CSYMBOL, CDIGIT, CALPHA, which the comparison by `<` relies on.        *)
IsDigit(ch) == ch \in 48..57
IsSymbol(ch) == ~(IsDigit(ch) \/ ch \in 65..90 \/ ch \in 97..122)
CSYMBOL == 0
CDIGIT == 1
CALPHA == 2
GetCharType(ch) ==
  IF IsSymbol(ch) THEN CSYMBOL ELSE IF IsDigit(ch) THEN CDIGIT ELSE CALPHA

(* strncasecmp(&char_i, &char_j, 1): difference of the lowered bytes.     *)
ToLower(ch) == IF ch \in 65..90 THEN ch + 32 ELSE ch

(* One of the two digit loops of the numeric branch: from position p it   *)
(* accumulates number = number * 10 + digit in ULONG_BITS bits, and each  *)
(* time the number reaches maxNumber it subtracts maxNumber once and      *)
(* counts an overflow.  Returns the number, the count and where it ended. *)
RECURSIVE ReadNumber(_, _, _, _)
ReadNumber(s, p, number, count) ==
  IF At(s, p) # 0 /\ IsDigit(At(s, p))
  THEN LET n == (number * 10 + (At(s, p) - 48)) % 2^ULONG_BITS
       IN IF n >= maxNumber THEN ReadNumber(s, p + 1, n - maxNumber, count + 1)
                            ELSE ReadNumber(s, p + 1, n, count)
  ELSE [number |-> number, overflow |-> count, end |-> p]

(* strncmp(m, n, length) on digit runs, reduced to its sign.             *)
StrNCmp(s, m, t, n, length) ==
  LET diff == {k \in 0..(length - 1) : s[m + k] # t[n + k]}
  IN IF diff = {} THEN 0
     ELSE LET k == CHOOSE k \in diff : \A l \in diff : k <= l
          IN IF s[m + k] < t[n + k] THEN -1 ELSE 1

Sign(x) == IF x > 0 THEN 1 ELSE IF x < 0 THEN -1 ELSE 0

(* Mutation of RunOrder that drops the length tie-break, so that runs     *)
(* differing only in leading zeros compare equal.                         *)
RunOrderNoLength(s, t, m, n, ri, rj) ==
  IF ri.overflow # rj.overflow THEN Sign(ri.overflow - rj.overflow)
  ELSE IF ri.number # rj.number THEN (IF ri.number > rj.number THEN 1 ELSE -1)
  ELSE StrNCmp(s, m, t, n, IF ri.end - m < rj.end - n THEN ri.end - m ELSE rj.end - n)

(* The numeric branch once both runs are read: overflow counts, then the  *)
(* numbers, then strncmp over the shorter length, then the clamped        *)
(* length difference.  0 means "equal runs, back to string mode".         *)
RunOrder(s, t, m, n, ri, rj) ==
  LET length == IF ri.end - m < rj.end - n THEN ri.end - m ELSE rj.end - n
  IN IF ri.overflow # rj.overflow THEN Sign(ri.overflow - rj.overflow)
     ELSE IF ri.number # rj.number THEN (IF ri.number > rj.number THEN 1 ELSE -1)
     ELSE IF StrNCmp(s, m, t, n, length) # 0 THEN StrNCmp(s, m, t, n, length)
     ELSE Sign((ri.end - m) - (rj.end - n))

(* naturalsorting_compare(i, j) from positions i, j in the given mode.    *)
(* The inner string-mode loop and the outer loop test the same bytes, so  *)
(* both are this one recursion.  The result is given as its sign.         *)
RECURSIVE Compare(_, _, _, _, _)
Compare(s, t, i, j, stringMode) ==
  IF At(s, i) = 0 \/ At(t, j) = 0
  THEN IF At(t, j) # 0 THEN -1 ELSE IF At(s, i) # 0 THEN 1 ELSE 0
  ELSE IF stringMode
  THEN LET ti == GetCharType(At(s, i))
           tj == GetCharType(At(t, j))
       IN IF ti # tj THEN (IF ti < tj THEN -1 ELSE 1)
          ELSE IF ti = CDIGIT THEN Compare(s, t, i, j, FALSE)
          ELSE IF ToLower(At(s, i)) # ToLower(At(t, j))
               THEN Sign(ToLower(At(s, i)) - ToLower(At(t, j)))
          ELSE Compare(s, t, i + 1, j + 1, TRUE)
  ELSE LET ri == ReadNumber(s, i, 0, 0)
           rj == ReadNumber(t, j, 0, 0)
       IN IF RunOrder(s, t, i, j, ri, rj) # 0 THEN RunOrder(s, t, i, j, ri, rj)
          ELSE Compare(s, t, ri.end, rj.end, TRUE)

NaturalSortingCompare(s, t) == Compare(s, t, 1, 1, TRUE)

=============================================================================
