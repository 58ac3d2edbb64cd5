---------------------------- MODULE Utf8ToUnicode ----------------------------
(***************************************************************************)
(* Utils::utf8toUnicode of src/src/utils.cpp: decode UTF-8 into one byte   *)
(* per character (ISO 8859-1).  Only ASCII bytes and the two-byte          *)
(* sequences led by 0xC2 or 0xC3 are accepted.  On failure the result      *)
(* string is left as it was; the model then returns ok = FALSE only.       *)
(***************************************************************************)
EXTENDS Integers, Sequences

(* Mutation of Utf8toUnicode that accepts any lead byte from 0xC2 on.     *)
Utf8toUnicodeAnyLead(src) ==
  LET RECURSIVE D(_, _)
      D(i, res) ==
        IF i > Len(src) THEN [ok |-> TRUE, result |-> res]
        ELSE IF src[i] < 128 THEN D(i + 1, Append(res, src[i]))
        ELSE IF i + 1 > Len(src) THEN [ok |-> FALSE, result |-> << >>]
        ELSE IF src[i] >= 194 /\ src[i + 1] >= 128 /\ src[i + 1] <= 191
             THEN D(i + 2, Append(res, ((src[i] % 32) * 64 + (src[i + 1] % 64)) % 256))
             ELSE [ok |-> FALSE, result |-> << >>]
  IN D(1, << >>)

(* The while loop over src: an ASCII byte is copied; a byte from 0x80 on  *)
(* must be followed by a continuation byte and be 0xC2 or 0xC3, and the   *)
(* pair gives ((cp1 & 0x1F) << 6) + (cp2 & 0x3F), stored as a byte.       *)
Utf8toUnicode(src) ==
  LET RECURSIVE D(_, _)
      D(i, res) ==
        IF i > Len(src) THEN [ok |-> TRUE, result |-> res]
        ELSE IF src[i] < 128 THEN D(i + 1, Append(res, src[i]))
        ELSE IF i + 1 > Len(src) THEN [ok |-> FALSE, result |-> << >>]
        ELSE IF src[i] \in {194, 195} /\ src[i + 1] >= 128 /\ src[i + 1] <= 191
             THEN D(i + 2, Append(res, ((src[i] % 32) * 64 + (src[i + 1] % 64)) % 256))
             ELSE [ok |-> FALSE, result |-> << >>]
  IN D(1, << >>)

=============================================================================
