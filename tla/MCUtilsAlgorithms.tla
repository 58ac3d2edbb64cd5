------------------------- MODULE MCUtilsAlgorithms -------------------------
(***************************************************************************)
(* Checks the pure algorithms of src/src/utils.cpp against reference      *)
(* definitions over every small input.  Each behaviour works on one of    *)
(* them, named by phase:                                                  *)
(*   "grid"  walks a file of every size up to MaxSize chunk by chunk      *)
(*           (ChunkedHash::chunkfloor / chunkceil, generateMetaMac);      *)
(*   "sort"  grows a pair of strings x, y (naturalsorting_compare);       *)
(*   "glob"  grows a text x and a pattern y (wildcardMatch);              *)
(*   "lines" grows an input x (readLines);                                *)
(*   "codec" grows a record x of cache fields (CacheableWriter / Reader); *)
(*   "like" grows a text x and a pattern y of code points (likeCompare);  *)
(*   "latin1" grows code points x and bytes y (Utils::utf8toUnicode);   *)
(*   "upload" appends to x the next UploadHandle::next() from the last   *)
(*            one, starting at UNDEF.                                     *)
(* Growing byte by byte makes every input of the bounds a reachable state.*)
(***************************************************************************)
EXTENDS ChunkedHash, NaturalSort, WildcardMatch, ReadLines, CacheableCodec, LikeCompare, Utf8ToUnicode, UploadHandle, SequencesExt

CONSTANTS
  Phases,                  \* the algorithms checked by this run
  MaxSize,                 \* grid: largest file size walked (model units)
  SortChars, SortMaxLen,   \* sort: bytes and length of the strings
  TextChars, PatternChars, \* glob: bytes of text and pattern
  GlobMaxLen,              \* glob: length of text and pattern
  LineBytes, LinesMaxLen,  \* lines: bytes and length of the input
  CodecMaxFields,          \* codec: fields in a record
  LikeTextChars,           \* like: code points of the text
  LikePatternChars,        \* like: code points of the pattern
  LikeMaxLen,              \* like: characters in text and pattern
  Latin1Chars,             \* latin1: code points below 256
  Utf8Bytes,               \* latin1: bytes of the UTF-8 input
  Latin1MaxLen,            \* latin1: length of both
  UploadMaxCalls           \* upload: calls of next() in a row

VARIABLES
  phase,
  x, y,              \* the strings of "sort", "glob" and "lines"
  size, pos, step    \* the file size, chunk start and chunk count of "grid"

vars == <<phase, x, y, size, pos, step>>

(* codec: one field of each kind, with values at the edges of their      *)
(* encoding (sign bits, bytes above 127, empty and NUL-terminated text).  *)
CodecFields ==
  { [kind |-> "u8", val |-> 200], [kind |-> "i8", val |-> -1],
    [kind |-> "u16", val |-> 258], [kind |-> "i32", val |-> -129],
    [kind |-> "u64", val |-> 70000], [kind |-> "handle", val |-> 5],
    [kind |-> "bool", val |-> TRUE], [kind |-> "nodehandle", val |-> 65536],
    [kind |-> "string", val |-> <<97, 0>>], [kind |-> "string", val |-> << >>],
    [kind |-> "cstr", val |-> <<97>>, null |-> FALSE, storeNull |-> TRUE, removeNull |-> TRUE],
    [kind |-> "cstr", val |-> << >>, null |-> TRUE, storeNull |-> TRUE, removeNull |-> TRUE],
    [kind |-> "pstr", val |-> << >>, null |-> TRUE],
    [kind |-> "string_u32", val |-> <<98>>],
    [kind |-> "wstring", val |-> <<300>>],
    [kind |-> "flags", val |-> <<TRUE, FALSE, FALSE, FALSE, FALSE, FALSE, FALSE, FALSE>>, used |-> 2],
    [kind |-> "binary", val |-> <<1, 255>>] }

XChars == CASE phase = "sort" -> SortChars [] phase = "glob" -> TextChars
            [] phase = "codec" -> CodecFields
            [] phase = "like" -> LikeTextChars
            [] phase = "latin1" -> Latin1Chars
            [] phase = "upload" -> {NextLoop(IF x = << >> THEN UNDEF ELSE Last(x).h)}
            [] OTHER -> LineBytes
YChars == CASE phase = "sort" -> SortChars [] phase = "glob" -> PatternChars
            [] phase = "like" -> LikePatternChars
            [] phase = "latin1" -> Utf8Bytes
            [] OTHER -> {}
MaxLenOf == CASE phase = "sort" -> SortMaxLen [] phase = "glob" -> GlobMaxLen
              [] phase = "codec" -> CodecMaxFields
              [] phase = "like" -> LikeMaxLen
              [] phase = "latin1" -> Latin1MaxLen
              [] phase = "upload" -> UploadMaxCalls
              [] OTHER -> LinesMaxLen

Init ==
  /\ phase \in Phases
  /\ x = << >> /\ y = << >>
  /\ size \in (IF phase = "grid" THEN 0..MaxSize ELSE {0})
  /\ pos = 0 /\ step = 0

Walk ==
  /\ phase = "grid" /\ pos < size
  /\ pos' = ChunkCeil(pos, size)
  /\ step' = step + 1
  /\ UNCHANGED <<phase, x, y, size>>

GrowX(ch) == phase # "grid" /\ Len(x) < MaxLenOf /\ x' = Append(x, ch) /\ UNCHANGED <<phase, y, size, pos, step>>
GrowY(ch) == phase # "grid" /\ Len(y) < MaxLenOf /\ y' = Append(y, ch) /\ UNCHANGED <<phase, x, size, pos, step>>

(* A readLines input that starts with the byte order mark.                *)
StartWithBom == phase = "lines" /\ x = << >> /\ x' = BOM /\ UNCHANGED <<phase, y, size, pos, step>>

Next == Walk \/ StartWithBom \/ (\E ch \in XChars : GrowX(ch)) \/ (\E ch \in YChars : GrowY(ch))

Spec == Init /\ [][Next]_vars

TypeOK ==
  /\ phase \in Phases
  /\ size \in 0..MaxSize
  /\ pos \in 0..size
  /\ step \in 0..MaxSize

(* ---------------- chunk grid -------------------------------------- *)
(* Reference grid: boundary i is SEGSIZE * i*(i+1)/2 for i <= 8, then    *)
(* every further chunk adds 8*SEGSIZE.                                    *)
RefBoundary(i) ==
  IF i <= 8 THEN (SEGSIZE * i * (i + 1)) \div 2
            ELSE 36 * SEGSIZE + (i - 8) * 8 * SEGSIZE

RefIndex(p) == CHOOSE i \in 0..MaxSize : RefBoundary(i) <= p /\ p < RefBoundary(i + 1)

(* Every byte of the chunk the walk stands on has that chunk's start as  *)
(* chunkfloor, the reference next boundary as chunkceil without limit,   *)
(* and that boundary clamped to the file size as chunkceil with a limit. *)
ChunkGridMatchesReference ==
  pos < size =>
    \A p \in pos..(RefBoundary(RefIndex(pos) + 1) - 1) :
      /\ RefBoundary(RefIndex(pos)) = pos
      /\ ChunkFloor(p) = pos
      /\ ChunkCeil(p, -1) = RefBoundary(RefIndex(pos) + 1)
      /\ ChunkCeil(p, size) = MinOf(RefBoundary(RefIndex(pos) + 1), size)

(* generateMetaMac reads the file in pieces that are exactly the chunks  *)
(* of the grid: its step-th ctr_encrypt call covers the chunk the walk   *)
(* stands on, and it makes no call past the last chunk.  A mismatch      *)
(* would make every local meta-MAC check of large files fail.            *)
MetaMacPiecesAreChunks ==
  LET pieces == GenerateMetaMacPieces(size)
  IN /\ pos < size => /\ step < Len(pieces)
                      /\ pieces[step + 1] = <<pos, ChunkCeil(pos, size) - pos>>
     /\ pos = size => Len(pieces) = step

(* ---------------- natural order --------------------------------- *)
(* A string is a sequence of tokens: a maximal run of digits, or a single *)
(* other byte.  Tokens compare by class (symbols before numbers before    *)
(* letters); letters and symbols by their lower-case byte; numbers by     *)
(* their decimal value and, for equal values, by their digits as text     *)
(* ("00123" < "123"), and a string that is a token prefix of the other    *)
(* comes first.  This is the order utils_test.cpp's natural_sorting test  *)
(* describes.                                                             *)
RECURSIVE DigitRunLen(_)
DigitRunLen(s) == IF s # << >> /\ IsDigit(Head(s)) THEN 1 + DigitRunLen(Tail(s)) ELSE 0

RECURSIVE Tokens(_)
Tokens(s) ==
  IF s = << >> THEN << >>
  ELSE LET k == IF IsDigit(Head(s)) THEN DigitRunLen(s) ELSE 1
       IN << SubSeq(s, 1, k) >> \o Tokens(SubSeq(s, k + 1, Len(s)))

RECURSIVE Value(_)
Value(d) == IF d = << >> THEN 0 ELSE 10 * Value(SubSeq(d, 1, Len(d) - 1)) + (d[Len(d)] - 48)

(* Plain lexicographic order of byte sequences, as a sign.               *)
RECURSIVE LexOrder(_, _)
LexOrder(u, v) ==
  IF u = << >> \/ v = << >> THEN Sign(Len(u) - Len(v))
  ELSE IF Head(u) # Head(v) THEN Sign(Head(u) - Head(v))
  ELSE LexOrder(Tail(u), Tail(v))

TokenOrder(u, v) ==
  LET cx == GetCharType(Head(u))
      cy == GetCharType(Head(v))
  IN IF cx # cy THEN Sign(cx - cy)
     ELSE IF cx # CDIGIT THEN Sign(ToLower(Head(u)) - ToLower(Head(v)))
     ELSE IF Value(u) # Value(v) THEN Sign(Value(u) - Value(v))
     ELSE LexOrder(u, v)

RECURSIVE TokenListOrder(_, _)
TokenListOrder(u, v) ==
  IF u = << >> \/ v = << >> THEN Sign(Len(u) - Len(v))
  ELSE IF TokenOrder(Head(u), Head(v)) # 0 THEN TokenOrder(Head(u), Head(v))
  ELSE TokenListOrder(Tail(u), Tail(v))

NaturalOrder(s, t) == TokenListOrder(Tokens(s), Tokens(t))

(* naturalsorting_compare orders every pair of strings the way the        *)
(* reference natural order does, overflow branch of its digit loops       *)
(* included.  As the reference is a total preorder, this also makes the   *)
(* comparator antisymmetric and transitive, which std::sort needs.        *)
CompareMatchesNaturalOrder == phase = "sort" => NaturalSortingCompare(x, y) = NaturalOrder(x, y)

(* ---------------- wildcard match -------------------------------- *)
(* Reference glob: '*' matches any run of bytes, the empty one included, *)
(* '?' any single byte, every other byte itself, and the whole text must *)
(* be matched.                                                            *)
RECURSIVE Glob(_, _)
Glob(s, p) ==
  IF p = << >> THEN s = << >>
  ELSE IF Head(p) = STAR THEN Glob(s, Tail(p)) \/ (s # << >> /\ Glob(Tail(s), p))
  ELSE s # << >> /\ (Head(p) = QMARK \/ Head(p) = Head(s)) /\ Glob(Tail(s), Tail(p))

(* wildcardMatch returns the glob verdict for every text and pattern:    *)
(* its single backtrack point (restart one byte later after the last     *)
(* star) never gives up a match nor accepts a non-match, and it never    *)
(* backtracks through the null mp of a pattern without a star.           *)
WildcardMatchIsGlob == phase = "glob" => WildcardMatchOf(x, y) = Glob(x, y)

(* ---------------- line split ------------------------------------ *)
(* Reference: without a leading byte order mark, the text is cut at every *)
(* CR and at every LF; the pieces that contain a byte other than a space  *)
(* are the lines, in order and with their leading and trailing spaces.   *)
Body(in) == IF Len(in) >= 3 /\ SubSeq(in, 1, 3) = BOM THEN SubSeq(in, 4, Len(in)) ELSE in

Pieces(in) ==
  LET eols == {k \in 1..Len(in) : IsEol(in[k])}
      bounds == << 0 >> \o SetToSortSeq(eols, <) \o << Len(in) + 1 >>
  IN [k \in 1..(Len(bounds) - 1) |-> SubSeq(in, bounds[k] + 1, bounds[k + 1] - 1)]

NonBlank(line) == \E k \in 1..Len(line) : ~IsSpace(line[k])

RefLines(in) == SelectSeq(Pieces(Body(in)), NonBlank)

(* readLines yields exactly the non-blank lines of the text, whatever mix *)
(* of CR, LF and CRLF ends them and however many blank or space-only     *)
(* lines separate them, and drops a leading byte order mark.              *)
ReadLinesIsLineSplit == phase = "lines" => ReadLinesOf(x) = RefLines(x)

(* ---------------- cache record codec ------------------------------ *)
(* What the reader should hand back for a field: the value written (the  *)
(* empty text for a null cstr or pstr).                                  *)
Expected(f) == IF f.kind \in {"cstr", "pstr"} /\ f.null THEN << >> ELSE f.val

ExpectedVals(fs) == [i \in 1..Len(fs) |-> Expected(fs[i])]

(* A record the CacheableWriter serializes is read back by the           *)
(* CacheableReader field by field with the values written, and the       *)
(* reader ends exactly at the end of the record.                         *)
CodecRoundTrip ==
  phase = "codec" =>
    LET buf == Serialize(x)
        r == Unserialize(buf, 0, x)
    IN r.ok /\ r.vals = ExpectedVals(x) /\ r.ptr = Len(buf)

(* A record cut short at any byte (a cache row written only in part) is  *)
(* refused: some read fails, the reader's pointer never passes the end   *)
(* of what is there, and the fields before the cut read back right.      *)
TruncatedRecordRejected ==
  phase = "codec" =>
    LET buf == Serialize(x)
    IN \A c \in 0..(Len(buf) - 1) :
         LET r == Unserialize(SubSeq(buf, 1, c), 0, x)
         IN /\ ~r.ok
            /\ r.ptr <= c
            /\ r.vals = SubSeq(ExpectedVals(x), 1, Len(r.vals))


(* ---------------- LIKE matching ------------------------------------ *)
(* The UTF-8 bytes of a sequence of code points (below U+10000).         *)
RECURSIVE Utf8(_)
Utf8(cs) ==
  IF cs = << >> THEN << >>
  ELSE LET c == Head(cs)
           enc == IF c < 128 THEN << c >>
                  ELSE IF c < 2048 THEN << 192 + (c \div 64), 128 + (c % 64) >>
                  ELSE << 224 + (c \div 4096), 128 + ((c \div 64) % 64), 128 + (c % 64) >>
       IN enc \o Utf8(Tail(cs))

(* A pattern as tokens: ANY, ONE or a literal code point; an escape      *)
(* makes the next character literal, and a lone escape at the end is no  *)
(* token.                                                                *)
ANY == -1
ONE == -2
RECURSIVE LikeTokens(_)
LikeTokens(ps) ==
  IF ps = << >> THEN << >>
  ELSE IF Head(ps) = ESCAPE_CHARACTER
       THEN IF Len(ps) = 1 THEN << >> ELSE << ps[2] >> \o LikeTokens(Tail(Tail(ps)))
  ELSE << CASE Head(ps) = MATCH_ALL -> ANY [] Head(ps) = MATCH_ONE -> ONE
               [] OTHER -> Head(ps) >> \o LikeTokens(Tail(ps))

(* The text cs matches the tokens: ANY takes any run, ONE one            *)
(* character, a literal one character equal to it after folding.         *)
RECURSIVE LikeMatches(_, _, _)
LikeMatches(ts, cs, strip) ==
  IF ts = << >> THEN cs = << >>
  ELSE IF Head(ts) = ANY
       THEN \E k \in 0..Len(cs) : LikeMatches(Tail(ts), SubSeq(cs, k + 1, Len(cs)), strip)
  ELSE /\ cs # << >>
       /\ Head(ts) = ONE \/ Fold(Head(ts), strip) = Fold(Head(cs), strip)
       /\ LikeMatches(Tail(ts), Tail(cs), strip)

(* A pattern whose last character is an escape that escapes nothing.    *)
EndsInLoneEscape(ps) ==
  LET RECURSIVE Trail(_) Trail(k) == IF k > 0 /\ ps[k] = ESCAPE_CHARACTER THEN 1 + Trail(k - 1) ELSE 0
  IN Trail(Len(ps)) % 2 = 1

(* likeCompare, with accents stripped or not, decides LIKE matching of   *)
(* the UTF-8 text against the pattern: '*' and '?' after '*', escapes    *)
(* before wildcards and escapes, and multi-byte characters included.      *)
(* Patterns ending in a lone escape have no agreed meaning and are left  *)
(* out.                                                                  *)
LikeCompareIsLike ==
  phase = "like" /\ ~EndsInLoneEscape(y) =>
    \A strip \in BOOLEAN :
      LikeCompareOf(Utf8(y), Utf8(x), strip) = LikeMatches(LikeTokens(y), x, strip)

(* A text passed through escapeWildCards, used as a pattern, matches      *)
(* exactly the texts equal to it up to case: its '*' and '?' are taken   *)
(* literally.  Made into a search pattern by TextPattern (wrapped in      *)
(* '*'), a non-empty escaped text matches exactly the texts that contain *)
(* it up to case.                                                        *)
FoldEqualAt(t, i) == \A j \in 1..Len(x) : Fold(x[j], FALSE) = Fold(t[i + j], FALSE)

EscapedTextMatchesLiterally ==
  phase = "like" =>
    /\ LikeCompareOf(Utf8(EscapeWildCards(x)), Utf8(y), FALSE)
         = (Len(x) = Len(y) /\ FoldEqualAt(y, 0))
    /\ x # << >> =>
         LikeCompareOf(Utf8(RecalcPattern(EscapeWildCards(x))), Utf8(y), FALSE)
           = \E i \in 0..(Len(y) - Len(x)) : FoldEqualAt(y, i)

(* ---------------- UTF-8 to Latin-1 ---------------------------------- *)
(* utf8toUnicode accepts exactly the UTF-8 encodings of Latin-1 text:     *)
(* the encoding of any text of code points below 256 decodes to that      *)
(* text, and any byte string it accepts is the encoding of what it        *)
(* returns, so overlong, truncated and out-of-range sequences are all     *)
(* refused.                                                               *)
Utf8ToUnicodeIsLatin1 ==
  phase = "latin1" =>
    /\ Utf8toUnicode(Utf8(x)) = [ok |-> TRUE, result |-> x]
    /\ Utf8toUnicode(y).ok => Utf8(Utf8toUnicode(y).result) = y

(* ---------------- upload handles ------------------------------------ *)
(* Reference order: the handle's bytes read as a number whose lowest     *)
(* digit is the byte at the highest address; the valid handles are the   *)
(* ones that are not UNDEF and do not clash with a NodeHandle.           *)
CounterKey(b) == FoldLeft(LAMBDA acc, d : acc * BYTE_MOD + d, 0, b)
ValidUploadHandle(b) == ~TopTwoZero(b) /\ b # UNDEF
ValidUploadHandles == {b \in Handles : ValidUploadHandle(b)}
FirstByKey(S) == CHOOSE c \in S : \A d \in S : CounterKey(c) <= CounterKey(d)

RefNextUpload(b) ==
  LET later == {c \in ValidUploadHandles : CounterKey(c) > CounterKey(b)}
  IN IF later # {} THEN FirstByKey(later) ELSE FirstByKey(ValidUploadHandles)

(* Successive UploadHandle::next() calls from UNDEF never write outside  *)
(* the handle, each returns the next valid handle in counter order       *)
(* (wrapping past UNDEF to the start), and so no two of any run of as     *)
(* many calls as there are valid handles return the same handle: no two *)
(* uploads share a handle, and none clashes with a NodeHandle or UNDEF.  *)
UploadHandlesFollowCounter ==
  phase = "upload" =>
    /\ \A i \in 1..Len(x) :
         /\ ~x[i].overrun
         /\ x[i].h = RefNextUpload(IF i = 1 THEN UNDEF ELSE x[i - 1].h)
    /\ \A i, j \in 1..Len(x) :
         i < j /\ j - i < Cardinality(ValidUploadHandles) => x[i].h # x[j].h

=============================================================================
