CONSTANTS
  Phases = {"sort"}
  SEGSIZE = 2
  SZ_128K = 2
  SZ_1024K = 16
  MaxSize = 120
  ULONG_BITS = 10
  SortChars = {48, 54, 57}
  SortMaxLen = 3
  TextChars = {97, 98, 63}
  PatternChars = {97, 98, 42, 63}
  GlobMaxLen = 5
  LineBytes = {9, 10, 13, 32, 97, 239}
  LinesMaxLen = 6
  WCHAR_SIZE = 4
  CodecMaxFields = 3
  LikeTextChars = {97, 233, 42, 63, 20320}
  LikePatternChars = {97, 201, 101, 42, 63, 92}
  LikeMaxLen = 4
  Latin1Chars = {0, 65, 128, 233, 255}
  Utf8Bytes = {65, 128, 191, 192, 194, 195, 196}
  Latin1MaxLen = 3
  HANDLE_BYTES = 3
  BYTE_MOD = 4
  UploadMaxCalls = 61
SPECIFICATION Spec
INVARIANT CompareMatchesNaturalOrder
CHECK_DEADLOCK FALSE
