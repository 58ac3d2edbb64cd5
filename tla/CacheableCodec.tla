---------------------------- MODULE CacheableCodec ----------------------------
(***************************************************************************)
(* CacheableWriter and CacheableReader (src/src/utils.cpp): the field     *)
(* encoding of every record the SDK keeps in its local cache (transfers,  *)
(* nodes, users, sync configs).  The writer appends fields to a byte      *)
(* string; the reader walks the same fields with a pointer ptr and must   *)
(* refuse any field that would run past end.                              *)
(*                                                                         *)
(* A buffer is a sequence of byte values; ptr is the 0-based offset of   *)
(* the next byte.  Integers are stored little-endian in two's complement, *)
(* as MemAccess::get and the raw appends do on the supported platforms.  *)
(* A field is a record [kind, val] (plus the flags a kind needs).         *)
(***************************************************************************)
EXTENDS Integers, Sequences

CONSTANT WCHAR_SIZE   \* sizeof(wchar_t): 4 on Linux and macOS, 2 on Windows

NODEHANDLE == 6       \* MegaClient::NODEHANDLE

(* sizeof of the fixed-width fields.                                       *)
Width == [u8 |-> 1, i8 |-> 1, bool |-> 1, u16 |-> 2, u32 |-> 4, i32 |-> 4,
          u64 |-> 8, i64 |-> 8, handle |-> 8]
FixedKinds == DOMAIN Width
SignedKinds == {"i8", "i32", "i64"}

(* The w little-endian bytes of v; a negative v gives its two's          *)
(* complement, as the byte copy of a signed integer does.                 *)
RECURSIVE LE(_, _)
LE(v, w) == IF w = 0 THEN << >> ELSE << v % 256 >> \o LE(v \div 256, w - 1)

(* MemAccess::get of an unsigned / a signed integer from its bytes.      *)
RECURSIVE Unsigned(_)
Unsigned(bs) == IF bs = << >> THEN 0 ELSE bs[1] + 256 * Unsigned(Tail(bs))

RECURSIVE SignedFrom(_, _)
SignedFrom(bs, acc) ==
  IF bs = << >> THEN acc ELSE SignedFrom(SubSeq(bs, 1, Len(bs) - 1), acc * 256 + bs[Len(bs)])
Signed(bs) == SignedFrom(bs, IF bs[Len(bs)] >= 128 THEN -1 ELSE 0)

(* The n bytes at ptr p; a byte past the end of the buffer reads as 0    *)
(* here (in the code it is whatever memory follows).                     *)
Bytes(buf, p, n) == [i \in 1..n |-> IF p + i <= Len(buf) THEN buf[p + i] ELSE 0]

(* ------------------------------ writer ------------------------------ *)

(* serializeu8 ... serializehandle, serializebool: the raw bytes of the  *)
(* value.  serializenodehandle: the low NODEHANDLE bytes of the handle.   *)
WriteFixed(f) ==
  CASE f.kind = "bool"       -> << IF f.val THEN 1 ELSE 0 >>
    [] f.kind = "nodehandle" -> LE(f.val, NODEHANDLE)
    [] OTHER                 -> LE(f.val, Width[f.kind])

(* serializestring / serializecstr / serializepstr: an unsigned short    *)
(* length ll, truncated to 16 bits, then ll bytes of the text (for cstr  *)
(* with storeNull, the terminating NUL is one of them).  A null cstr or  *)
(* pstr writes length 0.  serializestring_u32: a uint32_t length.        *)
(* serializestring(wstring): the length in bytes, then the wchar_t units.*)
WideBytes(s) == IF s = << >> THEN << >>
                ELSE LET RECURSIVE W(_) W(t) == IF t = << >> THEN << >> ELSE LE(Head(t), WCHAR_SIZE) \o W(Tail(t))
                     IN W(s)

WriteString(f) ==
  CASE f.kind = "string"     -> LET ll == Len(f.val) % 2^16 IN LE(ll, 2) \o SubSeq(f.val, 1, ll)
    [] f.kind = "cstr"       -> IF f.null THEN LE(0, 2)
                                ELSE LET text == f.val \o << 0 >>
                                         ll == (Len(f.val) + (IF f.storeNull THEN 1 ELSE 0)) % 2^16
                                     IN LE(ll, 2) \o SubSeq(text, 1, ll)
    [] f.kind = "pstr"       -> IF f.null THEN LE(0, 2)
                                ELSE LET ll == Len(f.val) % 2^16 IN LE(ll, 2) \o SubSeq(f.val, 1, ll)
    [] f.kind = "string_u32" -> LE(Len(f.val), 4) \o f.val
    [] f.kind = "wstring"    -> LET ll == (Len(f.val) * WCHAR_SIZE) % 2^16
                                IN LE(ll, 2) \o SubSeq(WideBytes(f.val), 1, ll)

(* serializeexpansionflags: eight bytes of 0 / 1.  serializebinary: the  *)
(* bytes as they are.                                                     *)
WriteRaw(f) ==
  IF f.kind = "flags" THEN [i \in 1..8 |-> IF f.val[i] THEN 1 ELSE 0] ELSE f.val

WriteField(f) ==
  IF f.kind \in FixedKinds \cup {"bool", "nodehandle"} THEN WriteFixed(f)
  ELSE IF f.kind \in {"flags", "binary"} THEN WriteRaw(f)
  ELSE WriteString(f)

RECURSIVE Serialize(_)
Serialize(fs) == IF fs = << >> THEN << >> ELSE WriteField(Head(fs)) \o Serialize(Tail(fs))

(* ------------------------------ reader ------------------------------ *)
(* Each read returns [ok, val, ptr]: ptr is where the reader's pointer   *)
(* is left, on failure too.                                              *)
Fail(p) == [ok |-> FALSE, val |-> "none", ptr |-> p]
Got(v, p) == [ok |-> TRUE, val |-> v, ptr |-> p]

(* Mutation of FitsIn that also refuses a field ending exactly at end.   *)
FitsInStrict(p, n, end) == p + n < end

(* The bound test of every read: ptr + n > end fails.                    *)
FitsIn(p, n, end) == p + n <= end

(* unserializei8 ... unserializehandle, unserializebool,                 *)
(* unserializenodehandle (zero-extended to a handle).                    *)
ReadFixed(buf, p, f) ==
  LET n == IF f.kind = "nodehandle" THEN NODEHANDLE ELSE IF f.kind = "bool" THEN 1 ELSE Width[f.kind]
      bs == Bytes(buf, p, n)
  IN IF ~FitsIn(p, n, Len(buf)) THEN Fail(p)
     ELSE Got(CASE f.kind = "bool"          -> bs[1] # 0
                [] f.kind \in SignedKinds   -> Signed(bs)
                [] OTHER                    -> Unsigned(bs), p + n)

(* Mutation of ReadBody that drops the second bound test.               *)
ReadBodyUnchecked(buf, q, len, f) ==
  IF f.kind = "wstring" /\ len # 0 /\ len % WCHAR_SIZE # 0 THEN Fail(q)
  ELSE Got(IF len = 0 THEN << >> ELSE Bytes(buf, q, len), q + len)

(* After the length: ptr + len > end fails (ptr already past the length),*)
(* a wstring whose byte length is not a multiple of sizeof(wchar_t)      *)
(* fails, and a length of 0 leaves the destination as it was (empty).    *)
ReadBody(buf, q, len, f) ==
  IF ~FitsIn(q, len, Len(buf)) THEN Fail(q)
  ELSE IF f.kind = "wstring" /\ len # 0 /\ len % WCHAR_SIZE # 0 THEN Fail(q)
  ELSE Got(IF len = 0 THEN << >> ELSE Bytes(buf, q, len), q + len)

(* wchar_t units back from their bytes.                                   *)
Wide(bs) == [i \in 1..(Len(bs) \div WCHAR_SIZE) |-> Unsigned(SubSeq(bs, (i - 1) * WCHAR_SIZE + 1, i * WCHAR_SIZE))]

(* unserializestring / unserializecstr (removeNull drops the last byte)  *)
(* / unserializestring_u32 / unserializestring(wstring).                 *)
ReadString(buf, p, f) ==
  LET lw == IF f.kind = "string_u32" THEN 4 ELSE 2
  IN IF ~FitsIn(p, lw, Len(buf)) THEN Fail(p)
     ELSE LET r == ReadBody(buf, p + lw, Unsigned(Bytes(buf, p, lw)), f)
          IN IF ~r.ok THEN r
             ELSE CASE f.kind = "cstr" /\ f.removeNull /\ r.val # << >>
                         -> [r EXCEPT !.val = SubSeq(@, 1, Len(@) - 1)]
                    [] f.kind = "wstring" -> [r EXCEPT !.val = Wide(@)]
                    [] OTHER -> r

(* unserializeexpansionflags(field, usedFlagCount): eight bytes, and a   *)
(* set flag at or past usedFlagCount is a newer format: fail without     *)
(* moving ptr.  unserializebinary(data, len): len bytes.                 *)
ReadRaw(buf, p, f) ==
  LET n == IF f.kind = "flags" THEN 8 ELSE Len(f.val)
      bs == Bytes(buf, p, n)
  IN IF ~FitsIn(p, n, Len(buf)) THEN Fail(p)
     ELSE IF f.kind = "flags" /\ \E i \in (f.used + 1)..8 : bs[i] # 0 THEN Fail(p)
     ELSE Got(IF f.kind = "flags" THEN [i \in 1..8 |-> bs[i] # 0] ELSE bs, p + n)

ReadField(buf, p, f) ==
  IF f.kind \in FixedKinds \cup {"bool", "nodehandle"} THEN ReadFixed(buf, p, f)
  ELSE IF f.kind \in {"flags", "binary"} THEN ReadRaw(buf, p, f)
  ELSE ReadString(buf, p, f)

(* A record's unserialize: the fields in order, stopping at the first    *)
(* read that fails.  Returns the values read, whether all succeeded and  *)
(* where ptr was left.                                                    *)
RECURSIVE Unserialize(_, _, _)
Unserialize(buf, p, fs) ==
  IF fs = << >> THEN [ok |-> TRUE, vals |-> << >>, ptr |-> p]
  ELSE LET r == ReadField(buf, p, Head(fs))
       IN IF ~r.ok THEN [ok |-> FALSE, vals |-> << >>, ptr |-> r.ptr]
          ELSE LET rest == Unserialize(buf, r.ptr, Tail(fs))
               IN [rest EXCEPT !.vals = << r.val >> \o @]

=============================================================================
