-------------------------------- MODULE Compare --------------------------------
(***************************************************************************)
(* One test of a magic entry against the data (src/softmagic.c): mcopy()    *)
(* takes the bytes, mconvert() makes a value of them, magiccheck() compares *)
(* it with the value of the entry.  do_ops() is the arithmetic of indirect  *)
(* offsets.                                                                *)
(*                                                                         *)
(* The byte of a number has ByteBits bits, so that every width of the code   *)
(* keeps its proportion: a short has two, a long four, a quad eight of them. *)
(* A number is a non-negative word; its flags say how it is to be read.     *)
(* What is copied of the data is followed by 0; a search region is what is  *)
(* left of the data itself, and the byte behind it is a parameter.          *)
(***************************************************************************)
EXTENDS Integers, Sequences, SequencesExt, Bitwise

CONSTANTS
    ByteBits,    \* bits of a byte of a number: 8
    StrMax       \* sizeof(p->s): 128

ASSUME CompareAssumption == ByteBits \in Nat \ {0} /\ StrMax \in Nat \ {0}

Bits(n) == n * ByteBits
\* A word cast to an unsigned or to a signed type of n bytes.
Cast(x, n, unsigned) == LET r == x % 2^Bits(n)
                        IN  IF unsigned \/ r < 2^(Bits(n) - 1) THEN r ELSE r - 2^Bits(n)
uint64(x) == x % 2^Bits(8)

-----------------------------------------------------------------------------
(* Numbers.                                                                *)

\* The bytes a type takes, and the bytes file_signextend() thinks it takes.
NumTypes == {"byte", "short", "long", "quad", "msdosdate"}
size == [byte |-> 1, short |-> 2, long |-> 4, quad |-> 8, msdosdate |-> 2]
extends == [byte |-> 1, short |-> 2, long |-> 4, quad |-> 8, msdosdate |-> 4]


file_signextend(type, unsigned, v) == IF unsigned THEN v ELSE uint64(Cast(v, extends[type], FALSE))

\* mcopy() of a number: what lies behind the data is 0.
mcopy(b, n) == [i \in 1..n |-> IF i \in DOMAIN b THEN b[i] ELSE 0]

\* use entries may turn the byte order round; the machine's own and the middle one stay.
cvt_flip(order, flip) == IF ~flip THEN order
                         ELSE CASE order = "be" -> "le" [] order = "le" -> "be" [] OTHER -> order

\* BE16(), LE32(), ME32() and so on; this machine is little endian.
Load(b, order) ==
    LET n == Len(b)
        most(i) == CASE order = "be" -> i [] order \in {"le", "host"} -> n + 1 - i
                     [] order = "me" -> << 2, 1, 4, 3 >>[i]
    IN  FoldLeft(LAMBDA v, i : 2^ByteBits * v + b[most(i)], 0, [i \in 1..n |-> i])

\* C divides towards 0.
Abs(x) == IF x < 0 THEN -x ELSE x
Quotient(x, y) == LET q == Abs(x) \div Abs(y) IN IF (x < 0) = (y < 0) THEN q ELSE -q
BitOp(op, x, y) == CASE op = "&" -> x & y [] op = "|" -> x | y [] op = "^" -> x ^^ y

\* DO_CVT(): the operation of the entry on a number of n bytes, or -1 where it traps.
TRAP == -1
Divides(op) == op \in {"/", "%"}
cvt(m, n, w) ==
    LET x == Cast(w, n, m.unsigned)
        y == Cast(m.mask, n, m.unsigned)
        r == CASE m.op \in {"&", "|", "^"} -> BitOp(m.op, w, m.mask % 2^Bits(n))
               [] m.op = "+" -> x + y
               [] m.op = "-" -> x - y
               [] m.op = "*" -> x * y
               [] m.op = "/" -> Quotient(x, y)
               [] m.op = "%" -> x - y * Quotient(x, y)
        ovfl == n \in {4, 8} /\ ~m.unsigned /\ x = -2^(Bits(n) - 1) /\ y = -1
        done == IF m.mask = 0 THEN x ELSE r
    IN  IF m.mask # 0 /\ Divides(m.op) /\ (ovfl \/ y = 0) THEN TRAP
        ELSE (IF m.inverse THEN -done - 1 ELSE done) % 2^Bits(n)

\* mconvert() of a number.
mconvert(m, b, flip) == cvt(m, size[m.type], Load(mcopy(b, size[m.type]), cvt_flip(m.order, flip)))

\* The relations at the end of magiccheck(), between words of 64 bits.
Related(reln, unsigned, v, l) ==
    LET sv == Cast(v, 8, unsigned)
        sl == Cast(l, 8, unsigned)
    IN  CASE reln = "x" -> TRUE
          [] reln = "!" -> v # l
          [] reln = "=" -> v = l
          [] reln = ">" -> sv > sl
          [] reln = "<" -> sv < sl
          [] reln = "&" -> v & l = l
          [] reln = "^" -> v & l # l

\* A test of a number, without a match when the operation traps.
NumberTest(m, b, flip) ==
    LET v == mconvert(m, b, flip)
    IN  v # TRAP /\ Related(m.reln, m.unsigned, file_signextend(m.type, m.unsigned, v), m.value)

\* Floating point numbers: NAN is not ordered, other than integers are not modelled.
NAN == 2^20
FloatTest(reln, fv, fl) ==
    LET unordered == NAN \in {fv, fl}
    IN  CASE reln = "x" -> TRUE
          [] reln = "!" -> unordered \/ fv # fl
          [] reln = "=" -> ~unordered /\ fv = fl
          [] reln = ">" -> ~unordered /\ fv > fl
          [] reln = "<" -> ~unordered /\ fv < fl

-----------------------------------------------------------------------------
(* Strings.                                                                *)

isspace(c) == c \in (9..13) \cup {32}
islower(c) == c \in 97..122
isupper(c) == c \in 65..90
tolower(c) == IF isupper(c) THEN c + 32 ELSE c
toupper(c) == IF islower(c) THEN c - 32 ELSE c
At(s, i) == IF i \in DOMAIN s THEN s[i] ELSE 0
\* The first place from j on, before the end, that is not blank.
PastSpace(b, j, end) == CHOOSE k \in j..(IF end < j THEN j ELSE end) :
                            (k < end => ~isspace(At(b, k))) /\ \A x \in j..(k - 1) : isspace(At(b, x))

\* The loop of file_strncmp(): a from i on against b from j on, which ends at end.
RECURSIVE StrncmpLoop(_, _, _, _, _, _)
StrncmpLoop(a, b, i, j, end, flags) ==
    LET x == At(a, i)
        y == At(b, j)
        spaces == isspace(x) /\ flags \cap {"W", "w"} # {}
        case == IF "c" \in flags /\ islower(x) THEN tolower(y)
                ELSE IF "C" \in flags /\ isupper(x) THEN toupper(y) ELSE y
    IN  IF i > Len(a) THEN IF "f" \in flags /\ y # 0 /\ ~isspace(y) THEN 1 ELSE 0
        ELSE IF flags # {} /\ j >= end THEN 1
        ELSE IF spaces /\ "W" \in flags THEN
            IF ~isspace(y) THEN 1
            ELSE StrncmpLoop(a, b, i + 1, IF isspace(At(a, i + 1)) THEN j + 1 ELSE PastSpace(b, j + 1, end), end, flags)
        ELSE IF spaces THEN StrncmpLoop(a, b, i + 1, PastSpace(b, j, end), end, flags)
        ELSE IF case # x THEN case - x
        ELSE StrncmpLoop(a, b, i + 1, j + 1, end, flags)

\* file_strncmp() of the value a with the data b from j on, of which max bytes may be read.
file_strncmp(a, b, j, max, flags) ==
    StrncmpLoop(a, b, 1, j, j + (IF flags \cap {"W", "w"} # {} THEN max ELSE Len(a)), flags)

\* A string of two bytes each loses its flags.
file_strncmp16(a, b, j, max, flags) == file_strncmp(a, b, j, max, {})

\* The places a search looks at, from 0: memmem() for a plain one, else the loop.
SearchPlaces(a, b, range, flags) ==
    LET plain == a # << >> /\ flags = {}
        idx == IF range = 0 \/ Len(b) < range + Len(a) THEN Len(b) ELSE range + Len(a)
    IN  IF plain THEN {k \in 0..Len(b) : k + Len(a) <= idx}
        ELSE {k \in 0..Len(b) : k + Len(a) <= Len(b) /\ (range = 0 \/ k < range)}

\* FILE_SEARCH in magiccheck(): what it adds to the offset, or -1 when nothing is found.
\* The byte behind the data is read for a full word: 0 for a file, any for magic_buffer().
Search(a, b, range, flags, behind) ==
    LET hits == {k \in SearchPlaces(a, b, range, flags) :
                    file_strncmp(a, Append(b, behind), k + 1, Len(b) - k, flags) = 0}
    IN  IF hits = {} THEN -1 ELSE CHOOSE k \in hits : \A x \in hits : k <= x

\* mcopy() of a string of two bytes each: the low bytes, a blank for the characters that
\* have none.
String16(b, big) ==
    LET n == (IF big THEN Len(b) ELSE Len(b) + 1) \div 2
        low(i) == At(b, IF big THEN 2 * i ELSE 2 * i - 1)
        high(i) == At(b, IF big THEN 2 * i - 1 ELSE 2 * i)
    IN  [i \in 1..(IF n < StrMax THEN n ELSE StrMax - 1) |-> IF low(i) = 0 /\ high(i) # 0 THEN 32 ELSE low(i)]

\* file_pstring_get_length(), whose size_t wraps round when a length that should include
\* itself does not, and the copy mconvert() makes.
file_pstring_get_length(b, n, order, itself) ==
    LET most(i) == IF order = "be" THEN i ELSE n + 1 - i
        len == FoldLeft(LAMBDA v, i : 256 * v + At(b, most(i)), 0, [i \in 1..n |-> i])
    IN  IF ~itself THEN len ELSE IF len >= n THEN len - n ELSE 2^30
PString(b, n, order, itself) ==
    LET len == file_pstring_get_length(b, n, order, itself)
    IN  [i \in 1..(IF len >= StrMax - n THEN StrMax - n ELSE len) |-> At(b, n + i)]

\* FILE_REGEX in mcopy(): the end of the region of some lines, of the data before end.  The
\* character behind the end of a line is not looked at.
RECURSIVE RegexLines(_, _, _, _, _)
RegexLines(s, end, b, lines, last) ==
    LET at(c) == {k \in b..(end - 1) : s[k] = c}
        least(S) == CHOOSE k \in S : \A x \in S : k <= x
        nl == least(IF at(10) # {} THEN at(10) ELSE at(13))
        b1 == IF nl < end - 1 /\ s[nl] = 13 /\ s[nl + 1] = 10 THEN nl + 1 ELSE nl
        b2 == IF b1 < end - 1 /\ s[b1] = 10 THEN b1 + 1 ELSE b1
    IN  IF lines = 0 THEN last
        ELSE IF b >= end \/ (at(10) = {} /\ at(13) = {}) THEN end
        ELSE RegexLines(s, end, b2 + 1, lines - 1, b2)
RegexRegion(s, lines, max) ==
    LET end == (IF Len(s) < max THEN Len(s) ELSE max) + 1
    IN  SubSeq(s, 1, (IF lines = 0 THEN end ELSE RegexLines(s, end, 1, lines, end)) - 1)

-----------------------------------------------------------------------------
(* Indirect offsets: do_ops(), of numbers of 64 bits, for an offset of 32.  *)

UINT_MAX == 2^Bits(4) - 1
INT_MIN == -2^(Bits(4) - 1)
REFUSED == -1
\* The number both operands have in two's complement.
AndOr(op, x, y) == Cast(BitOp(op, uint64(x), uint64(y)), 8, FALSE)

do_ops(op, inverse, lhs, off) ==
    LET r == CASE op \in {"&", "|", "^"} -> AndOr(op, lhs, off)
               [] op = "+" -> lhs + off
               [] op = "-" -> lhs - off
               [] op = "*" -> Cast(lhs * off, 8, FALSE)
               [] op = "/" -> Quotient(lhs, off)
               [] op = "%" -> lhs - off * Quotient(lhs, off)
        done == IF off = 0 THEN lhs ELSE r
        offset == IF inverse THEN -done - 1 ELSE done
    IN  IF lhs >= UINT_MAX \/ lhs <= INT_MIN \/ off >= UINT_MAX \/ off <= INT_MIN THEN REFUSED
        ELSE IF offset >= UINT_MAX THEN REFUSED
        ELSE offset % 2^Bits(4)
=============================================================================
