------------------------------- MODULE TextFile -------------------------------
(***************************************************************************)
(* What the detectors of text and of small formats make of a file while it  *)
(* is being written: a writer appends one character, word or byte after     *)
(* another in one of several formats, and every state is a file that may be *)
(* looked at.  The properties compare the verdict with what was written or  *)
(* with a definition of the format that does not parse.                    *)
(***************************************************************************)
EXTENDS Encoding, Formats, Compare

CONSTANTS
    Alphabet,    \* what is written, for each kind of file
    MaxItems,    \* bound: how much of it
    Magics,      \* the strings that are looked for
    Numbers      \* the numbers magic entries have

UniKinds == {"utf-8", "utf-8-bom", "utf-16le", "utf-16be", "utf-32le", "utf-32be"}
JsonKinds == {"json", "json-number", "json-string"}
Kinds == UniKinds \cup JsonKinds \cup {"ebcdic", "bytes", "lines", "csv", "tape", "chksum", "der",
                     "number", "match"}

ASSUME FileAssumption == /\ DOMAIN Alphabet = Kinds /\ DOMAIN MaxItems = Kinds
                         /\ \A k \in Kinds : MaxItems[k] \in Nat

VARIABLES
    kind,    \* what the writer writes
    text,    \* what was written
    buf      \* the file

textVars == <<kind, text, buf>>

\* The writer's side of each format.
Pair(c) == << 55296 + (c - 65536) \div 1024, 56320 + ((c - 65536) % 1024) >>
Order(big, s) == IF big THEN s ELSE Reverse(s)
TwoBytes(c, big) == Order(big, << c \div 256, c % 256 >>)
Utf16(c, big) == IF c < 65536 THEN TwoBytes(c, big) ELSE TwoBytes(Pair(c)[1], big) \o TwoBytes(Pair(c)[2], big)
Utf32(c, big) == Order(big, << 0, c \div 65536, (c \div 256) % 256, c % 256 >>)
ToEbcdic(c) == (CHOOSE i \in 1..256 : ebcdic_to_ascii[i] = c) - 1

Mark(k) == CASE k = "utf-8-bom" -> << 239, 187, 191 >>
             [] k \in {"utf-16le", "utf-16be"} -> Order(k = "utf-16be", << 254, 255 >>)
             [] k \in {"utf-32le", "utf-32be"} -> Order(k = "utf-32be", << 0, 0, 254, 255 >>)
             [] k = "json-number" -> << "[" >>
             [] k = "json-string" -> << "[", "\"" >>
             [] OTHER -> << >>
Written(k, c) == CASE k \in {"utf-8", "utf-8-bom"} -> encode1(c)
                   [] k \in {"utf-16le", "utf-16be"} -> Utf16(c, k = "utf-16be")
                   [] k \in {"utf-32le", "utf-32be"} -> Utf32(c, k = "utf-32be")
                   [] k = "ebcdic" -> << ToEbcdic(c) >>
                   [] k = "json-string" /\ c = "111" -> << "1", "1", "1" >>
                   [] OTHER -> << c >>

TextInit == kind \in Kinds /\ text = << >> /\ buf = Mark(kind)

Write(c) == /\ Len(text) < MaxItems[kind]
            /\ text' = Append(text, c) /\ buf' = buf \o Written(kind, c)
            /\ UNCHANGED kind

TextNext == \E c \in Alphabet[kind] : Write(c)

TextSpec == TextInit /\ [][TextNext]_textVars

-----------------------------------------------------------------------------
(* Encodings.                                                              *)

\* The characters that are wholly inside the part that is looked at.
Whole(k, t) == LET fits(n) == Len(Mark(k)) + Len(FlattenSeq([i \in 1..n |-> Written(k, t[i])])) <= EncodingMax
               IN  Cut(t, CHOOSE n \in 0..Len(t) : fits(n) /\ (n < Len(t) => ~fits(n + 1)))

\* What is written in one of the Unicode encodings, or in EBCDIC with its line end,
\* is recognised as such and every character that is wholly inside the limit is
\* decoded: no other decoder of the list claims it before.  Cutting off the padding
\* changes nothing, but for UTF-32, of which it may cut the last character.  Between
\* the characters of UTF-16 the first halves of pairs may stand, which OneEach is about.
\* (file_encoding, looks_ucs16, looks_ucs32, from_ebcdic, file_ascmagic)
ReadBack(v, trimmed, t) ==
    LET high == \E i \in DOMAIN t : t[i] > 127
    IN  /\ kind \in UniKinds \ {"utf-8"} /\ t # << >> =>
            /\ v.code = kind
            /\ t = IF kind \in {"utf-16le", "utf-16be"} THEN SelectSeq(v.u, LAMBDA c : ~HiSurr(c)) ELSE v.u
        /\ kind = "utf-8" /\ high => v.code = "utf-8" /\ v.u = t
        /\ kind = "utf-8" /\ ~high /\ t = text => v.code = "us-ascii" /\ v.u = t
        /\ kind = "ebcdic" /\ 133 \in Range(t) => v.code = "ebcdic" /\ v.u = t
        /\ kind \notin {"utf-32le", "utf-32be"} /\ Len(buf) <= EncodingMax /\ text # << >> => trimmed = v
WrittenIsRead == kind \in UniKinds \cup {"ebcdic"} =>
                    ReadBack(file_encoding(buf), file_encoding(Trimmed(buf)), Whole(kind, text))

\* Of arbitrary bytes nothing is called UTF-8 that is not: encode_utf8() gives the bytes
\* back, up to a last character that is cut off, so there is no overlong form, no
\* surrogate and nothing beyond U+10FFFF.  (file_looks_utf8, encode_utf8)
EncodesTo(v, b) ==
    v.code \in {"utf-8", "utf-8-bom"} =>
        LET e == Mark(v.code) \o encode_utf8(v.u)
        IN  /\ IsPrefix(e, b) /\ Len(b) - Len(e) < 4
            /\ \A i \in DOMAIN v.u : v.u[i] <= 1114111 /\ ~HiSurr(v.u[i]) /\ ~LoSurr(v.u[i])
Reencodes == kind = "bytes" => EncodesTo(file_encoding(buf), Cut(buf, EncodingMax))

\* What is written is read back, and what is read as UTF-8 can be written.
Decoded == WrittenIsRead /\ Reencodes

\* "Each of these tests, if it succeeds, will leave the text converted into
\* one-file_unichar_t-per-character Unicode in ubuf, and the number of characters
\* converted in ulen" (encoding.c:68-73): a text of UTF-16 that is looked at as a whole
\* is converted into its characters and no others.  (looks_ucs16)
OneEach ==
    kind \in {"utf-16le", "utf-16be"} /\ text # << >> /\ Len(buf) <= EncodingMax => file_encoding(buf).u = text

\* The description names exactly the kinds of line ends that are in the text, and says
\* that lines are too long exactly when the longest stretch without one is; a carriage
\* return at the very end is not mentioned beside others.
\* (file_ascmagic_with_encoding)
LinesReported ==
    LET n == Len(text)
        at(i, c) == i \in 1..n /\ text[i] = c
        crlf == \E i \in 1..n : at(i, 13) /\ at(i + 1, 10)
        lone == \E i \in 1..(n - 1) : at(i, 13) /\ ~at(i + 1, 10)
        ends == {k \in {"crlf", "cr", "lf", "nel"} :
                    CASE k = "crlf" -> crlf
                      [] k = "cr" -> lone \/ (at(n, 13) /\ ~crlf)
                      [] k = "lf" -> \E i \in 1..n : at(i, 10) /\ ~at(i - 1, 13)
                      [] k = "nel" -> 133 \in Range(text)}
        long == \E i, k \in 1..n : k - i >= MAXLINELEN /\ \A x \in i..k : text[x] \notin {10, 13, 133}
        opt == [nosoft |-> TRUE, extension |-> FALSE, mime |-> "none", continue |-> FALSE]
        v == file_encoding(buf)
    IN  kind = "lines" /\ n > 1 => Ascmagic(buf, v, "no", opt) =
            [rv |-> 1, says |-> {v.code}
                    \cup (IF ends = {} THEN {"none"} ELSE IF ends = {"lf"} THEN {} ELSE ends)
                    \cup (IF long THEN {"long"} ELSE {}) \cup (IF 27 \in Range(text) THEN {"escapes"} ELSE {})]

-----------------------------------------------------------------------------
(* JSON by its grammar, as the parser stretches it: a comma may end a list, *)
(* and a number may lack the digits on one side of its point.              *)

Blank(s) == \A i \in DOMAIN s : s[i] \in Space
Trim(s) == IF Blank(s) THEN << >>
           ELSE LET k == {i \in DOMAIN s : s[i] \notin Space}
                IN  SubSeq(s, CHOOSE i \in k : \A x \in k : i <= x, CHOOSE i \in k : \A x \in k : x <= i)

IsString(s) ==
    LET n == Len(s)
        esc[k \in 1..n] == k > 1 /\ s[k] = "\\" /\ ~esc[k - 1]     \* begins an escape
    IN  /\ n > 1 /\ s[1] = "\"" /\ s[n] = "\"" /\ ~esc[n - 1] /\ "nul" \notin Range(s)
        /\ \A k \in 2..(n - 1) :
            /\ s[k] = "\"" => esc[k - 1]
            /\ esc[k] => \/ s[k + 1] \in Simple
                         \/ s[k + 1] = "u" /\ k + 5 < n /\ \A x \in (k + 2)..(k + 5) : s[x] \in XDigit

Digits(s) == s # << >> /\ \A i \in DOMAIN s : s[i] \in Digit
Unsigned(s, S) == IF s # << >> /\ s[1] \in S THEN Tail(s) ELSE s
IsNumber(s) ==
    \E p \in 0..Len(s) :
        LET m == Unsigned(SubSeq(s, 1, p), {"-"})
            x == SubSeq(s, p + 1, Len(s))
        IN  /\ \E d \in 0..Len(m) : Digits(SubSeq(m, 1, d) \o Unsigned(SubSeq(m, d + 1, Len(m)), {"."}))
            /\ x = << >> \/ (x[1] = "e" /\ Digits(Unsigned(Tail(x), {"+", "-"})))

\* A list between brackets: the pieces between some of its commas are all items.
IsList(s, open, close, item(_)) ==
    LET n == Len(s)
        inner == SubSeq(s, 2, n - 1)
    IN  /\ n > 1 /\ s[1] = open /\ s[n] = close
        /\ \/ Blank(inner)
           \/ \E cuts \in SUBSET {i \in DOMAIN inner : inner[i] = ","} :
                LET c == << 0 >> \o SetToSortSeq(cuts, <) \o << Len(inner) + 1 >>
                    piece(i) == SubSeq(inner, c[i] + 1, c[i + 1] - 1)
                IN  \A i \in 1..(Len(c) - 1) : item(piece(i)) \/ (i > 1 /\ i = Len(c) - 1 /\ Blank(piece(i)))

RECURSIVE IsValue(_, _)
IsMember(p, lvl) == \E k \in DOMAIN p : /\ p[k] = ":" /\ IsString(Trim(SubSeq(p, 1, k - 1)))
                                        /\ IsValue(SubSeq(p, k + 1, Len(p)), lvl)
IsNested(t, lvl) == \/ IsList(t, "[", "]", LAMBDA p : IsValue(p, lvl + 2))
                    \/ IsList(t, "{", "}", LAMBDA p : IsMember(p, lvl + 2))
IsValue(s, lvl) == LET t == Trim(s)
                   IN  /\ t # << >> /\ lvl <= LevelMax
                       /\ IsString(t) \/ IsNumber(t) \/ t = True \/ IsNested(t, lvl)

\* A file that the grammar has is recognised as JSON, one that two documents of the same
\* kind begin as one of documents on lines, no nesting is followed beyond the limit, and
\* what is neither is refused, with one case left open: an unfinished or malformed file in
\* which an object or an array ends.  is_json.c:64-70 says that the parser, which does not
\* count in this build, stops there; json_parse() refuses the file, for its early return
\* is compiled in only when it counts (362-366).  (json_parse and the functions it calls)
JsonAgrees ==
    LET whole == IsNested(Trim(buf), 0)
        two == \E k \in 1..(Len(buf) - 1), m \in 1..Len(buf) :
                  /\ k < m /\ ~Blank(buf) /\ buf[k + 1] = Trim(buf)[1]
                  /\ IsNested(Trim(SubSeq(buf, 1, k)), 0) /\ IsNested(Trim(SubSeq(buf, k + 1, m)), 1)
        inside == \E i, k \in DOMAIN buf : i < k /\ IsNested(SubSeq(buf, i, k), 0)
        got == file_is_json(buf)
    IN  kind \in JsonKinds => IF whole THEN got = 1 ELSE IF two THEN got = 2 ELSE got = 0 \/ inside

-----------------------------------------------------------------------------
(* The other formats.                                                      *)

\* CSV: lines that end, all with the same number of commas, where a comma or a line end
\* counts when an even number of quotes is before it.  Two lines and one comma are enough,
\* except where the parser stops at the last line it looks at: there it wants a second comma
\* (is_csv.c:109 against 130).
CsvAgrees ==
    LET outside(i) == Cardinality({k \in 1..(i - 1) : buf[k] = "\""}) % 2 = 0
        ends == SetToSortSeq({i \in DOMAIN buf : buf[i] = "nl" /\ outside(i)}, <)
        commas(l) == Cardinality({i \in DOMAIN buf : /\ buf[i] = "," /\ outside(i) /\ i < ends[l]
                                                     /\ l > 1 => i > ends[l - 1]})
        n == IF Len(ends) < CSV_LINES THEN Len(ends) ELSE CSV_LINES
    IN  kind = "csv" =>
            csv_parse(buf) = /\ n > 1 /\ \A l \in 1..n : commas(l) = commas(1)
                             /\ commas(1) >= IF n = CSV_LINES THEN 2 ELSE 1

\* A tape: from the first word on one mark or record behind the other, each record with its
\* length at both ends, no word with a bit set that must be clear, one whole record at
\* least.  What was looked at goes up to the last mark that is counted, to the end of the
\* buffer, or to a record that the buffer cuts off, as it does the end of the medium.
IsTape ==
    LET err(i) == getlen(buf[i]).err
        len(i) == getlen(buf[i]).n
        mark(i) == ~err(i) /\ len(i) = 0
        close(i) == i + 1 + len(i)
        record(i) == ~err(i) /\ len(i) > 0 /\ close(i) <= Len(buf) /\ ~err(close(i)) /\ len(close(i)) = len(i)
        cut(i) == ~err(i) /\ len(i) > 0 /\ close(i) > Len(buf)
        behind(i) == IF mark(i) THEN i + 1 ELSE close(i) + 1
    IN  \E items \in SUBSET DOMAIN buf :
            LET marks == {i \in items : mark(i)}
                last(i) == \A x \in items : x <= i
                full(i) == mark(i) /\ Cardinality(marks) = SIMH_TAPEMARKS
            IN  /\ \E i \in items : record(i)
                /\ \A i \in items : i = 1 \/ (\E x \in items : x < i /\ behind(x) = i)
                /\ \A i \in items : ~last(i) => (mark(i) \/ record(i)) /\ behind(i) \in items
                /\ \A i \in items : last(i) => \/ cut(i) \/ full(i)
                                               \/ (mark(i) \/ record(i)) /\ behind(i) > Len(buf)
                /\ Cardinality(marks) <= SIMH_TAPEMARKS
                /\ Cardinality(marks) = SIMH_TAPEMARKS => \E i \in marks : last(i)
TapeAgrees == kind = "tape" => simh_parse(buf) = IsTape

\* The checksum: the octal number of the field, behind blanks and up to a blank, a NUL
\* or the end, is the sum with the field blank; bytes above 127 in the field spoil it.  A
\* header that is cut off is none.
ChecksumAgrees ==
    LET blank(c) == c \in (9..13) \cup {32}
        number(v) == \E i, k \in 1..(ChkLen + 1) :
            /\ i <= k /\ i <= ChkLen /\ \A x \in 1..(i - 1) : blank(buf[x])
            /\ ~blank(buf[i]) /\ \A x \in i..(k - 1) : isodigit(buf[x])
            /\ k <= ChkLen => buf[k] = 0 \/ blank(buf[k])
            /\ v = SumOf([x \in 1..(k - i) |-> (buf[i + x - 1] - 48) * 8 ^ (k - i - x)])
    IN  kind = "chksum" /\ (\A i \in DOMAIN buf : buf[i] < 128) =>
            \A rest \in 0..10 : (is_tar(rest, buf, "old", FALSE) = 1) =
                (Len(buf) = ChkLen /\ number(rest + 32 * ChkLen))

\* An element of DER: a tag, of one byte or of 31 and bytes with the top bit set, a length,
\* of one byte or of as many as the first one says, and content.  An element is accepted only
\* when it lies in the buffer, with the content the length gives, and then a comparison that
\* asks for just that matches; one that ends before the buffer does is accepted.  Left open
\* is one behind whose length, or in the short form behind whose content, the buffer ends:
\* der.c:175-180 refuses only what exceeds the input, getlength() (200-203) these as well.
\* As in gettag() the last byte of a long tag is not part of it.
DerAgrees ==
    LET n == Len(buf)
        tag(h) == IF h = 1 THEN buf[1] % 32 # 31 \/ (n > 1 /\ buf[2] < 128)
                  ELSE buf[1] % 32 = 31 /\ buf[h + 1] < 128 /\ \A x \in 2..h : buf[x] > 127
        digits(h) == IF buf[h + 1] < 128 THEN 0 ELSE buf[h + 1] - 128
        from(h) == h + 2 + digits(h)
        length(h) == IF buf[h + 1] < 128 THEN buf[h + 1]
                     ELSE SumOf([x \in 1..digits(h) |-> buf[h + 1 + x] * 256 ^ (digits(h) - x)])
        inside(h) == h < n /\ tag(h) /\ from(h) <= n + 1 /\ from(h) + length(h) <= n + 1
        flush(h) == from(h) = n + 1 \/ (buf[h + 1] < 128 /\ from(h) + length(h) = n + 1)
        e == der_offs(buf)
    IN  kind = "der" =>
            /\ e.ok => /\ \E h \in 1..n : inside(h) /\ e.from = from(h) /\ e.to = from(h) + length(h)
                       /\ der_cmp(buf, [tag |-> gettag(buf, 1).tag, len |-> e.to - e.from,
                                        data |-> SubSeq(buf, e.from, e.to - 1)]) = 1
            /\ (\E h \in 1..n : inside(h) /\ ~flush(h)) => e.ok

\* Each of the small formats is recognised when it has the form described above and not
\* otherwise: lines of equally many fields outside quotes, marks and records up to where the
\* tape ends, octal checksums, elements inside their buffer.  Two limits of the code are
\* part of the description, with the comments they disagree with: the second comma of CSV
\* and the byte behind an element of DER.  (csv_parse, simh_parse, is_tar, der_offs)
FormatsAgree == CsvAgrees /\ TapeAgrees /\ ChecksumAgrees /\ DerAgrees
-----------------------------------------------------------------------------
(* Tests of magic entries.                                                 *)

Orders == {"be", "le", "host", "me"}
Ops == {"&", "|", "^", "+", "-", "*", "/", "%"}

\* The number that n bytes of the file are, in one of the orders.
Reading(n, order) ==
    LET byte(i) == IF i <= Len(buf) THEN buf[i] ELSE 0
        place(i) == CASE order = "be" -> n - i [] order = "me" -> << 2, 3, 0, 1 >>[i] [] OTHER -> i - 1
    IN  SumOf([i \in 1..n |-> byte(i) * 2^(ByteBits * place(i))])

Bit(x, i) == (x \div 2^i) % 2 = 1
\* Is r what the operation makes of x and y, modulo the width?
IsResult(r, op, x, y, bits) ==
    LET mod(a, b) == (a - b) % 2^bits = 0
    IN  CASE op = "&" -> \A i \in 0..(bits - 1) : Bit(r, i) <=> Bit(x, i) /\ Bit(y, i)
          [] op = "|" -> \A i \in 0..(bits - 1) : Bit(r, i) <=> Bit(x, i) \/ Bit(y, i)
          [] op = "^" -> \A i \in 0..(bits - 1) : Bit(r, i) <=> Bit(x, i) # Bit(y, i)
          [] op = "+" -> mod(r, x + y)
          [] op = "-" -> mod(r, x - y)
          [] op = "*" -> mod(r, x * y)
          [] op = "/" -> \E t \in (1 - Abs(y))..(Abs(y) - 1) : t * x >= 0 /\ (x - t) % Abs(y) = 0 /\ mod(r * y, x - t)
          [] op = "%" -> \E t \in (1 - Abs(y))..(Abs(y) - 1) : t * x >= 0 /\ (x - t) % Abs(y) = 0 /\ mod(r, t)

\* The value of a test is the number of the file, in its order, signed or not, after the
\* operation of the entry, and compares with the number of the entry as numbers do.  A
\* division is refused only when the quotient is none of the type.  Left open is a signed
\* msdosdate with its top bit set: magic.man:161-162 calls the type a two-byte value and two
\* bytes are read (softmagic.c:2184-2188), but file_signextend() extends it like one of four
\* (apprentice.c:1694-1711), so that it never compares as negative.
NumbersAgree ==
    kind = "number" => \A type \in NumTypes, order \in Orders, unsigned, inverse \in BOOLEAN :
        LET n == size[type]
            x == Cast(Reading(n, order), n, unsigned)
            num(w) == Cast(w, n, unsigned)
            entry(op, k, reln, l) ==
                [type |-> type, order |-> order, unsigned |-> unsigned, op |-> op, inverse |-> inverse,
                 mask |-> file_signextend(type, unsigned, uint64(k)), reln |-> reln,
                 value |-> file_signextend(type, unsigned, uint64(l))]
            flipped == CASE order = "be" -> "le" [] order = "le" -> "be" [] OTHER -> order
        IN  (order = "me" => n = 4) /\ (n = 1 => order = "host") =>
            /\ n < 8 => \A op \in Ops, k \in Numbers :
                LET m == entry(op, k, "x", 0)
                    v == mconvert(m, buf, FALSE)
                    r == IF inverse THEN (-v - 1) % 2^Bits(n) ELSE v
                    y == Cast(m.mask, n, unsigned)
                IN  /\ v = TRAP => op \in {"/", "%"} /\ (y = 0 \/ (y = -1 /\ ~unsigned /\ x = -2^(Bits(n) - 1)))
                    /\ v # TRAP /\ m.mask # 0 => IsResult(r, op, x, y, Bits(n))
                    /\ v # TRAP /\ m.mask = 0 => Cast(r, n, unsigned) = x
                    /\ mconvert([m EXCEPT !.order = flipped], buf, TRUE) = v
            /\ \A reln \in {"x", "!", "=", ">", "<", "&", "^"}, l \in {k \in Numbers : num(k) = k} :
                LET v == num(IF inverse THEN -x - 1 ELSE x)
                    all == \A i \in 0..(Bits(8) - 1) : Bit(l, i) => Bit(v, i)
                IN  (type = "msdosdate" => v >= 0) => NumberTest(entry("&", 0, reln, l), buf, FALSE) =
                        CASE reln = "x" -> TRUE [] reln = "=" -> v = l [] reln = "!" -> v # l
                          [] reln = ">" -> v > l [] reln = "<" -> v < l [] reln = "&" -> all [] reln = "^" -> ~all

\* Of two floating point numbers exactly one of less, equal and greater holds, unless one
\* is none; then they differ.
FloatsAgree ==
    \A v, l \in Numbers \cup {NAN} :
        LET holds == {reln \in {"<", "=", ">"} : FloatTest(reln, v, l)}
        IN  /\ Cardinality(holds) = IF NAN \in {v, l} THEN 0 ELSE 1
            /\ FloatTest("!", v, l) <=> "=" \notin holds

\* The ends of the data that a value with flags may stand for, from place j on: under W
\* blanks of it stand for at least as many, under w for any number, and for all there are.
\* Under f a NUL or a blank follows, where the byte behind the data is given.
Ends(a, j, flags, behind) ==
    LET blanks(from, to) == \A x \in from..(to - 1) : x <= Len(buf) /\ isspace(buf[x])
        ch(k) == IF k <= Len(buf) THEN buf[k] ELSE 0
        full(k) == LET c == IF k <= Len(buf) THEN buf[k] ELSE behind IN c = 0 \/ isspace(c)
        same(x, y) == \/ x = y
                      \/ "c" \in flags /\ islower(x) /\ y = x - 32
                      \/ "C" \in flags /\ isupper(x) /\ y = x + 32
        next(i, k) ==
            IF isspace(a[i]) /\ "W" \in flags
            THEN IF i < Len(a) /\ isspace(a[i + 1]) THEN {e \in {k + 1} : blanks(k, e)}
                 ELSE {e \in (k + 1)..(Len(buf) + 1) : blanks(k, e) /\ ~blanks(e, e + 1)}
            ELSE IF isspace(a[i]) /\ "w" \in flags
            THEN {e \in k..(Len(buf) + 1 + Len(a)) : blanks(k, e) /\ ~blanks(e, e + 1)}
            ELSE {e \in {k + 1} : same(a[i], ch(k))}
        reach[i \in 0..Len(a)] == IF i = 0 THEN {j} ELSE UNION {next(i, k) : k \in reach[i - 1]}
    IN  {k \in reach[Len(a)] : "f" \in flags => full(k)}

FlagSets == {f \in SUBSET {"c", "C", "W", "w", "f"} : Cardinality(f) <= 2}

\* A string test matches exactly what its flags say; a search finds the first of the places
\* of its range where the string test matches.  magic.man:311-314 calls the range the number
\* of positions at which the match is attempted; a search without flags attempts one more
\* (softmagic.c:2334-2337), and what it finds there is let pass.  Under f a search reads the
\* byte behind the data (softmagic.c:2125), 0 for a file but not for the buffer of a caller.
\* Near the end of the data a value with optional blanks may be missed.
StringsAgree ==
    kind = "match" => \A a \in Magics, flags \in FlagSets :
        /\ (file_strncmp(a, buf, 1, StrMax, flags) = 0) = (Ends(a, 1, flags, 0) # {})
        /\ \A range \in 0..2, behind \in (IF "f" \in flags THEN {0, 97} ELSE {0}) :
            LET got == Search(a, buf, range, flags, behind)
                found(k) == k + Len(a) <= Len(buf) /\ Ends(a, k + 1, flags, behind) # {}
                places == {k \in 0..(IF range = 0 THEN Len(buf) ELSE range - 1) : found(k)}
                onemore == {k \in {range} : flags = {} /\ range > 0 /\ found(k)}
            IN  IF got = -1 THEN places = {} \/ flags \cap {"W", "w"} # {}
                ELSE got \in places \cup onemore /\ (flags \cap {"W", "w"} = {} => \A k \in places : got <= k)

\* A counted string is read as it was written, up to the room there is; one that does not
\* even count its own length is read as far as there is room.  A region of lines lies in
\* the data and has no more lines than asked for that are not empty, and as many unless it
\* is all of the data, but for a line end, or empty lines were counted.
RegionsAgree ==
    LET digits(v, n, order) == IF n = 1 THEN << v >> ELSE Order(order = "be", << v \div 256, v % 256 >>)
        filled(s) == Cardinality({i \in DOMAIN s : s[i] # 10 /\ (i = 1 \/ s[i - 1] = 10)})
    IN  /\ kind = "match" => \A n \in {1, 2}, order \in {"be", "le"}, itself \in BOOLEAN :
            LET file == digits(Len(buf) + (IF itself THEN n ELSE 0), n, order) \o buf \o << 66 >>
                short == digits(n - 1, n, order) \o buf
                room == StrMax - n
            IN  /\ PString(file, n, order, itself) = Cut(buf, room)
                /\ itself => Cut(PString(short, n, order, itself), Len(buf)) = Cut(buf, room)
        /\ kind = "lines" => \A lines \in 0..2, max \in {2, 6} :
            LET r == RegexRegion(text, lines, max)
            IN  /\ IsPrefix(r, Cut(text, max))
                /\ lines = 0 => r = Cut(text, max)
                /\ lines > 0 /\ 13 \notin Range(text) =>
                    /\ filled(r) <= lines
                    /\ filled(r) < lines => \/ Len(r) + 1 >= Len(Cut(text, max))
                                            \/ \E i \in DOMAIN r : r[i] = 10 /\ (i > 1 => r[i - 1] = 10)

\* A string of two bytes a character keeps the low bytes of what was written.
WideAgrees ==
    kind \in {"utf-16le", "utf-16be"} /\ text # << >> =>
        LET w == WordsOf(buf, 2, kind = "utf-16be")
            s == String16(buf, kind = "utf-16be")
        IN  \A i \in DOMAIN w : i + 1 < StrMax => s[i + 1] = IF w[i] % 256 = 0 THEN 32 ELSE w[i] % 256

\* An indirect offset is what its operation makes of the two numbers, modulo the width of
\* an offset, or there is none: the numbers or the offset are too large.
OffsetsAgree ==
    kind = "number" /\ Len(buf) = 2 => \A op \in Ops, lhs, off \in Numbers \cup {UINT_MAX - 1, INT_MIN + 1} :
        LET r == do_ops(op, FALSE, lhs, off)
            inv == do_ops(op, TRUE, lhs, off)
        IN  /\ r # REFUSED /\ off # 0 => IsResult(r, op, lhs, off, Bits(4))
            /\ r # REFUSED /\ inv # REFUSED => r + inv = UINT_MAX
            /\ \A x \in {lhs, off} : x >= UINT_MAX \/ x <= INT_MIN => {r, inv} = {REFUSED}

=============================================================================
