----------------------------- MODULE Encodings -----------------------------
(***************************************************************************)
(* The encodings module (encodings_module.c) and the decoding of a text    *)
(* stream (io_text.c).  A decoder gets its input in pieces of any size and *)
(* keeps the bytes of an incomplete character between them.                *)
(***************************************************************************)
EXTENDS Integers, Sequences, SequencesExt, FiniteSets, FiniteSetsExt

CONSTANTS
    EncBytes,      \* for each of "utf8", "utf16le", "utf16be" and "8bit": the
                   \* byte sequences that are decoded
    EncChunks,     \* for each of them: the lengths of the pieces
    EncTables,     \* the compact descriptions of the 8-bit encodings
    HalfSize,      \* the number of codes that such a table maps (128)
    ReverseSize    \* REVERSE_MAP_SIZE, twice as much

ASSUME EncSizes == ReverseSize = 2 * HalfSize /\ HalfSize > 0

VARIABLES
    decoder,   \* the decoder [codec, strict, unp]: ENC_BUF is unp
    decIn,     \* the bytes that have not been given to the decoder
    decDone,   \* the bytes that have
    decOut,    \* the characters it has returned
    decState   \* "none", "reading", "error" (DecodeError) or "eof"

decVars == <<decoder, decIn, decDone, decOut, decState>>

Repl == 65533    \* 0xfffd

A_UTF8_SKIP(ch) == CASE ch < 194 -> 1 [] ch < 224 -> 2 [] OTHER -> 3

RECURSIVE CountChars(_, _, _)

\* The number of characters that end within s, from index i on, beyond n.
CountChars(s, i, n) ==
    IF i >= Len(s) THEN n
    ELSE LET j == i + A_UTF8_SKIP(s[i + 1]) IN CountChars(s, j, IF j <= Len(s) THEN n + 1 ELSE n)

IsTail(ch) == ch \in 128..191

\* The character that the bytes b are, or Repl if they are none: then they
\* are an error.
Utf8Char(b) ==
    CASE b[1] <= 127 -> b[1]
      [] b[1] < 194  -> Repl
      [] b[1] < 224  -> IF IsTail(b[2]) THEN (b[1] % 32) * 64 + (b[2] % 64) ELSE Repl
      [] OTHER -> IF IsTail(b[2]) /\ IsTail(b[3]) /\ ~(b[1] = 224 /\ b[2] < 160)
                  THEN (b[1] % 16) * 4096 + (b[2] % 64) * 64 + (b[3] % 64) ELSE Repl

RECURSIVE Utf8Chars(_, _, _)

\* n characters from index i of s on: what they are, and where they end.
Utf8Chars(s, i, n) ==
    IF n = 0 THEN [out |-> <<>>, bad |-> FALSE, end |-> i]
    ELSE LET k == A_UTF8_SKIP(s[i + 1])
             c == Utf8Char(SubSeq(s, i + 1, i + k))
             r == Utf8Chars(s, i + k, n - 1)
         IN  [out |-> <<c>> \o r.out, bad |-> r.bad \/ c = Repl, end |-> r.end]

\* The number of bytes that the character in unp lacks.
Pending(unp) == IF unp = <<>> THEN 0 ELSE A_UTF8_SKIP(unp[1]) - Len(unp)

(* Faulty variant: the bytes that are kept are forgotten. *)
KeepUnprocessedNone(unp, s) == <<>>

\* The bytes that are kept when the piece s does not complete a character.
KeepUnprocessed(unp, s) == IF Pending(unp) > Len(s) THEN unp ELSE <<>>

\* The first pass counts the characters, the second decodes them.
Utf8Decode(unp, s) ==
    LET first == Pending(unp)
        n     == CountChars(s, first, IF unp # <<>> /\ first <= Len(s) THEN 1 ELSE 0)
        r     == Utf8Chars(unp \o s, 0, n)
        j     == Max({0, r.end - Len(unp)})
    IN  [out |-> r.out, bad |-> r.bad,
         unp |-> KeepUnprocessed(unp, s) \o SubSeq(s, j + 1, Len(s))]

A_UTF8_LEN(ch) == CASE ch <= 127 -> 1 [] ch <= 2047 -> 2 [] OTHER -> 3

Utf8Encode(chars) ==
    FlattenSeq([i \in DOMAIN chars |->
        LET ch == chars[i]
        IN  CASE A_UTF8_LEN(ch) = 1 -> <<ch>>
              [] A_UTF8_LEN(ch) = 2 -> <<192 + (ch \div 64), 128 + (ch % 64)>>
              [] OTHER -> <<224 + (ch \div 4096), 128 + ((ch \div 64) % 64), 128 + (ch % 64)>>])

\* UTF-16 (UCS-2): a character is two bytes.
Utf16Decode(unp, s, isBigEndian) ==
    LET n == (Len(s) + Len(unp)) \div 2
        b == IF s = <<>> THEN <<>> ELSE unp \o s
        c(x, y) == IF isBigEndian THEN x * 256 + y ELSE x + y * 256
        j == IF s = <<>> THEN 0 ELSE 2 * n - Len(unp)
    IN  [out |-> [i \in 1..n |-> c(b[2 * i - 1], b[2 * i])], bad |-> FALSE,
         unp |-> IF j = Len(s) - 1 THEN <<s[Len(s)]>> ELSE <<>>]

Utf16Encode(chars, isBigEndian) ==
    FlattenSeq([i \in DOMAIN chars |->
        IF isBigEndian THEN <<chars[i] \div 256, chars[i] % 256>>
                       ELSE <<chars[i] % 256, chars[i] \div 256>>])

(***************************************************************************)
(* 8-bit encodings.  The description of a table is a sequence of entries:  *)
(* a difference to the code before (delta), a code (code), n consecutive   *)
(* codes (run), n codes that map to themselves (same) or to none (none).   *)
(***************************************************************************)
RECURSIVE CodeTable(_, _, _)

CodeTable(data, prev, table) ==
    IF data = <<>> THEN table
    ELSE LET d == Head(data)
             at == Len(table)
             more == CASE d.k = "delta" -> <<prev + d.n>>
                       [] d.k = "code"  -> <<d.n>>
                       [] d.k = "run"   -> [i \in 1..d.n |-> prev + i]
                       [] d.k = "same"  -> [i \in 1..d.n |-> at + i - 1 + HalfSize]
                       [] d.k = "none"  -> [i \in 1..d.n |-> Repl]
             last == IF d.k \in {"same", "none"} THEN prev ELSE more[Len(more)]
         IN  CodeTable(Tail(data), last, table \o more)

HashCode(ch) == (ch * 3) % ReverseSize

RECURSIVE Probe(_, _, _)

\* The index where ch is in the reverse map, or where it would be.
Probe(rev, j, ch) ==
    IF rev[j].src \in {0, ch} THEN j ELSE Probe(rev, (j + 1) % ReverseSize, ch)

RECURSIVE ReverseMap(_, _, _)

ReverseMap(table, i, rev) ==
    IF i > Len(table) THEN rev
    ELSE IF table[i] = Repl THEN ReverseMap(table, i + 1, rev)
    ELSE ReverseMap(table, i + 1,
             [rev EXCEPT ![Probe(rev, HashCode(table[i]), 0)] =
                  [src |-> table[i], dst |-> i - 1 + HalfSize]])

RealizeCodec(data) ==
    LET table == CodeTable(data, -1, <<>>)
    IN  [map |-> table,
         reverseMap |-> ReverseMap(table, 1,
                            [j \in 0..(ReverseSize - 1) |-> [src |-> 0, dst |-> 0]])]

\* The code of a character, or Repl (an error, or "?").
EightBitCodecEncode(info, ch) ==
    IF ch < HalfSize THEN ch
    ELSE LET e == info.reverseMap[Probe(info.reverseMap, HashCode(ch), ch)]
         IN  IF e.src # 0 THEN e.dst ELSE Repl

EightBitCodecDecode(info, ch) ==
    CASE ch < HalfSize     -> ch
      [] ch < 2 * HalfSize -> info.map[ch - HalfSize + 1]
      [] OTHER             -> Repl

EightBitDecode(info, s) ==
    LET out == [i \in DOMAIN s |-> EightBitCodecDecode(info, s[i])]
    IN  [out |-> out, bad |-> Repl \in Range(out), unp |-> <<>>]

DecodeWith(d, unp, s) ==
    CASE d.codec = "utf8"    -> Utf8Decode(unp, s)
      [] d.codec = "utf16le" -> Utf16Decode(unp, s, FALSE)
      [] d.codec = "utf16be" -> Utf16Decode(unp, s, TRUE)
      [] d.codec = "8bit"    -> EightBitDecode(d.info, s)

EncodeWith(d, chars) ==
    CASE d.codec = "utf8"    -> Utf8Encode(chars)
      [] d.codec = "utf16le" -> Utf16Encode(chars, FALSE)
      [] d.codec = "utf16be" -> Utf16Encode(chars, TRUE)
      [] d.codec = "8bit"    -> [i \in DOMAIN chars |-> EightBitCodecEncode(d.info, chars[i])]

(***************************************************************************)
(* A decoder that is given the pieces of a text.                           *)
(***************************************************************************)
\* The table of an 8-bit encoding is realized when it is used first.
InitializeCodec(codec, strict, data) ==
    [codec |-> codec, strict |-> strict, unp |-> <<>>,
     info |-> IF codec = "8bit" THEN RealizeCodec(data) ELSE <<>>]

DecInit ==
    /\ decoder = InitializeCodec("utf8", TRUE, <<>>)
    /\ decIn = <<>> /\ decDone = <<>> /\ decOut = <<>>
    /\ decState = "none"

MakeDecoder(codec, strict, data, bytes) ==
    /\ decoder' = InitializeCodec(codec, strict, data)
    /\ decIn' = bytes
    /\ decState' = "reading"
    /\ UNCHANGED <<decDone, decOut>>

\* decode: an error in strict mode leaves the decoder as it was.
DecodeChunk(n) ==
    LET s == SubSeq(decIn, 1, n)
        r == DecodeWith(decoder, decoder.unp, s)
    IN  /\ decState = "reading" /\ n <= Len(decIn)
        /\ decIn' = SubSeq(decIn, n + 1, Len(decIn))
        /\ decDone' = decDone \o s
        /\ IF r.bad /\ decoder.strict
           THEN decState' = "error" /\ UNCHANGED <<decoder, decOut>>
           ELSE /\ decOut' = decOut \o r.out
                /\ decoder' = [decoder EXCEPT !.unp = r.unp]
                /\ UNCHANGED decState

\* The end of the stream: an incomplete character becomes one replacement
\* character if the stream is not strict.
ATextStream_ReadEnd ==
    /\ decState = "reading" /\ decIn = <<>>
    /\ decState' = "eof"
    /\ decOut' = IF ~decoder.strict /\ decoder.unp # <<>> THEN Append(decOut, Repl) ELSE decOut
    /\ UNCHANGED <<decoder, decIn, decDone>>

DecNext ==
    \/ /\ decState = "none"
       /\ \E c \in DOMAIN EncBytes, strict \in BOOLEAN :
             \E data \in (IF c = "8bit" THEN EncTables ELSE {<<>>}), b \in EncBytes[c] :
                MakeDecoder(c, strict, data, b)
    \/ \E n \in EncChunks[decoder.codec] : DecodeChunk(n)
    \/ ATextStream_ReadEnd

(***************************************************************************)
(* Properties.                                                             *)
(***************************************************************************)
WholeText == DecodeWith(decoder, <<>>, decDone)

\* A text that is decoded in pieces, wherever it is cut, gives the characters
\* and the error that it gives when it is decoded at once; an incomplete
\* character at its end is kept, and is seen at the end of the stream.
ChunksDoNotMatter ==
    /\ decState \in {"reading", "eof"}
         => /\ decoder.unp = WholeText.unp
            /\ ~(decoder.strict /\ WholeText.bad)
            /\ decOut = WholeText.out \o
                          (IF decState = "eof" /\ ~decoder.strict /\ decoder.unp # <<>>
                           THEN <<Repl>> ELSE <<>>)
    /\ decState = "error" => WholeText.bad

\* A strict decoder accepts only what an encoder produces: encoding what it
\* returned gives back the bytes, also if the characters of an 8-bit encoding
\* collide in its reverse map.
DecodingIsInjective ==
    decState \in {"reading", "eof"} /\ decoder.strict
      => EncodeWith(decoder, decOut) \o decoder.unp = decDone

\* Decoding depends on the bytes only, and loses nothing of them.
DecodingIsExact == ChunksDoNotMatter /\ DecodingIsInjective
=============================================================================
