---------------------------- MODULE TextUtilities ----------------------------
(***************************************************************************)
(* The algorithms on text of src/utilities/: StringUtilities.cpp,          *)
(* HexConverter.cpp, Base64.cpp and the line parser of CSVReader.cpp.  A   *)
(* text is a sequence of characters; positions are those of the code,      *)
(* which begin at 0.  Undefined stands for what a call returns that reads  *)
(* outside its text, which it must not be given.  A byte is a number below *)
(* 256, and so is what a digit stands for below its base.                  *)
(***************************************************************************)
EXTENDS Integers, Sequences, SequencesExt

CONSTANT ColumnRange   \* 2^16, the values of uint16_t
ASSUME ColumnRangeAssumption == ColumnRange \in Nat \ {0}

Undefined == <<"undefined">>

Space == {" "}
Blank == {" ", "tab", "newline"}    \* the symbols of strip, and TBL of strip_fast
IsSpace == Blank \cup {"vtab"}      \* isspace: \v and \f as well

(* substr: up to the end if the text has no more; a negative count is a    *)
(* huge one.                                                               *)
Substr(text, pos, count) ==
  SubSeq(text, pos + 1, IF count < 0 THEN Len(text) ELSE Min({pos + count, Len(text)}))

(* find_first_not_of, or the length: where a loop from the left stops.     *)
First(text, chars) ==
  Min({k \in 0..Len(text) : k = Len(text) \/ text[k + 1] \notin chars})

(* Where a loop from the right stops: at the first character, if not       *)
(* before.                                                                 *)
Final(text, chars) ==
  Max({k \in 0..(Len(text) - 1) : k = 0 \/ text[k + 1] \notin chars})
-----------------------------------------------------------------------------
Trim1(text) ==
  LET beg == First(text, Space)
      end == IF text = <<>> THEN 0 ELSE Final(text, Space)
  IN  Substr(text, beg, end - beg + 1)

(* Mutant of Trim2: the text is not turned round again.                    *)
MutantTurnedOnce(text) ==
  LET Erased(t) == Substr(t, First(t, Space), -1)
  IN  Erased(Reverse(Erased(text)))

Trim2(text) ==
  LET Erased(t) == Substr(t, First(t, Space), -1)
  IN  Reverse(Erased(Reverse(Erased(text))))

(* strip and trim_3: when nothing is left, the last position is no more.   *)
StripOf(text, chars) ==
  LET rest == Substr(text, First(text, chars), -1)
  IN  IF rest = <<>> THEN Undefined ELSE Substr(rest, 0, Final(rest, chars) + 1)

Strip(text) == StripOf(text, Blank)
Trim3(text) == StripOf(text, Space)

StripFast(text) ==
  LET left == First(text, Blank)
      right == Max({left - 1} \cup {k \in left..(Len(text) - 1) : text[k + 1] \notin Blank})
  IN  IF text = <<>> THEN Undefined ELSE Substr(text, left, right - left + 1)

(* trim drops spaces on the left and what isspace says on the right, but   *)
(* never the first character on the right; a view has no negative length.  *)
Trim(text) ==
  IF text = <<>> THEN Undefined
  ELSE LET start == First(text, Space)
           end == Final(text, IsSpace)
       IN  IF end - start + 1 < 0 THEN Undefined
           ELSE Substr(text, start, end - start + 1)

TrimEx(text) ==
  LET start == First(text, IsSpace)
      end == Len(text) - First(Reverse(text), IsSpace)
  IN  IF start < end THEN Substr(text, start, end - start) ELSE <<>>

(* erase of remove_if: what is to be dropped goes, the rest moves up.      *)
Dropping(seq, dropped) ==
  FoldLeft(LAMBDA kept, e : IF e \in dropped THEN kept ELSE Append(kept, e), <<>>, seq)

RemoveChars(text) == Dropping(text, {"tab", "newline"})
-----------------------------------------------------------------------------
(* split at any of the delimiters: empty pieces are left out.              *)
SplitAny(text, delimiters) ==
  LET n == Len(text)
      output[first \in 0..n] ==
        IF first = n THEN <<>>
        ELSE LET found == {k \in first..(n - 1) : text[k + 1] \in delimiters}
                 second == IF found = {} THEN n ELSE Min(found)
                 piece == IF first = second THEN <<>>
                          ELSE <<Substr(text, first, second - first)>>
             IN  piece \o IF found = {} THEN <<>> ELSE output[second + 1]
  IN  output[0]

(* split(parts) and split_to: each search for the delimiter begins behind  *)
(* the place of the last; the delimiter must not be empty.                 *)
SplitAt(text, delimiter) ==
  LET n == Len(delimiter)
      parts[prev \in 0..Len(text)] ==
        LET found == {k \in prev..(Len(text) - n) : Substr(text, k, n) = delimiter}
        IN  IF found = {} THEN <<Substr(text, prev, -1)>>
            ELSE <<Substr(text, prev, Min(found) - prev)>> \o parts[Min(found) + n]
  IN  parts[0]

(* stringToChunks: the last chunk is what is left, be it nothing.          *)
Chunks(text, chunkSize) ==
  LET n == Len(text)
      chunks[prev \in 0..n] ==
        IF prev + chunkSize >= n THEN <<Substr(text, prev, -1)>>
        ELSE <<Substr(text, prev, chunkSize)>> \o chunks[prev + chunkSize]
  IN  chunks[0]

(* parseLine: a comma ends a field unless a quotation of either kind is    *)
(* open; within one kind the other opens and closes all the same.          *)
ParserInit == [parts |-> <<>>, prev |-> 0, dQuotes |-> FALSE, sQuotes |-> FALSE]

ParserStep(s, line, idx) ==
  CASE line[idx + 1] = "double" -> [s EXCEPT !.dQuotes = ~@]
    [] line[idx + 1] = "single" -> [s EXCEPT !.sQuotes = ~@]
    [] line[idx + 1] = "," /\ ~s.dQuotes /\ ~s.sQuotes ->
         [s EXCEPT !.parts = Append(@, Substr(line, s.prev, idx - s.prev)),
                   !.prev = idx + 1]
    [] OTHER -> s

ParseLine(line) ==
  LET end == FoldLeft(LAMBDA s, idx : ParserStep(s, line, idx), ParserInit,
                      [k \in 1..Len(line) |-> k - 1])
  IN  IF line = <<>> THEN <<>>
      ELSE Append(end.parts, Substr(line, end.prev, Len(line) - end.prev))

(* readCsv: the column a header names, the last one if several do.  The    *)
(* columns are counted by a uint16_t, which wraps around.                  *)
Headers(line) ==
  LET names == ParseLine(line)
  IN  [name \in Range(names) |->
         (Max({k \in DOMAIN names : names[k] = name}) - 1) % ColumnRange]

(* Row::operator[] of a header; a row must be as long as the header.       *)
FieldOf(headers, row, name) ==
  IF name \notin DOMAIN headers THEN <<>>
  ELSE IF headers[name] < Len(row) THEN row[headers[name] + 1] ELSE Undefined
-----------------------------------------------------------------------------
(* bytesToHex.                                                             *)
BytesToHex(bytes) ==
  FlattenSeq([k \in DOMAIN bytes |-> <<bytes[k] \div 16, bytes[k] % 16>>])

(* hexCode: what is no digit counts as 0.                                  *)
HexCode(symbol) == IF symbol \in 0..15 THEN symbol ELSE 0

(* hex2Bytes, of an even number of digits.                                 *)
HexToBytes(digits) ==
  [k \in 1..(Len(digits) \div 2) |->
     16 * HexCode(digits[2 * k - 1]) + HexCode(digits[2 * k])]

(* intToHex, of the value as an unsigned number of so many bits.           *)
IntToHex(value, bits) ==
  LET result[n \in 0..(2^bits - 1)] ==
        IF n < 16 THEN <<n>> ELSE Append(result[n \div 16], n % 16)
  IN  result[value % 2^bits]

Padding == 64   \* '='

(* Mutant of Base64Block: the low bits of the byte in between are lost.    *)
MutantNoCarry(byte0, byte1, byte2, present) ==
  <<byte0 \div 4, (byte0 % 4) * 16 + (byte1 \div 16),
    IF present > 1 THEN (byte1 % 16) * 4 ELSE Padding,
    IF present > 2 THEN byte2 % 64 ELSE Padding>>

(* Four codes for three bytes, of which so many are present.               *)
Base64Block(byte0, byte1, byte2, present) ==
  <<byte0 \div 4, (byte0 % 4) * 16 + (byte1 \div 16),
    IF present > 1 THEN (byte1 % 16) * 4 + (byte2 \div 64) ELSE Padding,
    IF present > 2 THEN byte2 % 64 ELSE Padding>>

(* base64Encode.                                                           *)
Base64Encode(bytes) ==
  LET n == Len(bytes)
      Byte(k) == IF k <= n THEN bytes[k] ELSE 0
  IN  FlattenSeq([b \in 1..((n + 2) \div 3) |->
        Base64Block(Byte(3 * b - 2), Byte(3 * b - 1), Byte(3 * b), n - 3 * (b - 1))])
-----------------------------------------------------------------------------
Join(parts, delimiter) ==
  IF parts = <<>> THEN <<>>
  ELSE Head(parts) \o FlattenSeq([k \in 1..(Len(parts) - 1) |-> delimiter \o parts[k + 1]])

(* The result is what text has between the outermost characters that are   *)
(* not to be dropped.                                                      *)
IsMiddle(result, text, chars) ==
  /\ result # <<>>
  /\ Head(result) \notin chars /\ Last(result) \notin chars
  /\ \E i, j \in 0..Len(text) :
       /\ Range(Substr(text, 0, i)) \subseteq chars
       /\ Range(Substr(text, j, -1)) \subseteq chars
       /\ i <= j /\ result = Substr(text, i, j - i)

(* Functions that do the same by different loops agree wherever they mean  *)
(* the same characters, and none loses or invents text: trimming a text    *)
(* that is more than what is to be dropped leaves its middle.  strip and   *)
(* strip_fast always agree; trimEx and trim drop more than they and trim_1 *)
(* do, and agree with them on a text without the characters only isspace   *)
(* holds for; trim leaves, on the right, nothing isspace holds for.        *)
(* What was split or cut into chunks can be joined again, leaving out the  *)
(* empty pieces gives what the other split does; a line of fields is its   *)
(* fields and commas, no field holds a comma outside quotes, and a header  *)
(* finds the field under it, unless it names a column beyond those that    *)
(* the index counts.                                                       *)
KeepsText(text) ==
  /\ IF Range(text) \subseteq Space
     THEN Trim1(text) = <<>> /\ Trim2(text) = <<>>
     ELSE /\ IsMiddle(Trim1(text), text, Space)
          /\ Trim2(text) = Trim1(text) /\ Trim3(text) = Trim1(text)
          /\ Range(text) \cap IsSpace \subseteq Space => Trim(text) = Trim1(text)
  /\ IF Range(text) \subseteq Blank
     THEN StripFast(text) \in {<<>>, Undefined}
     ELSE /\ IsMiddle(Strip(text), text, Blank)
          /\ StripFast(text) = Strip(text)
          /\ Range(text) \cap IsSpace \subseteq Blank => TrimEx(text) = Strip(text)
  /\ IF Range(text) \subseteq IsSpace
     THEN TrimEx(text) = <<>>
     ELSE /\ IsMiddle(TrimEx(text), text, IsSpace)
          /\ Last(Trim(text)) \notin IsSpace
  /\ \A d \in {<<",">>, <<",", " ">>, <<" ", " ">>} : Join(SplitAt(text, d), d) = text
  /\ \A size \in 1..3 : LET chunks == Chunks(text, size)
                        IN  /\ FlattenSeq(chunks) = text
                            /\ \A k \in DOMAIN chunks : Len(chunks[k]) <= size
  /\ SplitAny(text, {","}) = Dropping(SplitAt(text, <<",">>), {<<>>})
  /\ RemoveChars(text) = FlattenSeq(SplitAny(text, {"tab", "newline"}))
  /\ LET fields == ParseLine(text)
     IN  /\ Join(fields, <<",">>) = text
         /\ \A field \in Range(fields) : field # <<>> => ParseLine(field) = <<field>>
         /\ \A name \in Range(fields) :
              (\A k \in DOMAIN fields : fields[k] = name => k <= ColumnRange) =>
                FieldOf(Headers(text), fields, name) = name

Value(digits, base) == FoldLeft(LAMBDA n, digit : base * n + digit, 0, digits)

(* What was written as digits or codes can be read back: the bytes from    *)
(* their hexadecimal digits, the bits of each block of three from its four *)
(* codes, the number, wrapped around at its width, from digits that do not *)
(* begin with 0.                                                           *)
KeepsBytes(bytes) ==
  /\ HexToBytes(BytesToHex(bytes)) = bytes
  /\ LET codes == Base64Encode(bytes)
         Code(k) == IF codes[k] = Padding THEN 0 ELSE codes[k]
         Byte(k) == IF k \in DOMAIN bytes THEN bytes[k] ELSE 0
     IN  /\ Len(codes) % 4 = 0
         /\ \A k \in DOMAIN codes :
              codes[k] = Padding <=> k > Len(codes) - ((2 * Len(bytes)) % 3)
         /\ \A b \in 1..(Len(codes) \div 4) :
              Value([k \in 1..4 |-> Code(4 * (b - 1) + k)], 64)
                = Value([k \in 1..3 |-> Byte(3 * (b - 1) + k)], 256)
  /\ LET number == Value(Substr(bytes, 0, 2), 256)
         digits == IntToHex(number, 8)
     IN  /\ Value(digits, 16) = number % 256
         /\ digits[1] = 0 => digits = <<0>>
=============================================================================
