-------------------------------- MODULE Values --------------------------------
(***************************************************************************)
(* Data: conversions, comparisons and arithmetic. A datum is an integer, or *)
(* a string or a buffer with its characters (or bytes) and the room of its  *)
(* memory. There are no variables here. Integers have WordBytes bytes (8 in *)
(* the code), of which a state with integers of 32 bits uses HalfBytes (4). *)
(* A digit has NibbleBits bits (4), a byte two digits.                      *)
(***************************************************************************)
EXTENDS Integers, SequencesExt, Bitwise

CONSTANTS NibbleBits, WordBytes, HalfBytes,
          DecRadix,  \* 10 in the code, between OctRadix and HexRadix
          OctRadix   \* 8

HexRadix == 2^NibbleBits
Base == HexRadix^2
WordBits == 2 * NibbleBits * WordBytes

ASSUME RadixAssumption ==
  /\ {NibbleBits, WordBytes, HalfBytes, DecRadix, OctRadix} \subseteq Nat \ {0}
  /\ HalfBytes < WordBytes /\ 1 < OctRadix /\ OctRadix < DecRadix /\ DecRadix < HexRadix
  /\ HexRadix + 5 < Base

IntBytes(wide) == IF wide THEN WordBytes ELSE HalfBytes
Wrap(n) == n % Base^WordBytes               \* a UINT64
Low(wide, n) == n % Base^IntBytes(wide)
Ones == Base^WordBytes - 1                  \* ~0ull
True(b) == IF b THEN Ones ELSE 0

\* Characters: the end of a string, the digits, and the others with a meaning.
Nul == 0
Digit(d) == d + 1
CharX == HexRadix + 2
Comma == HexRadix + 3
Space == HexRadix + 4
TypeName == <<HexRadix + 5>>  \* what stands for data of another type
EndTag == <<Base - 1, 0>>

None == [type |-> "none"]
Number(n) == [type |-> "integer", n |-> n]
Data(type, data, room) == [type |-> type, data |-> data, room |-> room]
Buffer(data) == Data("buffer", data, Len(data))
String(data) == Data("string", data, Len(data) + 1)
Unset(type) == IF type = "integer" THEN Number(0) ELSE [type |-> type]
HasData(v) == "data" \in DOMAIN v

-----------------------------------------------------------------------------
(* Text and bytes. *)

\* AmlStringConvDigitCharToInteger. A radix with letters has one letter too many.
DigitOf(c, radix) == IF c \in 1..(radix + (IF radix > DecRadix THEN 1 ELSE 0)) THEN c - 1 ELSE -1

\* AmlStringConvParseIntegerU64. Radix 0 stands for the prefixes of C.
Parse(s, radix) ==
  LET octal == radix = 0 /\ s[1] = Digit(0)
      hex == octal /\ Len(s) > 1 /\ s[2] = CharX
      r == IF radix # 0 THEN radix
           ELSE IF hex THEN HexRadix ELSE IF octal THEN OctRadix ELSE DecRadix
      first == IF hex THEN 3 ELSE IF octal THEN 2 ELSE 1
      value[i \in (first - 1)..Len(s)] ==
        IF i < first THEN 0 ELSE Wrap(value[i - 1] * r + DigitOf(s[i], r))
  IN value[CHOOSE i \in (first - 1)..Len(s) :
             /\ \A j \in first..i : DigitOf(s[j], r) >= 0
             /\ i < Len(s) => DigitOf(s[i + 1], r) < 0]

\* Mutant: a digit is left out where the number ends in zeros.
Numeral_Short(n, radix, most) ==
  LET len == Cardinality({i \in 1..(most - 1) : (n \div radix^i) % radix # 0}) + 1
  IN [j \in 1..len |-> Digit((n \div radix^(len - j)) % radix)]

\* The digits of a number from the last one on, up to a given number of them.
Numeral(n, radix, most) ==
  LET len == Cardinality({i \in 1..(most - 1) : n \div radix^i > 0}) + 1
  IN [j \in 1..len |-> Digit((n \div radix^(len - j)) % radix)]

Bytes(n, count) == [i \in 1..count |-> (n \div Base^(i - 1)) % Base]
Unbytes(s) == FoldRight(LAMBDA byte, n : byte + Base * n, s, 0)
Fit(s, len) == [i \in 1..len |-> IF i <= Len(s) THEN s[i] ELSE 0]
Start(s, len) == SubSeq(s, 1, IF len < Len(s) THEN len ELSE Len(s))

HexDigits(wide) == 2 * IntBytes(wide)
\* 20 or 10: what the largest integer needs.
DecDigits(wide) == Len(Numeral(Base^IntBytes(wide) - 1, DecRadix, WordBits))

-----------------------------------------------------------------------------
(* Conversions. The output is a new datum or, if it fits, the memory of the *)
(* one that is there. Flags: implicit, explicit, and the explicit ones to    *)
(* a string (string, hex, decimal).                                         *)

Fresh(v) == [ok |-> TRUE, value |-> v, fresh |-> TRUE]
InPlace(v) == [ok |-> TRUE, value |-> v, fresh |-> FALSE]
NoValue == [ok |-> FALSE]
Trap == [ok |-> FALSE, trap |-> TRUE]  \* the process stops

StringToBuffer(s, out) ==
  IF HasData(out) THEN InPlace(Data("buffer", Fit(s, Len(out.data)), out.room))
  ELSE Fresh(Buffer(Append(s, Nul)))

\* Mutant: the room of the string is compared without its terminator.
StringToString_Room(s, out) ==
  IF HasData(out) /\ out.room >= Len(s) THEN InPlace(Data("string", s, out.room))
  ELSE Fresh(String(s))

StringToString(s, out) ==
  IF HasData(out) /\ Len(out.data) >= Len(s) THEN InPlace(Data("string", s, out.room))
  ELSE Fresh(String(s))

StringToInteger(wide, flags, s) ==
  IF s = <<>> THEN NoValue
  ELSE Fresh(Number(Parse(Start(s, HexDigits(wide)), IF flags = "implicit" THEN HexRadix ELSE 0)))

IntegerToBuffer(wide, n, out) ==
  LET bytes == Bytes(n, IntBytes(wide))
  IN IF HasData(out) THEN InPlace(Data("buffer", Fit(bytes, Len(out.data)), out.room))
     ELSE Fresh(Buffer(bytes))

IntegerToString(wide, flags, n, out) ==
  LET most == IF flags = "decimal" THEN DecDigits(wide) ELSE HexDigits(wide)
      numeral == Numeral(n, IF flags = "decimal" THEN DecRadix ELSE HexRadix, most)
  IN IF HasData(out) /\ Len(out.data) >= most THEN InPlace(Data("string", numeral, out.room))
     ELSE Fresh(Data("string", numeral, most + 1))

BufferToInteger(wide, b) ==
  IF b = <<>> THEN NoValue ELSE Fresh(Number(Unbytes(Start(b, IntBytes(wide)))))

\* A byte as text: two hexadecimal digits, or the last two decimal ones.
ByteText(flags, byte) ==
  IF flags = "decimal"
  THEN LET tens == (byte \div DecRadix) % DecRadix
       IN (IF tens = 0 THEN <<>> ELSE <<Digit(tens)>>) \o <<Digit(byte % DecRadix)>>
  ELSE <<Digit(byte \div HexRadix), Digit(byte % HexRadix)>>

\* The bytes as they are, up to the first NUL, or their texts with separators.
BufferText(flags, b) ==
  IF flags = "string"
  THEN LET nul == SelectInSeq(b, LAMBDA byte : byte = Nul)
       IN IF nul = 0 THEN b ELSE SubSeq(b, 1, nul - 1)
  ELSE FlattenSeq([i \in DOMAIN b |->
         IF i = Len(b) THEN ByteText(flags, b[i])
         ELSE Append(ByteText(flags, b[i]), IF flags \in {"hex", "decimal"} THEN Comma ELSE Space)])

BufferToString(flags, b, out) ==
  LET text == BufferText(flags, b)
  IN IF HasData(out) /\ Len(out.data) >= 3 * Len(b) THEN InPlace(Data("string", text, out.room))
     ELSE Fresh(Data("string", text, 3 * Len(b) + 1))

\* A buffer that is too small gets more memory and stays the same buffer.
BufferToBuffer(b, out) ==
  IF HasData(out) THEN InPlace(Data("buffer", b, IF Len(b) > out.room THEN Len(b) ELSE out.room))
  ELSE Fresh(Buffer(b))

IntegerStore(wide, flags, n, out) ==
  CASE out.type = "string" -> IntegerToString(wide, flags, n, out)
    [] out.type = "buffer" -> IntegerToBuffer(wide, n, out)
    [] OTHER -> Fresh(Number(n))

StringStore(wide, flags, s, out) ==
  CASE out.type = "buffer" -> StringToBuffer(s, out)
    [] out.type = "integer" -> StringToInteger(wide, flags, s)
    [] OTHER -> StringToString(s, out)

BufferStore(wide, flags, b, out) ==
  CASE out.type = "string" -> BufferToString(flags, b, out)
    [] out.type = "integer" -> BufferToInteger(wide, b)
    [] OTHER -> BufferToBuffer(b, out)

ObjectStore(wide, flags, v, out) ==
  CASE v.type = "integer" -> IntegerStore(wide, flags, v.n, out)
    [] v.type = "string" -> StringStore(wide, flags, v.data, out)
    [] v.type = "buffer" -> BufferStore(wide, flags, v.data, out)
    [] OTHER -> NoValue

\* AmlConvObjectInPlace: a datum becomes one of a type, always in memory of its own.
ObjectInPlace(wide, flags, v, type) == ObjectStore(wide, flags, v, Unset(type))

\* AmlEvalTermArgToType: what already has the type is left as it is.
TermArgToType(wide, v, type) ==
  IF v.type = type THEN [ok |-> TRUE, value |-> v] ELSE ObjectInPlace(wide, "implicit", v, type)

-----------------------------------------------------------------------------
(* Comparisons. The second operand is converted to the type of the first. *)

Ordered(kind, a, b) ==
  CASE kind = "equal" -> a = b
    [] kind = "less" -> a < b
    [] kind = "less equal" -> a <= b
    [] kind = "greater" -> a > b
    [] kind = "greater equal" -> a >= b

CompareRawBytes(kind, s, t) ==
  LET differ == {i \in DOMAIN s \intersect DOMAIN t : s[i] # t[i]}
      i == CHOOSE i \in differ : \A j \in differ : i <= j
  IN IF differ = {} THEN Ordered(kind, Len(s), Len(t)) ELSE Ordered(kind, s[i], t[i])

CompareInteger(wide, kind, v, w) == Ordered(kind, Low(wide, v.n), Low(wide, w.n))

\* AmlCompareData. The result is a boolean in a field, or there is none.
Compare(wide, kind, v, w) ==
  LET conv == ObjectInPlace(wide, "implicit", w, v.type)
  IN IF v = None \/ ~conv.ok THEN NoValue
     ELSE [ok |-> TRUE, holds |-> IF v.type = "integer" THEN CompareInteger(wide, kind, v, conv.value)
                                  ELSE CompareRawBytes(kind, v.data, conv.value.data)]

-----------------------------------------------------------------------------
(* Arithmetic. With integers of 32 bits the operands are cut or extended,   *)
(* and the result is left as it comes out.                                  *)

SignExtend(wide, n) ==
  LET low == Low(FALSE, n)
      limit == Base^HalfBytes
  IN IF wide THEN n ELSE IF 2 * low < limit THEN low ELSE Wrap(low - limit)

Extended == {"add", "subtract", "multiply", "mod"}

BinaryArgument(wide, kind, n) ==
  IF kind \in Extended THEN SignExtend(wide, n) ELSE IF wide THEN n ELSE Low(FALSE, n)

Shift(n) == Min({n, WordBits - 1})

\* Mutant: the operands change places.
Binary_Swapped(wide, kind, m, n) ==
  LET x == BinaryArgument(wide, kind, n)
      y == BinaryArgument(wide, kind, m)
  IN IF kind = "mod" /\ y = 0 THEN NoValue
     ELSE Fresh(Number(CASE kind = "add" -> Wrap(x + y) [] kind = "subtract" -> Wrap(x - y) [] OTHER -> x))

Binary(wide, kind, m, n) ==
  LET x == BinaryArgument(wide, kind, m)
      y == BinaryArgument(wide, kind, n)
  IN IF kind = "mod" /\ y = 0 THEN NoValue
     ELSE Fresh(Number(
       CASE kind = "add" -> Wrap(x + y)
         [] kind = "subtract" -> Wrap(x - y)
         [] kind = "multiply" -> Wrap(x * y)
         [] kind = "mod" -> x % y
         [] kind = "and" -> x & y
         [] kind = "nand" -> Ones - (x & y)
         [] kind = "or" -> x | y
         [] kind = "nor" -> Ones - (x | y)
         [] kind = "xor" -> x ^^ y
         [] kind = "shift left" -> Wrap(x * 2^Shift(y))
         [] kind = "shift right" -> x \div 2^Shift(y)))

Complement(n) == Ones - n

LNot(n) == True(n = 0)

Logical(kind, m, n) ==
  True(CASE kind = "land" -> m # 0 /\ n # 0 [] kind = "lor" -> m # 0 \/ n # 0)

\* Divide: the divisor is tested before it is extended, and a zero then traps.
Divide(wide, m, n) ==
  LET x == SignExtend(wide, m)
      y == SignExtend(wide, n)
  IN IF n = 0 THEN NoValue
     ELSE IF y = 0 THEN Trap
     ELSE [ok |-> TRUE, quotient |-> Number(x \div y), remainder |-> Number(x % y)]

Increment(wide, n) == (Low(wide, n) + 1) % Base^IntBytes(wide)

Decrement(wide, n) == IF n # 0 THEN Wrap(Low(wide, n) - 1) ELSE Base^IntBytes(wide) - 1

BitsOf(n) == {i \in 0..(WordBits - 1) : (n \div 2^i) % 2 = 1}

\* Positions count from 1. With integers of 64 bits the mask is empty.
FindSetLeftBit(wide, n) == IF wide \/ Low(FALSE, n) = 0 THEN 0 ELSE Max(BitsOf(Low(FALSE, n))) + 1

\* The upper half counts as set once the number is not zero.
FindSetRightBit(wide, n) ==
  IF wide \/ n = 0 THEN 0
  ELSE Min(BitsOf(n) \union (2 * NibbleBits * HalfBytes)..(WordBits - 1)) + 1

\* A decimal digit per nibble; the shift of one that has none is undefined,
\* and either loses it or brings it to the nibbles at the bottom.
DecimalToBcd(n) ==
  LET digits == [i \in 0..(WordBits - 1) |-> (n \div DecRadix^i) % DecRadix]
      nibbles == 2 * WordBytes
      value == FoldFunctionOnSet(+, 0, [i \in 0..(nibbles - 1) |-> digits[i] * HexRadix^i], 0..(nibbles - 1))
      again == FoldFunctionOnSet(LAMBDA d, e : d | e, 0,
                 [i \in 0..(nibbles - 1) |-> digits[i + nibbles] * HexRadix^i], 0..(nibbles - 1))
  IN {value, value | again}

BcdToDecimal(n) == FoldRight(LAMBDA d, e : d + DecRadix * e, [i \in 1..(2 * WordBytes) |->
                     (n \div HexRadix^(i - 1)) % HexRadix], 0)

-----------------------------------------------------------------------------
(* Strings, buffers and packages. *)

ConcatValue(v) == IF v = None THEN String(TypeName) ELSE v

Concat(wide, v, w) ==
  LET a == ConcatValue(v)
      conv == ObjectInPlace(wide, "implicit", ConcatValue(w), a.type)
  IN IF ~conv.ok THEN NoValue
     ELSE LET b == conv.value
          IN Fresh(CASE a.type = "integer" -> Buffer(Bytes(a.n, IntBytes(wide)) \o Bytes(b.n, IntBytes(wide)))
                     [] a.type = "string" -> String(a.data \o b.data)
                     [] a.type = "buffer" -> Buffer(a.data \o b.data))

\* ConcatenateResTemplate: without their end tags, and one behind them.
ConcatRes(b, c) ==
  LET items(s) == IF Len(s) < 2 THEN <<>> ELSE SubSeq(s, 1, Len(s) - 2)
  IN Fresh(Buffer(items(b) \o items(c) \o EndTag))

\* A part of a string has no room for a terminator.
Mid(v, index, length) ==
  IF ~HasData(v) THEN NoValue
  ELSE LET part == SubSeq(v.data, index + 1, Min({index + length, Len(v.data)}))
       IN Fresh(Data(v.type, part, Len(part)))

MatchCompareValue(wide, v, kind, w) ==
  \/ kind = "true"
  \/ LET c == Compare(wide, kind, v, w) IN c.ok /\ c.holds

MatchPackageElement(wide, e, kind1, v1, kind2, v2) ==
  LET e1 == ObjectInPlace(wide, "implicit", e, v1.type)
      e2 == ObjectInPlace(wide, "implicit", e, v2.type)
  IN /\ e1.ok /\ e2.ok
     /\ MatchCompareValue(wide, e1.value, kind1, v1)
     /\ MatchCompareValue(wide, e2.value, kind2, v2)

Match(wide, package, kind1, v1, kind2, v2, start) ==
  LET found == {i \in start..(Len(package) - 1) : /\ package[i + 1] # None
                  /\ MatchPackageElement(wide, package[i + 1], kind1, v1, kind2, v2)}
  IN IF found = {} THEN Ones ELSE Min(found)

SizeOf(v) == IF HasData(v) THEN Len(v.data) ELSE 0

ObjectType(v) ==
  CASE v.type = "integer" -> 1 [] v.type = "string" -> 2 [] v.type = "buffer" -> 3 [] OTHER -> 0

=============================================================================
