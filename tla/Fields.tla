-------------------------------- MODULE Fields --------------------------------
(***************************************************************************)
(* Field units: fields of operation regions, bank and index fields, and    *)
(* fields of buffers. An access to a region goes word by word through the  *)
(* handler of its address space, and what a word holds besides the field   *)
(* follows the update rule. The firmware uses the region as well; a field   *)
(* with the lock rule takes the global lock around its accesses.           *)
(*                                                                         *)
(* Data are sequences of bits. The device behind the region has a select   *)
(* register (its first character) and a window onto one of several cells,  *)
(* which is what bank and index fields are for. Characters have CharBit    *)
(* bits (8 in the code) and integers IntChars characters (8 in the code).  *)
(***************************************************************************)
EXTENDS Integers, SequencesExt

CONSTANTS
  CharBit, IntChars,
  Chars,    \* length of the region
  Window,   \* the character of the region that shows the selected cell
  Cells,    \* number of cells
  FieldOf,  \* the field units: names to records
  Stored,   \* the data that are stored
  MaxOps,   \* bound: operations
  MaxFirmwareWrites  \* bound

Names == DOMAIN FieldOf
Bits == {0, 1}

ASSUME FieldAssumption ==
  /\ {CharBit, IntChars, Chars} \subseteq Nat \ {0} /\ Cells \in 1..2 /\ Window \in 1..(Chars - 1)
  /\ \A f \in Names :
       /\ FieldOf[f].kind \in {"field", "bank", "index", "buffer"}
       /\ FieldOf[f].off \in Nat /\ FieldOf[f].acc \in Nat \ {0} /\ FieldOf[f].lock \in BOOLEAN
       /\ FieldOf[f].len \in Nat \ {0}  \* bound: a field without bits is not modelled
       /\ FieldOf[f].rule \in {"preserve", "ones", "zeros"}
       \* Bound: the fields that bank and index fields go through are plain.
       /\ FieldOf[f].kind \in {"bank", "index"} =>
            FieldOf[f].select \in Names /\ FieldOf[FieldOf[f].select].kind = "field"
       /\ FieldOf[f].kind = "bank" => FieldOf[f].value \in Nat
       /\ FieldOf[f].kind = "index" =>
            FieldOf[f].data \in Names /\ FieldOf[FieldOf[f].data].kind = "field"
  /\ Stored \subseteq Seq(Bits) /\ MaxOps \in Nat /\ MaxFirmwareWrites \in Nat

VARIABLES
  mem,    \* the device's bits and the buffer
  owner,  \* of the global lock
  held,   \* how often the evaluation holds it
  op,     \* the operation that is under way
  model,  \* history: mem, if every operation were exact and atomic
  taint,  \* history: why mem may differ from model
  spent   \* bound: operations and firmware writes so far

vars == <<mem, owner, held, op, model, taint, spent>>

NoOp == [do |-> "none"]
Idle == op = NoOp

Smaller(a, b) == IF a < b THEN a ELSE b
Larger(a, b) == IF a > b THEN a ELSE b
CharsFor(n) == (n + CharBit - 1) \div CharBit
Zeros(n) == [i \in 1..n |-> 0]
BitAt(data, i) == IF i < Len(data) THEN data[i + 1] ELSE 0  \* zero-extended

\* AmlCopyBits: n bits of the input, from bit i on, become the bits of data from bit o on.
CopyBits(input, i, n, data, o) ==
  [p \in DOMAIN data |-> IF p - 1 \in o..(o + n - 1) THEN BitAt(input, i + p - 1 - o) ELSE data[p]]

Integer(v) == [i \in 1..(IntChars * CharBit) |-> (v \div 2^(i - 1)) % 2]

-----------------------------------------------------------------------------
(* The device. *)

Selected(m) == m.region[0] % Cells  \* bound: two cells, told apart by the first bit

\* Where bit p of the region is stored.
Place(m, p) ==
  IF p \div CharBit = Window THEN (Chars + Selected(m)) * CharBit + (p % CharBit) ELSE p

RegionBit(m, p) == m.region[Place(m, p)]

\* The bits bs[0], bs[1]... from bit p of the region on are written.
Written(m, p, n, bs) ==
  LET at == [i \in 0..(n - 1) |-> Place(m, p + i)]
  IN [m EXCEPT !.region = [q \in DOMAIN @ |->
        IF \E i \in 0..(n - 1) : at[i] = q
        THEN bs[CHOOSE i \in 0..(n - 1) : at[i] = q] ELSE @[q]]]

\* What an operation on a field should do, at once.
Exact(m, r, data) ==
  LET w == r.acc * CharBit
      lo == w * (r.off \div w)
      hi == w * ((r.off + r.len + w - 1) \div w)
  IN Written(m, lo, hi - lo, [i \in 0..(hi - lo - 1) |->
       IF lo + i \in r.off..(r.off + r.len - 1) THEN BitAt(data, lo + i - r.off)
       ELSE CASE r.rule = "preserve" -> RegionBit(m, lo + i)
              [] r.rule = "ones" -> 1
              [] r.rule = "zeros" -> 0])

ExactUnit(m, f, data) ==
  LET r == FieldOf[f]
  IN CASE r.kind = "field" -> Exact(m, r, data)
       [] r.kind = "bank" -> Exact(Exact(m, FieldOf[r.select], Integer(r.value)), r, data)
       [] r.kind = "index" -> Exact(Exact(m, FieldOf[r.select], Integer(r.off \div CharBit)),
                                    FieldOf[r.data], data)
       [] r.kind = "buffer" -> [m EXCEPT !.buffer = [i \in DOMAIN @ |->
            IF i - 1 \in r.off..(r.off + r.len - 1) THEN BitAt(data, i - 1 - r.off) ELSE @[i]]]

-----------------------------------------------------------------------------
(* The steps of an operation. *)

Refuse == <<[do |-> "refuse"]>>
Locked(r, steps) ==
  IF r.lock THEN <<[do |-> "lock"]>> \o steps \o <<[do |-> "unlock"]>> ELSE steps

\* AlignedFieldByteCount against the length of the region.
InRange(r) ==
  LET aligned == r.acc * ((r.len + r.acc * CharBit - 1) \div (r.acc * CharBit))
  IN aligned <= Chars /\ r.off \div CharBit <= Chars - aligned

\* The words that hold the first n bits of a field: where in the word they
\* begin, how many of them it holds, and which bit of the field is the first.
Words(r, n) ==
  LET w == r.acc * CharBit
      word(k) == LET lo == Larger(r.off, k * w)
                     hi == Smaller(r.off + n, (k + 1) * w)
                 IN [at |-> k * w, width |-> w, offset |-> lo - k * w,
                     count |-> hi - lo, i |-> lo - r.off]
  IN [j \in 1..((r.off + n - 1) \div w - r.off \div w + 1) |-> word(r.off \div w + j - 1)]

\* A select register is not behind the window that it selects.
ShowsWindow(word) ==
  word.at \div CharBit <= Window /\ Window < (word.at + word.width) \div CharBit
ASSUME SelectAssumption ==
  \A f \in Names : FieldOf[f].kind \in {"bank", "index"} =>
    LET words == Words(FieldOf[FieldOf[f].select], FieldOf[FieldOf[f].select].len)
    IN \A j \in DOMAIN words : ~ShowsWindow(words[j])

\* AmlFieldRead, for a result of n bits.
FieldRead(r, n) ==
  IF ~InRange(r) THEN Refuse
  ELSE LET words == Words(r, Smaller(r.len, n))
       IN [j \in DOMAIN words |-> [do |-> "read", word |-> words[j]]]

\* Mutant: a word with bits of others is not read if the field fills its rest.
NeedsLoad_Partly(r, word, truncate) ==
  r.rule = "preserve" /\ ~truncate /\ r.len - word.i < word.width - word.offset

\* Whether the other bits of a word are read before it is written.
NeedsLoad(r, word, truncate) ==
  /\ r.rule = "preserve" /\ ~truncate
  /\ word.offset # 0 \/ r.len - word.i < word.width

\* AmlFieldWrite.
FieldWrite(r, data, truncate) ==
  IF ~InRange(r) THEN Refuse
  ELSE LET words == Words(r, r.len)
           write(word) ==
             (IF NeedsLoad(r, word, truncate) THEN <<[do |-> "load", word |-> word]>> ELSE <<>>)
               \o <<[do |-> "store", word |-> word, rule |-> r.rule, data |-> data]>>
       IN FlattenSeq([j \in DOMAIN words |-> write(words[j])])

\* AmlConvIntegerToFieldUnit, for the register of a bank or an index.
Select(f, v) == Locked(FieldOf[f], FieldWrite(FieldOf[f], Integer(v), FALSE))

\* Mutant: the register is selected before the global lock is taken.
BankWrite_SelectFirst(r, data, truncate) ==
  Select(r.select, r.value) \o Locked(r, FieldWrite(r, data, truncate))

BankWrite(r, data, truncate) ==
  Locked(r, Select(r.select, r.value) \o FieldWrite(r, data, truncate))
BankRead(r, n) == Locked(r, Select(r.select, r.value) \o FieldRead(r, n))

IndexWrite(r, data, truncate) ==
  Locked(r, Select(r.select, r.off \div CharBit)
              \o Locked(FieldOf[r.data], FieldWrite(FieldOf[r.data], data, truncate)))
\* Mutant: the register is given the bit at which the field begins.
IndexRead_Bit(r, n) ==
  Locked(r, Select(r.select, r.off)
              \o Locked(FieldOf[r.data], FieldRead(FieldOf[r.data], n)))

IndexRead(r, n) ==
  Locked(r, Select(r.select, r.off \div CharBit)
              \o Locked(FieldOf[r.data], FieldRead(FieldOf[r.data], n)))

\* AmlFieldUnitWrite and AmlFieldUnitRead.
UnitWrite(f, data, truncate) ==
  LET r == FieldOf[f]
  IN CASE r.kind = "field" -> Locked(r, FieldWrite(r, data, truncate))
       [] r.kind = "bank" -> BankWrite(r, data, truncate)
       [] r.kind = "index" -> IndexWrite(r, data, truncate)
       [] r.kind = "buffer" -> <<[do |-> "bufferwrite", data |-> data]>>

UnitRead(f, n) ==
  LET r == FieldOf[f]
  IN CASE r.kind = "field" -> Locked(r, FieldRead(r, n))
       [] r.kind = "bank" -> BankRead(r, n)
       [] r.kind = "index" -> IndexRead(r, n)
       [] r.kind = "buffer" -> <<[do |-> "bufferread"]>>

\* AmlConvBufferToFieldUnit writes what is longer than the field in pieces, copied one
\* by one into the same temporary buffer, of which the write gets whole characters.
Cut(data, n) ==
  [j \in 1..((Len(data) + n - 1) \div n) |->
     SubSeq(data, (j - 1) * n + 1, Smaller(j * n, Len(data)))]
Chunks(data, n) ==
  LET pieces == Cut(data, n)
      chunk[j \in 0..Len(pieces)] ==
        IF j = 0 THEN Zeros(CharsFor(n) * CharBit)
        ELSE CopyBits(data, (j - 1) * n, Len(pieces[j]), chunk[j - 1], 0)
  IN [j \in DOMAIN pieces |-> SubSeq(chunk[j], 1, CharsFor(Len(pieces[j])) * CharBit)]

-----------------------------------------------------------------------------
(* Operations. *)

Begin(do, f, steps, exact) ==
  /\ Idle /\ spent.ops < MaxOps
  /\ op' = [do |-> do, field |-> f, steps |-> steps, exact |-> exact,
            word |-> <<>>, got |-> <<>>, wrote |-> FALSE, ok |-> TRUE]
  /\ spent' = [spent EXCEPT !.ops = @ + 1]
  /\ UNCHANGED <<mem, owner, held, model>>

\* A word that is not preserved: data are not integers, and the field does not
\* begin and end with its words.
Unpreserved(f) ==
  LET r == FieldOf[IF FieldOf[f].kind = "index" THEN FieldOf[f].data ELSE f]
  IN r.kind # "buffer" /\ r.rule = "preserve"
       /\ {r.off % (r.acc * CharBit), (r.off + r.len) % (r.acc * CharBit)} # {0}

\* AmlConvIntegerToFieldUnit.
StoreInteger(f, data) ==
  /\ Len(data) = IntChars * CharBit
  /\ Begin("write", f, UnitWrite(f, data, FALSE), <<data>>)
  /\ UNCHANGED taint

WritePieces(f, pieces, exact) ==
  /\ Begin("write", f, FlattenSeq([j \in DOMAIN pieces |-> UnitWrite(f, pieces[j], TRUE)]), exact)
  /\ taint' = taint \cup (IF Unpreserved(f) THEN {"unpreserved"} ELSE {})
                    \cup (IF \E j \in DOMAIN pieces : \E i \in DOMAIN pieces[j] :
                               i <= FieldOf[f].len /\ pieces[j][i] # BitAt(exact[j], i - 1)
                          THEN {"stale"} ELSE {})

\* AmlConvBufferToFieldUnit.
StoreBuffer(f, data) ==
  LET n == FieldOf[f].len
  IN IF FieldOf[f].kind = "buffer" \/ Len(data) <= n
     THEN WritePieces(f, <<data>>, <<data>>)
     ELSE WritePieces(f, Chunks(data, n), Cut(data, n))

\* AmlConvStringToFieldUnit: one write for every character.
StoreString(f, data) ==
  LET pieces == IF FieldOf[f].kind = "buffer" THEN <<data>> ELSE Cut(data, CharBit)
  IN WritePieces(f, pieces, pieces)

\* AmlConvFieldUnitStore: what fits into an integer is read as one.
ResultBits(f) == CharBit * Larger(CharsFor(FieldOf[f].len), IntChars)
Load(f) == Begin("read", f, UnitRead(f, ResultBits(f)), <<>>) /\ UNCHANGED taint

\* A store to the buffer itself replaces its data and its size.
StoreToBuffer(data) ==
  /\ Idle /\ spent.ops < MaxOps
  /\ mem' = [mem EXCEPT !.buffer = data] /\ model' = [model EXCEPT !.buffer = data]
  /\ spent' = [spent EXCEPT !.ops = @ + 1]
  /\ UNCHANGED <<owner, held, op, taint>>

-----------------------------------------------------------------------------
(* Steps. *)

At(do) == ~Idle /\ op.ok /\ op.steps # <<>> /\ Head(op.steps).do = do
Word == Head(op.steps).word
Advance(changed) == op' = [changed EXCEPT !.steps = Tail(@)]

\* Mutant: the locks are not released on the path of a failure.
Fail_Early ==
  /\ op' = [op EXCEPT !.ok = FALSE, !.steps = <<>>]
  /\ taint' = IF op.wrote THEN taint \cup {"partial"} ELSE taint
  /\ UNCHANGED <<mem, owner, held, model, spent>>

\* The rest is left out; AmlMutexRelease follows for every lock that is held.
Fail ==
  /\ op' = [op EXCEPT !.ok = FALSE, !.steps = [i \in 1..held |-> [do |-> "unlock"]]]
  /\ taint' = IF op.wrote THEN taint \cup {"partial"} ELSE taint
  /\ UNCHANGED <<mem, owner, held, model, spent>>

\* AmlOperationRegionValidateAccess.
Valid(word) ==
  word.at \div CharBit < Chars /\ word.width \div CharBit <= Chars - word.at \div CharBit

Refused ==
  \/ At("refuse") /\ Fail
  \/ \E do \in {"read", "load", "store"} : At(do) /\ ~Valid(Word) /\ Fail

\* AmlMutexAcquire: the lock may be taken again by its holder. It may fail.
Acquire ==
  /\ At("lock") /\ owner \in {"none", "evaluation"}
  /\ owner' = "evaluation" /\ held' = held + 1 /\ Advance(op)
  /\ UNCHANGED <<mem, model, taint, spent>>
AcquireFails == At("lock") /\ Fail

\* AmlMutexRelease, also after a failure.
Release ==
  /\ ~Idle /\ op.steps # <<>> /\ Head(op.steps).do = "unlock"
  /\ held' = held - 1 /\ owner' = (IF held = 1 THEN "none" ELSE owner) /\ Advance(op)
  /\ UNCHANGED <<mem, model, taint, spent>>

\* AmlOperationRegionRead for a word of the field, and AmlCopyBits.
ReadWord ==
  /\ At("read") /\ Valid(Word)
  /\ Advance([op EXCEPT !.got = @ \o
       [j \in 1..Word.count |-> RegionBit(mem, Word.at + Word.offset + j - 1)]])
  /\ UNCHANGED <<mem, owner, held, model, taint, spent>>

\* The read of AmlFieldWrite.
LoadWord ==
  /\ At("load") /\ Valid(Word)
  /\ Advance([op EXCEPT !.word = [j \in 1..Word.width |-> RegionBit(mem, Word.at + j - 1)]])
  /\ UNCHANGED <<mem, owner, held, model, taint, spent>>

\* WordData: the bits of the field from the data, the others as they were read or
\* as the update rule has them.
NewWord(step, word) ==
  LET w == step.word
  IN [j \in 0..(w.width - 1) |->
       IF j \in w.offset..(w.offset + w.count - 1) THEN BitAt(step.data, w.i + j - w.offset)
       ELSE IF word # <<>> THEN word[j + 1] ELSE IF step.rule = "ones" THEN 1 ELSE 0]

\* AmlOperationRegionWrite.
StoreWord ==
  /\ At("store") /\ Valid(Word)
  /\ mem' = Written(mem, Word.at, Word.width, NewWord(Head(op.steps), op.word))
  /\ Advance([op EXCEPT !.word = <<>>, !.wrote = TRUE])
  /\ UNCHANGED <<owner, held, model, taint, spent>>

\* AmlBufferFieldRead and AmlBufferFieldWrite: a buffer may have become too short.
Inside(r) == r.off + r.len <= Len(mem.buffer)
ReadBuffer ==
  LET r == FieldOf[op.field]
  IN /\ At("bufferread")
     /\ IF Inside(r)
        THEN /\ Advance([op EXCEPT !.got = CopyBits(mem.buffer, r.off, r.len, Zeros(r.len), 0)])
             /\ UNCHANGED <<mem, owner, held, model, taint, spent>>
        ELSE Fail
WriteBuffer ==
  LET r == FieldOf[op.field]
      data == Head(op.steps).data
  IN /\ At("bufferwrite")
     /\ IF Inside(r)
        THEN /\ mem' = [mem EXCEPT !.buffer = CopyBits(data, 0, r.len, @, r.off)]
             /\ Advance([op EXCEPT !.wrote = TRUE])
             /\ UNCHANGED <<owner, held, model, taint, spent>>
        ELSE Fail

\* The operation ends; the model follows if it has succeeded.
AfterSelect(f, m) ==
  LET r == FieldOf[f]
  IN CASE r.kind = "bank" -> Exact(m, FieldOf[r.select], Integer(r.value))
       [] r.kind = "index" -> Exact(m, FieldOf[r.select], Integer(r.off \div CharBit))
       [] OTHER -> m

Finish ==
  /\ ~Idle /\ op.steps = <<>>
  /\ op' = NoOp
  /\ model' = IF ~op.ok THEN model
              ELSE IF op.do = "read" THEN AfterSelect(op.field, model)
              ELSE FoldLeft(LAMBDA m, data : ExactUnit(m, op.field, data), model, op.exact)
  /\ UNCHANGED <<mem, owner, held, taint, spent>>

-----------------------------------------------------------------------------
(* The firmware, which takes the global lock for what it does. *)

FirmwareAcquire ==
  /\ owner = "none" /\ spent.firmware < MaxFirmwareWrites
  /\ owner' = "firmware" /\ UNCHANGED <<mem, held, op, model, taint, spent>>

\* It is in the way of an operation without the lock rule. An operation without
\* further steps has ended: Finish is no step of the code.
FirmwareWrite ==
  /\ owner = "firmware" /\ spent.firmware < MaxFirmwareWrites
  /\ ~(~Idle /\ op.steps = <<>>)
  /\ \E p \in {k * CharBit : k \in 0..(Chars - 1)} :  \* bound: the first bit of a character
       LET flip(m) == Written(m, p, 1, [i \in {0} |-> 1 - RegionBit(m, p)])
       IN /\ p \div CharBit # Window
          /\ mem' = flip(mem) /\ model' = flip(model)
  /\ taint' = IF Idle THEN taint
              ELSE IF FieldOf[op.field].lock THEN taint ELSE taint \cup {"unlocked"}
  /\ spent' = [spent EXCEPT !.firmware = @ + 1]
  /\ UNCHANGED <<owner, held, op>>

FirmwareRelease ==
  owner = "firmware" /\ owner' = "none" /\ UNCHANGED <<mem, held, op, model, taint, spent>>

-----------------------------------------------------------------------------
Init ==
  /\ mem = [region |-> [p \in 0..((Chars + Cells) * CharBit - 1) |-> (p \div 2) % 2],
            buffer |-> [i \in 1..(2 * CharBit) |-> i % 2]]
  /\ model = mem /\ owner = "none" /\ held = 0 /\ op = NoOp /\ taint = {}
  /\ spent = [ops |-> 0, firmware |-> 0]

Step ==
  \/ Refused \/ Acquire \/ AcquireFails \/ Release \/ ReadWord \/ LoadWord \/ StoreWord
  \/ ReadBuffer \/ WriteBuffer \/ Finish
Firmware == FirmwareAcquire \/ FirmwareWrite \/ FirmwareRelease

Next ==
  \/ \E f \in Names, data \in Stored : StoreInteger(f, data) \/ StoreBuffer(f, data) \/ StoreString(f, data)
  \/ \E f \in Names : Load(f)
  \/ \E data \in Stored : StoreToBuffer(data)
  \/ Step \/ Firmware

Spec == Init /\ [][Next]_vars

-----------------------------------------------------------------------------
\* The operation, the lock and the histories are what they should be.
TypeOK ==
  /\ owner \in {"none", "evaluation", "firmware"} /\ held \in 0..2
  /\ ToSet(mem.buffer) \subseteq Bits
  /\ \A p \in DOMAIN mem.region : mem.region[p] \in Bits
  /\ taint \subseteq {"partial", "unlocked", "unpreserved", "stale"}
  /\ ~Idle => /\ op.field \in Names
              /\ Len(op.word) \in {0} \cup {FieldOf[f].acc * CharBit : f \in Names}

\* Whatever overlaps in a region (fields with different access widths and update
\* rules, registers of banks and indexes), and whatever the firmware does to it under the
\* lock between two accesses: when no operation is under way, every bit is what the
\* completed stores and the firmware made it.
ExactExcept(causes) == Idle /\ taint \subseteq causes => mem = model
StoresAreExactAtFirst == ExactExcept({})

\* A completed read yields the bits of the field, zero-extended or cut to the result,
\* as they are when it ends: no word is torn off, shifted or read from another bank.
Reads == ~Idle /\ op.do = "read" /\ op.ok /\ op.steps = <<>> /\ taint = {}
ReadsAreExact ==
  Reads =>
    LET r == FieldOf[op.field]
        field == IF r.kind = "index" THEN FieldOf[r.data] ELSE r
    IN op.got = [j \in 1..Smaller(field.len, ResultBits(op.field)) |->
         IF r.kind = "buffer" THEN mem.buffer[r.off + j] ELSE RegionBit(AfterSelect(op.field, mem), field.off + j - 1)]

\* The global lock is held between operations by nobody, and within one as often as it
\* is still to be released, on every path, whatever access is refused.
LockIsBalanced ==
  /\ TypeOK
  /\ (owner = "evaluation") = (held > 0)
  /\ Idle => held = 0
  /\ ~Idle => held = Cardinality({i \in DOMAIN op.steps : op.steps[i].do = "unlock"})
                       - Cardinality({i \in DOMAIN op.steps : op.steps[i].do = "lock"})

\* Once a bank or index field with the lock rule has selected its cell, nothing but the
\* operation moves the window to another one until the window has been accessed.
ForLock(step) == step.do \in {"lock", "unlock"}
Opens(step) == step.do \in {"read", "load", "store"} /\ ShowsWindow(step.word)
OpensWindow ==
  /\ ~Idle /\ FieldOf[op.field].kind \in {"bank", "index"} /\ FieldOf[op.field].lock
  /\ \E i \in DOMAIN op.steps : Opens(op.steps[i]) /\ \A j \in 1..(i - 1) : ForLock(op.steps[j])
WindowStays == [][OpensWindow /\ op' = op => Selected(mem') = Selected(mem)]_vars

\* The last piece of a buffer is zero-extended (aml_conv.c:1191-1192).
PiecesAreZeroExtended == ExactExcept({"stale"})
=============================================================================
