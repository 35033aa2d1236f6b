------------------------------ MODULE Expressions ------------------------------
(***************************************************************************)
(* Expressions over named objects, locals and arguments: stores, copies,   *)
(* conversions, comparisons and arithmetic. A value of an object is an      *)
(* integer or a reference to a counted string or buffer, and evaluating an   *)
(* operand or passing an argument shares that memory. An operator with two   *)
(* operands holds the first one while the second one is evaluated, which can *)
(* take other expressions and a call.                                        *)
(***************************************************************************)
EXTENDS Values

CONSTANTS
  NamedValues, LocalValues,  \* what the named object and the local start with
  Package,                   \* where Match searches
  Sources, Results,          \* bound: operands and targets of what computes a value
  MaxOps                     \* bound: expressions that store

VARIABLES
  wide,     \* integers of 64 bits
  objs,     \* the values of the objects
  bufs,     \* the strings and buffers
  operand,  \* the first operand that is held
  inCall,   \* a method has been called
  last,     \* history: the last expression, its target and how it ended
  spent     \* bound: expressions so far

vars == <<wide, objs, bufs, operand, inCall, last, spent>>

Objects == {"named", "local", "arg", "caller"}  \* caller: the local of the calling method
Visible == {"named", "local"} \union (IF inCall THEN {"arg"} ELSE {})
Ids == 1..(Cardinality(Objects) + 2)

NoOperand == [as |-> "none"]
Pending == operand # NoOperand

Ref(type, id) == [type |-> type, buf |-> id]
IsRef(r) == "buf" \in DOMAIN r
Load(mem, r) == IF IsRef(r) THEN Data(r.type, mem.bufs[r.buf].data, mem.bufs[r.buf].room) ELSE r

Memory == [objs |-> objs, bufs |-> bufs, operand |-> operand]
Val(o) == Load(Memory, objs[o])
Held == Load(Memory, operand.ref)

Refs(mem) == {mem.objs[o] : o \in Objects}
               \union (IF mem.operand = NoOperand THEN {} ELSE {mem.operand.ref})
Used(mem) == {r.buf : r \in {s \in Refs(mem) : IsRef(s)}}

\* A reference to new memory with a datum, or the integer that it is.
Create(mem, v) ==
  LET id == Min(Ids \ Used(mem))
  IN IF HasData(v)
     THEN [ref |-> Ref(v.type, id),
           bufs |-> [i \in Used(mem) \union {id} |->
                       IF i = id THEN [data |-> v.data, room |-> v.room] ELSE mem.bufs[i]]]
     ELSE [ref |-> v, bufs |-> mem.bufs]

\* The result of a conversion becomes the value of an object.
Put(mem, o, r) ==
  IF r.fresh
  THEN LET freed == [mem EXCEPT !.objs[o] = None]
           new == Create(freed, r.value)
       IN [freed EXCEPT !.objs[o] = new.ref, !.bufs = new.bufs]
  ELSE [mem EXCEPT !.bufs[mem.objs[o].buf] = [data |-> r.value.data, room |-> r.value.room]]

-----------------------------------------------------------------------------
(* AmlOperandStore. What a local or an argument had is given up first, and *)
(* what a named object had unless the store converts.                      *)

\* Mutant: an argument is written like a named object.
OperandStore_Arg(mem, v, o, convert) ==
  LET free == o = "local" \/ ~convert
      old == IF free THEN [mem EXCEPT !.objs[o] = None] ELSE mem
      r == ObjectStore(wide, "implicit", v, Load(old, old.objs[o]))
  IN IF o = "nil" THEN [ok |-> TRUE, mem |-> mem]
     ELSE [ok |-> r.ok, mem |-> IF r.ok THEN Put(old, o, r) ELSE old]

\* Mutant: a named object is given up too.
OperandStore_Free(mem, v, o, convert) ==
  LET old == [mem EXCEPT !.objs[o] = None]
      r == ObjectStore(wide, "implicit", v, Load(old, old.objs[o]))
  IN IF o = "nil" THEN [ok |-> TRUE, mem |-> mem]
     ELSE [ok |-> r.ok, mem |-> IF r.ok THEN Put(old, o, r) ELSE old]

OperandStore(mem, v, o, convert) ==
  LET free == o \in {"local", "arg"} \/ ~convert
      old == IF free THEN [mem EXCEPT !.objs[o] = None] ELSE mem
      r == ObjectStore(wide, "implicit", v, Load(old, old.objs[o]))
  IN IF o = "nil" THEN [ok |-> TRUE, mem |-> mem]
     ELSE [ok |-> r.ok, mem |-> IF r.ok THEN Put(old, o, r) ELSE old]

\* What is left after an error: the objects of the methods are released.
Unwound(mem) ==
  [mem EXCEPT !.objs = [o \in Objects |-> IF o = "named" THEN @["named"] ELSE None],
              !.operand = NoOperand]

Class(kind) == IF kind \in {"copy", "explicit", "begin"} THEN kind ELSE "implicit"

End(kind, targets, outcome, mem) ==
  LET m == IF outcome = "done" THEN mem ELSE Unwound(mem)
  IN /\ spent < MaxOps /\ spent' = spent + (IF kind = "begin" THEN 0 ELSE 1)
     /\ last' = [class |-> Class(kind), targets |-> targets, outcome |-> outcome]
     /\ objs' = m.objs /\ operand' = m.operand
     /\ bufs' = [i \in Used(m) |-> m.bufs[i]]
     /\ inCall' = (inCall /\ outcome = "done")
     /\ UNCHANGED wide

\* The result of an expression is stored and the expression ends.
StoreResult(kind, mem, r, o, convert) ==
  IF ~r.ok THEN End(kind, {o}, IF r = Trap THEN "trap" ELSE "error", mem)
  ELSE LET s == OperandStore(mem, r.value, o, convert)
       IN End(kind, {o}, IF s.ok THEN "done" ELSE "error", s.mem)

-----------------------------------------------------------------------------
(* Expressions with one operand. *)

Same(v) == [ok |-> TRUE, value |-> v]

Store(src, o) == StoreResult("store", Memory, Same(Val(src)), o, TRUE)

CopyObject(src, o) == StoreResult("copy", Memory, Same(Val(src)), o, FALSE)

\* ToBuffer and ToInteger.
Explicit(src, type, flags, o) ==
  StoreResult("explicit", Memory, ObjectInPlace(wide, flags, Val(src), type), o, FALSE)

\* ToHexString and ToDecimalString.
ExplicitText(src, flags, o) == Explicit(src, "string", flags, o)

\* Expressions of one integer. The result of ToBCD may be one of two.
UnaryResults(kind, n) ==
  CASE kind = "not" -> {Complement(n)}
    [] kind = "lnot" -> {LNot(n)}
    [] kind = "find left" -> {FindSetLeftBit(wide, n)}
    [] kind = "find right" -> {FindSetRightBit(wide, n)}
    [] kind = "to bcd" -> DecimalToBcd(n)
    [] kind = "from bcd" -> {BcdToDecimal(n)}

Unary(kind, src, o) ==
  LET arg == TermArgToType(wide, Val(src), "integer")
  IN IF ~arg.ok THEN End(kind, {o}, "error", Memory)
     ELSE \E n \in UnaryResults(kind, arg.value.n) : StoreResult(kind, Memory, Same(Number(n)), o, TRUE)

\* Increment and Decrement.
Step(kind, o) ==
  LET arg == ObjectInPlace(wide, "implicit", Val(o), "integer")
      n == arg.value.n
  IN StoreResult(kind, Memory,
       IF ~arg.ok THEN arg
       ELSE Same(Number(IF kind = "increment" THEN Increment(wide, n) ELSE Decrement(wide, n))), o, TRUE)

\* SizeOf and ObjectType.
Measure(kind, src, o) ==
  StoreResult(kind, Memory,
    Same(Number(IF kind = "size" THEN SizeOf(Val(src)) ELSE ObjectType(Val(src)))), o, TRUE)

-----------------------------------------------------------------------------
(* Expressions with two operands. *)

\* The first operand is evaluated. It is converted if its operator says so.
Begin(src, as) ==
  LET arg == IF as = "any" THEN Same(Val(src)) ELSE TermArgToType(wide, Val(src), as)
      shared == as = "any" \/ Val(src).type = as
      new == Create(Memory, arg.value)
  IN /\ ~Pending
     /\ IF ~arg.ok THEN End("begin", {}, "error", Memory)
        ELSE End("begin", {}, "done",
               [objs |-> objs, bufs |-> IF shared THEN bufs ELSE new.bufs,
                operand |-> [as |-> as, ref |-> IF shared THEN objs[src] ELSE new.ref,
                             inside |-> inCall]])

Holding(as) == Pending /\ operand.as = as /\ operand.inside = inCall
Released == [Memory EXCEPT !.operand = NoOperand]

BinaryKinds == {"add", "subtract", "multiply", "mod", "and", "nand", "or", "nor", "xor",
                "shift left", "shift right"}

Arithmetic(kind, src, o) ==
  LET arg == TermArgToType(wide, Val(src), "integer")
  IN /\ Holding("integer")
     /\ StoreResult(kind, Released,
          IF arg.ok THEN Binary(wide, kind, Held.n, arg.value.n) ELSE arg, o, TRUE)

\* The remainder is stored before the quotient.
DivideInto(src, rest, o) ==
  LET arg == TermArgToType(wide, Val(src), "integer")
      d == Divide(wide, Held.n, arg.value.n)
  IN /\ Holding("integer")
     /\ IF ~arg.ok THEN StoreResult("divide", Released, arg, o, TRUE)
        ELSE IF ~d.ok THEN StoreResult("divide", Released, d, o, TRUE)
        ELSE LET r == OperandStore(Released, d.remainder, rest, TRUE)
                 q == OperandStore(r.mem, d.quotient, o, TRUE)
             IN IF ~r.ok THEN End("divide", {rest}, "error", r.mem)
                ELSE End("divide", {rest, o}, IF q.ok THEN "done" ELSE "error", q.mem)

\* LAnd and LOr, whose value the next expression may take.
LogicalInto(kind, src, o) ==
  LET arg == TermArgToType(wide, Val(src), "integer")
  IN /\ Holding("integer")
     /\ StoreResult(kind, Released,
          IF arg.ok THEN Same(Number(Logical(kind, Held.n, arg.value.n))) ELSE arg, o, TRUE)

ComparisonKinds == {"equal", "less", "less equal", "greater", "greater equal"}

\* The comparisons, and LNotEqual.
CompareInto(kind, negate, src, o) ==
  LET c == Compare(wide, kind, Held, Val(src))
  IN /\ Holding("any")
     /\ StoreResult("compare", Released, IF c.ok THEN Same(Number(True(c.holds # negate))) ELSE c, o, TRUE)

ConcatInto(src, o) ==
  /\ Holding("any")
  /\ StoreResult("concat", Released, Concat(wide, Held, Val(src)), o, TRUE)

MidInto(src, o) ==
  LET index == TermArgToType(wide, Val(src), "integer")
  IN /\ Holding("any")
     /\ \E length \in {1, Ones} :
          StoreResult("mid", Released, IF index.ok THEN Mid(Held, index.value.n, length) ELSE index, o, TRUE)

\* The first of the two match data is held, the other one is the source.
MatchInto(kind1, kind2, src, o) ==
  /\ Holding("any")
  /\ StoreResult("match", Released,
       Same(Number(Match(wide, Package, kind1, Held, kind2, Val(src), 0))), o, TRUE)

ConcatResInto(src, o) ==
  LET arg == TermArgToType(wide, Val(src), "buffer")
  IN /\ Holding("buffer")
     /\ StoreResult("concat", Released,
          IF arg.ok THEN ConcatRes(Held.data, arg.value.data) ELSE arg, o, TRUE)

\* ToString: the buffer is cut for the conversion.
ToStringInto(src, o) ==
  LET size == TermArgToType(wide, Val(src), "integer")
  IN /\ Holding("buffer")
     /\ StoreResult("explicit", Released,
          IF size.ok THEN ObjectInPlace(wide, "string", Buffer(Start(Held.data, size.value.n)), "string")
          ELSE size, o, FALSE)

-----------------------------------------------------------------------------
(* Calls. The argument shares the value of an object, and the method has   *)
(* locals of its own.                                                       *)

Call(src) ==
  /\ ~inCall /\ inCall' = TRUE
  /\ objs' = [named |-> objs["named"], local |-> None, arg |-> objs[src], caller |-> objs["local"]]
  /\ last' = [class |-> "call", targets |-> {}, outcome |-> "done"]
  /\ UNCHANGED <<wide, bufs, operand, spent>>

Return ==
  LET left == [Memory EXCEPT !.objs = [o \in Objects |->
                 CASE o = "named" -> objs[o] [] o = "local" -> objs["caller"] [] OTHER -> None]]
  IN /\ inCall /\ inCall' = FALSE
     /\ ~(Pending /\ operand.inside)
     /\ objs' = left.objs /\ bufs' = [i \in Used(left) |-> bufs[i]]
     /\ last' = [class |-> "call", targets |-> {}, outcome |-> "done"]
     /\ UNCHANGED <<wide, operand, spent>>

Init ==
  /\ wide \in BOOLEAN
  /\ \E x \in NamedValues, y \in LocalValues :
       LET empty == [objs |-> [o \in Objects |-> None], bufs |-> <<>>, operand |-> NoOperand]
           one == Create(empty, x)
           named == [empty EXCEPT !.objs["named"] = one.ref, !.bufs = one.bufs]
           two == Create(named, y)
       IN /\ objs = [named.objs EXCEPT !["local"] = two.ref]
          /\ bufs = two.bufs
  /\ operand = NoOperand /\ inCall = FALSE /\ spent = 0
  /\ last = [class |-> "call", targets |-> {}, outcome |-> "done"]

Next ==
  \/ \E src, o \in Visible : Store(src, o) \/ CopyObject(src, o)
  \/ \E src \in Sources, o \in (Visible \ {"local"}) \union {"nil"} :
       \/ Explicit(src, "buffer", "explicit", o)
       \/ Explicit(src, "integer", "explicit", o)
       \/ ExplicitText(src, "hex", o)
       \/ ExplicitText(src, "decimal", o)
  \/ \E src \in Sources, o \in Results :
       \/ \E kind \in {"not", "lnot", "find left", "find right", "to bcd", "from bcd"} : Unary(kind, src, o)
       \/ \E kind \in {"size", "type"} : Measure(kind, src, o)
       \/ \E kind \in BinaryKinds : Arithmetic(kind, src, o)
       \/ \E rest \in {"named", "nil"} : DivideInto(src, rest, o)
       \/ \E kind \in {"land", "lor"} : LogicalInto(kind, src, o)
       \/ \E kind \in ComparisonKinds : CompareInto(kind, FALSE, src, o)
       \/ CompareInto("equal", TRUE, src, o)
       \/ ConcatInto(src, o) \/ MidInto(src, o) \/ ConcatResInto(src, o) \/ ToStringInto(src, o)
       \/ \E kind1, kind2 \in {"true", "equal", "less"} : MatchInto(kind1, kind2, src, o)
  \/ \E o \in Visible, kind \in {"increment", "decrement"} : Step(kind, o)
  \/ \E src \in {"named", "local"}, as \in {"any", "integer", "buffer"} : Begin(src, as)
  \/ \E src \in {"named", "local"} : Call(src)
  \/ Return

Spec == Init /\ [][Next]_vars

-----------------------------------------------------------------------------
(* Properties. *)

\* The values are well-formed and inside the memory they have.
TypeOK ==
  /\ wide \in BOOLEAN /\ inCall \in BOOLEAN /\ spent \in 0..MaxOps
  /\ DOMAIN objs = Objects /\ DOMAIN bufs = Used(Memory)
  /\ \A r \in Refs(Memory) :
       CASE r.type = "none" -> r = None
         [] r.type = "integer" -> r.n \in 0..Ones
         [] r.type \in {"string", "buffer"} ->
              /\ Len(bufs[r.buf].data) <= bufs[r.buf].room
              /\ \A i \in DOMAIN bufs[r.buf].data : bufs[r.buf].data[i] \in 0..(Base - 1)
  /\ last.targets \subseteq Objects \union {"nil"} /\ last.outcome \in {"done", "error", "trap"}

\* A string that an object has can take its terminator, however it got there:
\* created, converted or written over an older and longer one.
TerminatorsFit ==
  TypeOK /\ \A o \in Objects : objs[o].type = "string" => bufs[objs[o].buf].room > Len(bufs[objs[o].buf].data)

\* Nothing is written but the target, and what shares memory with a named target:
\* a store to an argument or a local never reaches the caller's objects or the
\* operand that is held, and no conversion reaches another object.
OnlySharersChange ==
  [][LET mem == Memory
         sharers == {o \in Objects : IsRef(objs[o]) /\ objs[o] = objs["named"]}
         reached == last'.targets \union (IF "named" \in last'.targets THEN sharers ELSE {})
     IN last'.class \in {"implicit", "copy", "explicit"} /\ last'.outcome = "done" =>
          /\ \A o \in Objects \ reached : Val(o)' = Val(o)
          /\ Pending /\ Pending' /\ (operand.ref # objs["named"] \/ "named" \notin last'.targets) => Held' = Held]_vars

\* A named object keeps its type unless it is copied to or converted explicitly.
NamedKeepsItsType ==
  [][last'.class = "implicit" => objs'["named"].type = objs["named"].type]_vars

\* An expression that fails leaves the named object as it was. (A copy of an
\* object without a value does not: the target is given up first.)
FailureKeepsNamed ==
  [][last'.outcome = "error" /\ last'.class # "copy" => Val("named")' = Val("named")]_vars

\* A named object is changed by nothing but a store that succeeds, and then within its
\* type.
NamedIsProtected == NamedKeepsItsType /\ FailureKeepsNamed

Settled == ~Pending /\ ~inCall
Ints == {o \in Objects : objs[o].type = "integer"}
Clean(n) == n < Base^IntBytes(wide)

\* The conversions that lose nothing are undone by the opposite ones: integers
\* through hexadecimal and decimal text, buffers and BCD, strings through buffers.
\* Decimal text is read back as far as the reader takes characters.
RoundTrips ==
  Settled => \A o \in Objects :
    LET v == Val(o)
        back(type, flags, there) == ObjectInPlace(wide, there, ObjectInPlace(wide, flags, v, type).value, v.type)
    IN /\ v.type = "integer" /\ Clean(v.n) =>
            /\ back("string", "implicit", "implicit") = Fresh(v)
            /\ back("buffer", "explicit", "explicit") = Fresh(v)
            /\ v.n < DecRadix^HexDigits(wide) => back("string", "decimal", "explicit") = Fresh(v)
            /\ v.n < DecRadix^(2 * WordBytes) => \A n \in DecimalToBcd(v.n) : BcdToDecimal(n) = v.n
       /\ v.type = "string" => back("buffer", "explicit", "string").value.data = v.data

\* The comparisons of values of one type are one total order, and with values of
\* different types exactly one of less, equal and greater holds.
ComparisonsAgree ==
  Settled => \A o, p \in Objects :
    LET v == Val(o)
        w == Val(p)
        holds == [kind \in ComparisonKinds |-> Compare(wide, kind, v, w).holds]
        swapped(kind) == Compare(wide, kind, w, v).holds
    IN Compare(wide, "equal", v, w).ok =>
         /\ Cardinality({kind \in {"less", "equal", "greater"} : holds[kind]}) = 1
         /\ holds["less equal"] = ~holds["greater"] /\ holds["greater equal"] = ~holds["less"]
         /\ v.type = w.type => /\ holds["less"] = swapped("greater") /\ holds["equal"] = swapped("equal")
                               /\ holds["equal"] /\ HasData(v) => v.data = w.data
         /\ \A q \in Objects : v.type = w.type /\ w.type = Val(q).type /\ holds["less"]
              /\ Compare(wide, "less", w, Val(q)).holds => Compare(wide, "less", v, Val(q)).holds

\* Arithmetic on integers of the size in use is arithmetic modulo its range. (An
\* integer with bits above the range, and a division with one whose sign bit is
\* set while integers have 32 bits, is not covered.)
ArithmeticIsModular ==
  Settled => \A o, p \in Ints :
    LET x == objs[o].n
        y == objs[p].n
        is(kind, n) == Low(wide, Binary(wide, kind, x, y).value.n) = Low(wide, n)
        val(kind) == Low(wide, Binary(wide, kind, x, y).value.n)
        d == Divide(wide, x, y)
    IN Clean(x) /\ Clean(y) =>
         /\ is("add", x + y) /\ is("subtract", x - y) /\ is("multiply", x * y)
         /\ is("nand", -1 - val("and")) /\ is("nor", -1 - val("or"))
         /\ val("and") + val("or") = x + y /\ val("xor") = val("or") - val("and")
         /\ is("shift left", x * 2^Shift(y)) /\ val("shift right") * 2^Shift(y) <= x
         /\ Low(wide, Decrement(wide, Increment(wide, x))) = x
         /\ ~wide /\ x # 0 => 2^(FindSetLeftBit(wide, x) - 1) <= x /\ x % 2^(FindSetRightBit(wide, x) - 1) = 0
         /\ d.ok = (y # 0)
         /\ d.ok /\ SignExtend(wide, x) = x /\ SignExtend(wide, y) = y =>
              /\ d.quotient.n * y + d.remainder.n = x /\ d.remainder.n < y
              /\ Binary(wide, "mod", x, y).value = d.remainder

\* The operators of the byte code compute what their names say.
OperatorsAgree == ComparisonsAgree /\ ArithmeticIsModular

\* "Divide-by-zero exceptions are fatal" (aml_eval_expression.c:2310): to the expression, not to the process.
DivisionsNeverTrap == last.outcome # "trap"

=============================================================================
