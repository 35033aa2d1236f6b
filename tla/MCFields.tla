------------------------------ MODULE MCFields ------------------------------
\* Instance of Fields for TLC: characters of two bits.
EXTENDS Fields

Plain(off, len, acc, rule, lock) ==
  [kind |-> "field", off |-> off, len |-> len, acc |-> acc, rule |-> rule, lock |-> lock]
Via(plain, kind, select, value, data) ==
  [kind |-> kind, off |-> plain.off, len |-> plain.len, acc |-> plain.acc, rule |-> plain.rule,
   lock |-> plain.lock, select |-> select, value |-> value, data |-> data]

\* Character 0 selects what character 1 shows; the fields of characters 2 and 3 overlap,
\* narrow has a wider data register than the result of a load, beyond needs a word that the
\* region of five does not have, and outside begins too late for its length.
FieldTable ==
  [select |-> Plain(0, 2, 1, "preserve", FALSE), window |-> Plain(2, 2, 1, "preserve", FALSE),
   across |-> Plain(5, 2, 1, "preserve", TRUE), word |-> Plain(4, 3, 2, "preserve", FALSE),
   ones |-> Plain(7, 1, 1, "ones", TRUE), zeros |-> Plain(4, 3, 2, "zeros", FALSE),
   beyond |-> Plain(7, 3, 2, "zeros", TRUE), outside |-> Plain(8, 3, 2, "zeros", TRUE),
   bank |-> Via(Plain(3, 1, 1, "preserve", TRUE), "bank", "select", 1, "none"),
   index |-> Via(Plain(2, 2, 1, "preserve", TRUE), "index", "select", 0, "window"),
   data |-> Plain(4, 5, 1, "ones", FALSE),
   narrow |-> Via(Plain(1, 1, 1, "preserve", FALSE), "index", "select", 0, "data"),
   part |-> Via(Plain(1, 3, 1, "preserve", FALSE), "buffer", "none", 0, "none")]

Data == {<<0, 1, 1, 0>>, <<1, 0>>}
=============================================================================
