----------------------------- MODULE MCExpressions -----------------------------
\* Instance of Expressions for TLC: digits of two bits, and integers of one or
\* two characters.
EXTENDS Expressions

MCNamed == {Number(9), String(<<Digit(1), Digit(2)>>), Buffer(<<5>>), String(<<>>)}
MCLocal == {Number(12), Buffer(<<1, 0, 2>>)}
MCSources == {"local"}
MCResults == {"local"}
MCPackage == <<None, String(<<Digit(2)>>), Number(9)>>
=============================================================================
