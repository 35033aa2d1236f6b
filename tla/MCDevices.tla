------------------------------ MODULE MCDevices ------------------------------
\* Instance of Devices for TLC.
EXTENDS Devices

\* Table base has a device b with both methods, table late has a device d below
\* it, and table more has \_INI.
Names == [base |-> <<"b", "b.ini", "b.reg">>, late |-> <<"d", "d.ini", "d.reg">>, more |-> <<"ini">>]
MCTables == DOMAIN Names
MCNodes == UNION {ToSet(Names[t]) : t \in MCTables}
MCParent == [n \in MCNodes |->
  CASE n \in {"b", "ini"} -> "top"
    [] n \in {"b.ini", "b.reg", "d"} -> "b"
    [] n \in {"d.ini", "d.reg"} -> "d"]
MCKind == [n \in MCNodes |->
  IF n \in {"b", "d"} THEN "device"
  ELSE IF n \in {"b.reg", "d.reg"} THEN "_REG" ELSE "_INI"]
MCRootInitializers == <<"ini">>
MCSpaces == <<"memory", "ec">>
==============================================================================
