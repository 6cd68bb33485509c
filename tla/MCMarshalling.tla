--------------------------- MODULE MCMarshalling ---------------------------
(* Every type name, and a value at and around every limit, for TLC.        *)
EXTENDS Marshalling

AllTypes == DOMAIN Aliases \cup SupportedTypes \cup {"bogus"}

AllValues ==
    [kind: {"number"}, at: Integral \cup {"fraction", "NaN", "Infinity"}]
        \cup [kind: {"bigint"}, at: Integral]
        \cup [kind: Plain, at: {"nowhere"}]
=============================================================================
