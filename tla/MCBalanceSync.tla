--------------------------- MODULE MCBalanceSync ----------------------------
(* Instances of BalanceSync, and with it of ConfigWatch, for TLC *)
EXTENDS BalanceSync

CONSTANTS a, b, x

\* Two valid contents, with a long and a short interval; x does not parse
MCInterval == [c \in {a, b} |-> IF c = a THEN 3 ELSE 1]
MCProvider == [c \in {a, b} |-> c]
=============================================================================
