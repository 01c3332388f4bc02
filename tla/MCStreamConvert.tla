--------------------------- MODULE MCStreamConvert ---------------------------
(* Instances of StreamConvert for TLC *)
EXTENDS StreamConvertProps

Lines == [completions |-> 4, responses |-> 6, anthropic |-> 5]
=============================================================================
