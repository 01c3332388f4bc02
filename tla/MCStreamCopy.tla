---------------------------- MODULE MCStreamCopy ----------------------------
(* Instances of StreamCopy for TLC *)
EXTENDS StreamCopy

U(p, c, t) == [x \in Count |-> CASE x = "prompt" -> p [] x = "completion" -> c [] x = "total" -> t]
Event      == [kind |-> "event", usage |-> NoUsage, last |-> FALSE]
Data(u)    == [kind |-> "data", usage |-> u, last |-> FALSE]
Stop(u)    == [kind |-> "data", usage |-> u, last |-> TRUE]
Blank      == [kind |-> "blank", usage |-> NoUsage, last |-> FALSE]

\* Chat Completions: the usage comes before [DONE].  Responses: with the last event.
\* Anthropic: a first usage with a placeholder, then the final output.  An empty stream
MCScript ==
    { << Data(NoUsage), Blank, Data(U(3, 2, 5)), Blank, Stop(NoUsage), Blank >>,
      << Event, Data(NoUsage), Blank, Event, Stop(U(3, 2, 5)), Blank >>,
      << Event, Data(U(3, 1, 0)), Blank, Event, Data(U(0, 4, 0)), Blank, Stop(NoUsage) >>,
      << >> }

ASSUME MCTotals == TotalsCoverPrompts
=============================================================================
