---------------------------- MODULE Conversation ----------------------------
(***************************************************************************)
(* A client of one protocol talks to a model behind another.  The gateway  *)
(* keeps nothing between two requests: each carries the whole history as   *)
(* the client has it, made of earlier answers as the gateway converted     *)
(* them.  What the upstream reads in the end has been through both.        *)
(***************************************************************************)
EXTENDS Dialogs

CONSTANTS
    Pairs,       \* pairs of two protocols: the client's, the upstream's
    Shapes,      \* of answers, see Said
    Contents,    \* of tool results: sets of "text" and "media"
    MaxUsers,    \* messages of the user
    MaxAnswers   \* answers of the upstream

Protocol == {"chat", "responses", "anthropic"}
\* An answer that ends has finished or was cut off, and is not empty
AnswerShapes ==
    {s \in [thinking : BOOLEAN, text : {"", "plain", "prelude", "closing"}, args : Seq(Arguments),
            finish : {"stop", "tool_calls", "length"}] :
        /\ s.thinking \/ s.text # "" \/ s.args # <<>>
        /\ Len(s.args) < 10
        /\ s.finish # "length" => s.finish = IF s.args = <<>> THEN "stop" ELSE "tool_calls"}

ASSUME ConversationAssumption ==
    /\ Pairs \subseteq {p \in Protocol \X Protocol : p[1] # p[2]}
    /\ Shapes \subseteq AnswerShapes
    /\ Contents \subseteq SUBSET {"text", "media"}
    /\ MaxUsers \in Nat /\ MaxAnswers \in Nat

VARIABLES
    client, upstream,
    said,        \* the dialog as it was held
    history,     \* the dialog as the client knows it
    turn,        \* "user", "model" or "tools"
    open,        \* ids of the calls that have no result yet
    followUps    \* requests the client was asked for since the user spoke

vars == <<client, upstream, said, history, turn, open, followUps>>

Init ==
    /\ \E p \in Pairs : client = p[1] /\ upstream = p[2]
    /\ said = <<>> /\ history = <<>>
    /\ turn = "user" /\ open = {} /\ followUps = 0

Count(role) == Cardinality({k \in DOMAIN said : said[k].role = role})
Place       == Len(said) + 1

\* After the last result the user may add a word before the model goes on
UserSpeaks(kinds) ==
    LET entry == Spoken(kinds, Place)
    IN  /\ turn = "user" \/ (turn = "model" /\ Last(history).role = "tool")
        /\ Count("user") < MaxUsers
        /\ said' = Append(said, entry) /\ history' = Append(history, entry)
        /\ turn' = "model" /\ followUps' = 0
        /\ UNCHANGED <<client, upstream, open>>

\* forward: the request is parsed for what the answer's conversion needs to know of it
ModelAnswers(shape) ==
    LET entry  == Said(shape, Place)
        meta   == ParseRequest(client, Written(client, history)).messages
        answer == ConvertAnswer(client, upstream, Replied(upstream, entry), TRUE, meta)
        known  == ReadAnswer(client, answer)
        again  == client = "responses" /\ ~answer.endTurn
    IN  /\ turn = "model" /\ Count("assistant") < MaxAnswers
        /\ said' = Append(said, entry) /\ history' = Append(history, known)
        /\ turn' = CASE known.calls # <<>> -> "tools"
                     [] known.calls = <<>> /\ again -> "model"
                     [] known.calls = <<>> /\ ~again -> "user"
        /\ open' = {known.calls[k].id : k \in DOMAIN known.calls}
        /\ followUps' = IF again THEN followUps + 1 ELSE followUps
        /\ UNCHANGED <<client, upstream>>

\* The client runs the calls it was given, in any order
ToolRuns(id, kinds) ==
    /\ turn = "tools" /\ id \in open
    /\ client = "chat" => "media" \notin kinds
    /\ said' = Append(said, Result(kinds, id)) /\ history' = Append(history, Result(kinds, id))
    /\ open' = open \ {id}
    /\ turn' = IF open = {id} THEN "model" ELSE "tools"
    /\ UNCHANGED <<client, upstream, followUps>>

Next ==
    \/ \E kinds \in {{"text"}, {"text", "media"}} : UserSpeaks(kinds)
    \/ \E shape \in Shapes : ModelAnswers(shape)
    \/ \E id \in open, kinds \in Contents : ToolRuns(id, kinds)

Spec == Init /\ [][Next]_vars
=============================================================================
