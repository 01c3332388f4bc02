--------------------------- MODULE MCConversation ---------------------------
(* Instances of Conversation. *)
EXTENDS ConversationProps

MCPairs ==
    {p \in {"chat", "responses", "anthropic"} \X {"chat", "responses", "anthropic"} :
        p[1] # p[2]}

Shape(thinking, text, args, finish) ==
    [thinking |-> thinking, text |-> text, args |-> args, finish |-> finish]

\* A plain answer, one that was cut off, one that announces a call, and answers with one
\* call or two, whose arguments may be missing or cut off
MCShapes ==
    {Shape(FALSE, "plain", <<>>, "length"),
     Shape(TRUE, "prelude", <<>>, "stop"),
     Shape(TRUE, "plain", <<"full">>, "tool_calls"),
     Shape(FALSE, "prelude", <<"", "full">>, "tool_calls"),
     Shape(FALSE, "", <<"cut">>, "length")}

MCContents == {{}, {"text"}, {"media"}, {"text", "media"}}

TextOnly == {{"text"}}
PreludePairs  == {<<"responses", "chat">>}
PreludeShapes == {Shape(FALSE, "prelude", <<>>, "stop"), Shape(FALSE, "plain", <<>>, "stop"),
                  Shape(TRUE, "prelude", <<"full">>, "tool_calls")}
=============================================================================
