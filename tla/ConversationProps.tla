-------------------------- MODULE ConversationProps --------------------------
(***************************************************************************)
(* What the two sides of a conversation may rely on, across all requests   *)
(* and answers of it.                                                      *)
(***************************************************************************)
EXTENDS Conversation

Asked  == ConvertRequest(client, upstream, Written(client, history))
Asking == turn = "model"
Ends   == {client, upstream}

\* An answer with calls reaches a Chat Completions client without its text
Lost(e) == client = "chat" /\ e.calls # <<>>

Heard == ReadRequest(Ends, upstream, Asked)
Held  == Read(Ends, "system", Instructions)
         \o MapFlat(LAMBDA e : Read(Ends, e.role, IF Lost(e) THEN Without(EntryBlocks(e), "text")
                                                  ELSE EntryBlocks(e)), said)

IsMedia(p)   == p.val.kind = "media"
IsThought(p) == p.kind = "thinking"
IsWord(p)    == /\ ~IsThought(p) /\ ~IsMedia(p)
                /\ p.val \notin {Placeholder, Raw} /\ p.val.kind # "label"
Words(pieces)    == At(pieces, {k \in DOMAIN pieces : IsWord(pieces[k])})
Thoughts(pieces) == At(pieces, {k \in DOMAIN pieces : IsThought(pieces[k])})
MediaIn(pieces)  == At(pieces, {k \in DOMAIN pieces : IsMedia(pieces[k])})
Values(pieces)   == [k \in DOMAIN pieces |-> pieces[k].val]

\* Whatever was said, by the user, the model or a tool, is in every later request, once
\* and in its order, though each answer went through one conversion and each request
\* through the other (parse_request.go, build_request.go, response.go); but for the text
\* of an answer with calls, which a Chat Completions client never got (Lost).  Thinking
\* and media may stand elsewhere between the words, but not in another order
Kept(heard, held) ==
    /\ Words(heard) = Words(held)
    /\ Thoughts(heard) = Thoughts(held)
    /\ Values(MediaIn(heard)) = Values(MediaIn(held))
DialogKept == Asking => Kept(Heard, Held)

\* A model can tell whose attachments it sees: what a tool returned is in its result or,
\* where results are texts, right after a label that names the call, and the user's own
\* attachments follow words of the user (appendToolResult, flushToolMedia)
Owned(heard, held) ==
    \A j \in DOMAIN heard : IsMedia(heard[j]) =>
        LET from  == CHOOSE p \in ToSet(held) : p.val = heard[j].val
            named == heard[Max({i \in 1 .. j : ~IsMedia(heard[i])})].val
        IN  IF from.kind = "user" THEN heard[j].kind = "user" /\ named.kind # "label"
            ELSE \/ heard[j].kind = "result" /\ heard[j].id = from.id
                 \/ upstream = "chat" /\ named = Label(from.id)
AttachmentsOwned == Asking => Owned(Heard, Held)

\* Every call of a request has one result, and between the two there is nothing but calls
\* and results: upstreams refuse a history in which something else comes in between
InPlace(heard) ==
    \A k \in DOMAIN heard : heard[k].kind = "call" =>
        LET starts == {j \in DOMAIN heard : /\ heard[j].kind = "result"
                                            /\ heard[j].id = heard[k].id
                                            /\ heard[j].val.kind = "starts"}
        IN  \E j \in starts : /\ starts = {j} /\ j > k
                              /\ \A i \in k .. j : heard[i].kind \in {"call", "result"}
ResultsInPlace == Asking => InPlace(Heard)

\* What the model said in one turn is one message, and so is what the user said, whatever
\* number of items it came in (appendAssistantBlocks): two messages in a row are of
\* different roles, unless both are results
Whole(msgs) == \A k \in 1 .. Len(msgs) - 1 :
                   msgs[k].role = msgs[k + 1].role => msgs[k].role = "tool"
TurnsWhole == Asking /\ upstream # "responses" => Whole(Asked.messages)

\* A client knows what was answered: thinking, text, calls, and why the answer ended.  A
\* Chat Completions client does not get the text of an answer with calls (Lost), and
\* Responses clients are told that the answer is complete in any case
AnswersKept ==
    \A k \in DOMAIN said :
        LET was == said[k]
            now == history[k]
        IN  was.role = "assistant" =>
            /\ now.thinking = was.thinking
            /\ Lost(was) \/ TextOf(now.content) = TextOf(was.content)
            /\ Read(Ends, "assistant", Uses(now.calls)) = Read(Ends, "assistant", Uses(was.calls))
            /\ now.finish = IF client # "responses" THEN was.finish
                            ELSE IF was.calls = <<>> THEN "stop" ELSE "tool_calls"

\* A model that only announces what it will do is asked to go on three times at most
\* before the user speaks again (continuation.go:15)
FollowUpsBounded == followUps <= MaxPreludes
=============================================================================
