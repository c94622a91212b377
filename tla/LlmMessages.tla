------------------------------ MODULE LlmMessages ------------------------------
(***************************************************************************)
(* The AI service's neutral conversation history, its translation to the two  *)
(* vendors' wire formats, and what the vendors' replies mean to the tool loop. *)
(* Texts are model values; a tool call is an id and the name of the tool.     *)
(***************************************************************************)
EXTENDS Naturals, SequencesExt

UserItem(text) == [role |-> "user", text |-> text]
ToolUse(calls) == [role |-> "tool_use", calls |-> calls]
ToolResult(results) == [role |-> "tool_result", results |-> results]

(* LLMResult: one turn of a provider.                                       *)
Final(text) == [kind |-> "final", text |-> text]
Refusal == [kind |-> "refusal"]
Tools(calls) == [kind |-> "tools", calls |-> calls]

----------------------------------------------------------------------------
(* _to_claude_messages: one message per item, tool results under "user".      *)
ClaudeMessage(item) ==
    CASE item.role = "tool_use" ->
            [role |-> "assistant", uses |-> item.calls, results |-> << >>]
      [] item.role = "tool_result" ->
            [role |-> "user", uses |-> << >>, results |-> item.results]
      [] OTHER -> [role |-> item.role, uses |-> << >>, results |-> << >>]

ClaudeMessages(history) == [n \in DOMAIN history |-> ClaudeMessage(history[n])]

(* _to_openai_messages: the system prompt first, a message per tool result.   *)
OpenAiItem(item) ==
    CASE item.role = "tool_use" -> <<[role |-> "assistant", calls |-> item.calls]>>
      [] item.role = "tool_result" ->
            [n \in DOMAIN item.results |-> [role |-> "tool", id |-> item.results[n].id]]
      [] OTHER -> <<[role |-> item.role, calls |-> << >>]>>

OpenAiMessages(history) ==
    <<[role |-> "system", calls |-> << >>]>>
        \o FlattenSeq([n \in DOMAIN history |-> OpenAiItem(history[n])])

(* What a vendor's reply means.  Claude may refuse, and then its content is     *)
(* not looked at; OpenAI has no refusal.                                    *)
ClaudeResult(reply) ==
    IF reply.refused THEN Refusal
    ELSE IF reply.calls # << >> THEN Tools(reply.calls) ELSE Final("answer")

OpenAiResult(reply) ==
    IF reply.calls # << >> THEN Tools(reply.calls) ELSE Final("answer")

(* The mock asks for the data a question is about, once, and then sums it up.  *)
MockResult(history) ==
    LET ran == \E n \in DOMAIN history : history[n].role = "tool_result" IN
    CASE ran -> Final("grounded")
      [] ~ran /\ history[1].text = "balance" -> Tools(<<[id |-> 1, name |-> "get_balances"]>>)
      [] ~ran /\ history[1].text = "activity" -> Tools(<<[id |-> 1, name |-> "get_transactions"]>>)
      [] OTHER -> Final("help")

----------------------------------------------------------------------------
(* What the vendors' APIs insist on: the tool calls of an assistant turn are    *)
(* answered, all of them and nothing else, right behind it.                  *)
Ids(items) == [n \in DOMAIN items |-> items[n].id]

ClaudeAccepts(messages) ==
    /\ \A n \in DOMAIN messages : messages[n].role = (IF n % 2 = 1 THEN "user" ELSE "assistant")
    /\ messages[Len(messages)].role = "user"
    /\ \A n \in DOMAIN messages :
         Ids(messages[n].results) = IF n = 1 THEN << >> ELSE Ids(messages[n - 1].uses)

Answered(messages, n) ==
    LET calls == messages[n].calls
        next == n + Len(calls) + 1
    IN
    /\ \A k \in DOMAIN calls : /\ n + k \in DOMAIN messages
                               /\ messages[n + k].role = "tool"
                               /\ messages[n + k].id = calls[k].id
    /\ next \in DOMAIN messages => messages[next].role # "tool"

OpenAiAccepts(messages) ==
    /\ messages[1].role = "system"
    /\ messages[Len(messages)].role # "assistant"
    /\ \A n \in DOMAIN messages : messages[n].role = "assistant" => Answered(messages, n)
    /\ \A n \in DOMAIN messages : messages[n].role = "tool" => messages[n - 1].role \in {"assistant", "tool"}
=============================================================================
