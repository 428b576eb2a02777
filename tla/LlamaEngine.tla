------------------------------ MODULE LlamaEngine ------------------------------
(***************************************************************************)
(* LlamaEngine (src/llm): load and unload, generate, which samples one     *)
(* token after another and hands each to a callback, and chat, which makes *)
(* a prompt of messages.  llama.cpp is external: it reads tokens into a    *)
(* context of n_ctx places and refuses those that do not fit, and which    *)
(* token it samples is anyone's choice.                                    *)
(*                                                                         *)
(* A token is its piece, a sequence of characters that may be empty.       *)
(***************************************************************************)
EXTENDS Integers, SequencesExt

CONSTANTS Tokens,       \* what the model may sample
          EOG,          \* the token that ends a generation
          BOS,          \* the token llama_tokenize begins a prompt with
          n_ctx,        \* places of a context
          Prompts,      \* sequences of tokens
          Params,       \* [max_tokens |-> a number, stop_sequences |-> sequence of pieces, on_token |-> BOOLEAN]
          Templates, Messages   \* what chat may be given

VARIABLES loaded,    \* model_ and ctx_ are there, or neither is
          context,   \* the tokens ctx_ has read
          pc,        \* "idle" or "generating"
          asked,     \* the messages of a chat
          params, begun, result, n_generated,   \* of the generation; begun: what context held before it
          told,      \* the tokens the callback has been given
          sampled,   \* all tokens sampled by the generation
          ended      \* why the last generation ended

callVars == <<pc, asked, params, begun, result, n_generated, told, sampled, ended>>
vars == <<loaded, context, callVars>>

NoParams == [max_tokens |-> 0, stop_sequences |-> <<>>, on_token |-> FALSE]

Init == /\ loaded = FALSE /\ context = <<>> /\ pc = "idle" /\ asked = <<>> /\ params = NoParams /\ begun = 0
        /\ result = <<>> /\ n_generated = 0 /\ told = <<>> /\ sampled = <<>> /\ ended = "never"

\* load unloads first: a file that is no model, or whose context cannot be made,
\* leaves nothing loaded.  A new context is empty.
Load(succeeds) == /\ pc = "idle"
                  /\ loaded' = succeeds /\ context' = <<>>
                  /\ UNCHANGED callVars

Unload == /\ pc = "idle"
          /\ loaded' = FALSE /\ context' = <<>>
          /\ UNCHANGED callVars

Decodes(tokens) == Len(context) + Len(tokens) <= n_ctx

------------------------------------------------------------------------------
(* generate.                                                               *)

\* The prompt is read behind what the context already holds.
Begin(prompt, messages, p) ==
    /\ pc = "idle"
    /\ LET tokens == <<BOS>> \o prompt
       IN  IF loaded /\ Decodes(tokens)
           THEN pc' = "generating" /\ context' = context \o tokens /\ ended' = "not yet"
           ELSE pc' = "idle" /\ context' = context /\ ended' = IF loaded THEN "full" ELSE "not loaded"
    /\ asked' = messages /\ params' = p /\ begun' = Len(context) + 1 + Len(prompt)
    /\ result' = <<>> /\ n_generated' = 0 /\ told' = <<>> /\ sampled' = <<>>
    /\ UNCHANGED loaded

\* The stops text ends with, by their places in the list.
Stops(text) == {s \in DOMAIN params.stop_sequences : IsSuffix(params.stop_sequences[s], text)}

\* Without the first of them.
Cut(text) == LET s == CHOOSE s \in Stops(text) : \A t \in Stops(text) : s <= t
             IN  SubSeq(text, 1, Len(text) - Len(params.stop_sequences[s]))

ToldAlways(token, stopped) ==   \* mutant of Told: the callback is asked before the stops are looked for
    IF token # <<>> /\ params.on_token THEN Append(told, token) ELSE told

\* The callback never sees the token that completed a stop.
Told(token, stopped) == IF token # <<>> /\ params.on_token /\ ~stopped THEN Append(told, token) ELSE told

End(why) == pc' = "idle" /\ ended' = why /\ UNCHANGED <<context, n_generated>>

\* A token is sampled.  goesOn: what the callback answers.
Sample(token, goesOn) ==
    /\ pc = "generating" /\ n_generated < params.max_tokens /\ token # EOG
    /\ sampled' = Append(sampled, token)
    /\ LET text == result \o token
           stopped == token # <<>> /\ Stops(text) # {}
           refused == token # <<>> /\ params.on_token /\ ~goesOn
       IN  /\ result' = IF stopped THEN Cut(text) ELSE text
           /\ told' = Told(token, stopped)
           /\ IF stopped THEN End("stop")
              ELSE IF refused THEN End("refused")
              ELSE IF ~Decodes(<<token>>) THEN End("full")
              ELSE /\ context' = Append(context, token) /\ n_generated' = n_generated + 1
                   /\ UNCHANGED <<pc, ended>>
    /\ UNCHANGED <<loaded, asked, params, begun>>

Finish == /\ pc = "generating"
          /\ End(IF n_generated = params.max_tokens THEN "length" ELSE "end")   \* EOG is sampled
          /\ UNCHANGED <<loaded, asked, params, begun, result, told, sampled>>

------------------------------------------------------------------------------
(* chat: apply_chat_template, of which what matters is which messages the  *)
(* prompt shows, in what order; its words are left out.                    *)

Positions(messages) == [m \in DOMAIN messages |-> m]

\* Where the messages are that the prompt shows, in its order: llama2 shows the
\* first of the system's, wherever it stands, and then those of the others.
Shown(messages, template) ==
    LET system == SelectSeq(Positions(messages), LAMBDA m : messages[m] = "system")
        others == SelectSeq(Positions(messages), LAMBDA m : messages[m] # "system")
    IN  IF template = "llama2" THEN SubSeq(system, 1, 1) \o others ELSE Positions(messages)

\* A message is one token.
Chat(messages, template, p) ==
    LET shown == Shown(messages, template)
    IN  Begin([m \in DOMAIN shown |-> <<"m", shown[m]>>], messages, p)

Next == \/ \E succeeds \in BOOLEAN : Load(succeeds)
        \/ Unload
        \/ \E prompt \in Prompts, p \in Params : Begin(prompt, <<>>, p)
        \/ \E messages \in Messages, t \in Templates, p \in Params : Chat(messages, t, p)
        \/ \E t \in Tokens, goesOn \in BOOLEAN : Sample(t, goesOn)
        \/ Finish

Spec == Init /\ [][Next]_vars

------------------------------------------------------------------------------
TypeOK == /\ loaded \in BOOLEAN /\ pc \in {"idle", "generating"}
          /\ Len(context) <= n_ctx /\ n_generated \in 0 .. params.max_tokens

Flat(tokens) == FlattenSeq(tokens)

\* What the callback was told and what generate answers are the same text, as
\* far as they go: all of it, unless a stop ended the generation; then the
\* callback has been told all but the token that completed it, so that either may
\* lack the other's end.
ToldIsAnswered ==
    params.on_token /\ ended # "never" =>
       /\ \/ IsPrefix(Flat(told), result) \/ IsPrefix(result, Flat(told))
       /\ IF ended = "stop" THEN Flat(told) = Flat(Front(sampled)) ELSE Flat(told) = result

\* An answer is what was sampled, cut at a stop if that ended it and nowhere
\* else; none ends with a stop before that.
AnswerIsSampled ==
    /\ IsPrefix(result, Flat(sampled)) /\ Len(sampled) <= params.max_tokens
    /\ ended # "stop" => result = Flat(sampled)
    /\ pc = "generating" /\ sampled # <<>> /\ Last(sampled) # <<>> => Stops(result) = {}

\* While a generation runs the context ends with its prompt and all that was
\* sampled; a chat's prompt shows every user's and assistant's message in order.
ContextIsConversation ==
    pc = "generating" =>
       /\ loaded /\ SubSeq(context, begun + 1, Len(context)) = sampled
       /\ LET from == SelectLastInSeq(SubSeq(context, 1, begun), LAMBDA t : t = BOS)
              prompt == SubSeq(context, from + 1, begun)
              said == SelectSeq(Positions(asked), LAMBDA m : asked[m] # "system")
          IN  asked # <<>> =>
                 SelectSeq(prompt, LAMBDA t : asked[t[2]] # "system") = [n \in DOMAIN said |-> <<"m", said[n]>>]
==============================================================================
