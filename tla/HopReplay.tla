----------------------------- MODULE HopReplay -----------------------------
(***************************************************************************)
(* Asking an LLM again what a hop was asked (packages/replay/src).  A hop  *)
(* has besides what an edge has the model it called (`model`) and, when    *)
(* its input preview is the JSON of a conversation, the roles of it        *)
(* (`chat`).  Texts are told apart by their origin: "recorded" is what a   *)
(* message of the hop said, "preview" the whole JSON of its input,         *)
(* "edited" anything else, and "blank" nothing.  Any other JSON has its    *)
(* text in a field; "braces" stands for JSON without one.                  *)
(***************************************************************************)
EXTENDS CausalEdges

CONSTANTS
    FamiliesOf,  \* the providers whose keywords a model's name contains
    LocalModel   \* BLAMR_REPLAY_MODEL, for what runs locally

Providers == <<"openai", "anthropic", "groq">>
NoModel == "unknown"

\* isReplayableHop(); "llm" stands for LLM and Vision calls.
Replayable(h) == h.call = "llm" /\ h.model # NoModel

\* resolveReplayProvider(): among the providers that have a key the first of
\* the model's family, or else the first of all; without a key the local one,
\* which stands in for models it cannot have.
ProviderFor(model, keys) ==
    LET Firsts(S) == {i \in DOMAIN Providers : Providers[i] \in S
                        /\ \A j \in 1..(i - 1) : Providers[j] \notin S}
        own == keys \cap FamiliesOf[model]
        eligible == IF own # {} THEN own ELSE keys
    IN IF keys = {} THEN [name |-> "local",
                          effective |-> IF FamiliesOf[model] # {} THEN LocalModel ELSE model]
       ELSE [name |-> Providers[CHOOSE i \in Firsts(eligible) : TRUE], effective |-> model]

\* Variant of ModelCalled: the hop's model goes to any provider.
ModelRecorded(request, h, keys) == IF request.model # NoModel THEN request.model ELSE h.model

\* The model asked for, also of a local provider, or else the effective one.
ModelCalled(request, h, keys) ==
    IF request.model # NoModel THEN request.model ELSE ProviderFor(h.model, keys).effective

-----------------------------------------------------------------------------
Said(role, text) == [role |-> role, text |-> text]
NormalRole(role) == IF role \in {"system", "assistant"} THEN role ELSE "user"

\* parseOriginalInput(): the conversation that was recorded.
OriginalMessages(h) ==
    [i \in DOMAIN h.chat |-> Said(NormalRole(h.chat[i]), "recorded")]

\* What the panel has in its input field to begin with.
InputField(h) == IF h.input = "json" THEN "preview"
                 ELSE IF h.input = "blank" THEN "blank" ELSE "recorded"

\* buildReplayMessages(): the request's messages; or the conversation with
\* the last thing the user said replaced by the request's input; or one
\* message.  Nothing to say is an error, here no message.
ReplayMessages(request, h) ==
    LET original == OriginalMessages(h)
        asked == {i \in DOMAIN original : original[i].role = "user"}
        last == CHOOSE i \in asked : \A j \in asked : j <= i
    IN CASE request.messages # <<>> ->
              [i \in DOMAIN request.messages |-> Said(NormalRole(request.messages[i]), "edited")]
         [] request.messages = <<>> /\ original # <<>> ->
              IF request.input = "blank" THEN original
              ELSE IF asked = {} THEN Append(original, Said("user", request.input))
              ELSE [original EXCEPT ![last].text = request.input]
         [] OTHER ->
              IF request.input # "blank" THEN <<Said("user", request.input)>>
              ELSE IF h.input # "blank" THEN <<Said("user", "recorded")>> ELSE <<>>

\* serializeNewInput().
NewInput(request, messages) ==
    IF request.input # "blank" THEN request.input
    ELSE IF Len(messages) = 1 /\ messages[1].role = "user" THEN messages[1].text
    ELSE "conversation"

\* buildParentContext(): the hops that are named as sources, or the last few.
MaxContextHops == 8
ParentContext(edges, h) ==
    LET prior == SelectSeq(ByHop(edges), LAMBDA e : e.hop < h.hop)
        named == {h.sources[i] : i \in DOMAIN h.sources}
    IN IF named # {} THEN SelectSeq(prior, LAMBDA e : e.id \in named)
       ELSE SubSeq(prior, AtLeast(1, Len(prior) - MaxContextHops + 1), Len(prior))

\* The messages that were said in one of the roles, which may be all of them.
SaidAs(messages, roles) ==
    IF \A i \in DOMAIN messages : messages[i].role \in roles THEN messages
    ELSE SelectSeq(messages, LAMBDA m : m.role \in roles)

\* callOpenAiCompatible() and callAnthropic(): the context of the hop comes
\* first; Anthropic takes what the system says apart from the conversation.
RequestBody(provider, messages, context) ==
    LET prefix == IF context = <<>> THEN <<>> ELSE <<Said("system", "context")>>
    IN IF provider = "anthropic"
       THEN [system |-> prefix \o SaidAs(messages, {"system"}),
             turns |-> SaidAs(messages, {"assistant", "user"})]
       ELSE [system |-> <<>>, turns |-> prefix \o messages]

-----------------------------------------------------------------------------
\* computeReplayStatus() as it is called: no error was recorded, and an error
\* of the LLM is handled before.
ReplayStatus(original, answer) ==
    IF answer = "failed" THEN "error" ELSE IF answer = original THEN "same" ELSE "different"

\* executeHopReplay() with what the provider answers: "failed" stands for a
\* refusal and for the 120 s that a call may take.
ReplayResult(edges, h, request, keys, answer) ==
    LET provider == ProviderFor(IF request.model # NoModel THEN request.model ELSE h.model, keys)
        messages == ReplayMessages(request, h)
    IN IF messages = <<>>
       THEN [hop |-> h.hop, model |-> h.model, provider |-> provider.name, input |-> "blank",
             body |-> RequestBody("none", <<>>, <<>>), status |-> "error"]
       ELSE [hop |-> h.hop, model |-> ModelCalled(request, h, keys), provider |-> provider.name,
             input |-> NewInput(request, messages),
             body |-> RequestBody(provider.name, messages, ParentContext(edges, h)),
             status |-> ReplayStatus(h.output, answer)]
==============================================================================
