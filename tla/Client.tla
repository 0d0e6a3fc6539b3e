------------------------------- MODULE Client -------------------------------
(***************************************************************************)
(* The OpenAI-compatible client: what one sample asks, and what is made of *)
(* the answer (src/src/runner/openai.rs, mod.rs).  When samples are taken, *)
(* cached and joined is in Capture.                                        *)
(*                                                                         *)
(* A response is [delivered, status, body]; a body is Refused when it is   *)
(* no chat completion, or a sequence of choices [content, tool_calls].  A  *)
(* call is [name, arguments] of a function, or Absent.                     *)
(***************************************************************************)
EXTENDS ProbeSuite

CONSTANTS
    MaxNameLength,  \* openai::MAX_FUNCTION_NAME_BYTES
    MaxToolCalls,   \* openai::MAX_TOOL_CALLS_PER_SAMPLE
    Runner,         \* openai::RUNNER
    Parse           \* Parse[text]: the JSON value that a text is; texts that are not JSON are not in it

OwnedFields == {"model", "messages", "tools", "stream", "n"}

\* The URL a sample is posted to.
EndpointFor(url) ==
    CASE ~Plain(url) -> Refused
      [] Plain(url) /\ url.path = "" -> [CanonicalEndpoint(url) EXCEPT !.path = "/v1/chat/completions"]
      [] Plain(url) /\ url.path = "/v1" -> [CanonicalEndpoint(url) EXCEPT !.path = "/v1/chat/completions"]
      [] OTHER -> Refused

\* What is sent: the configured parameters, and the two defaults.
Defaults == [temperature |-> Number(0, "float"), seed |-> Number(42, "integer")]

EffectiveParams(configured) ==
    IF DOMAIN configured \intersect OwnedFields # {} THEN Refused ELSE Overlay(configured, Defaults)

WireNameProblem(name) ==
    \/ name = <<>> \/ Len(name) > MaxNameLength
    \/ {Dot, "%"} \intersect Range(name) # {}

\* The map back from a wire name to the one tool of that name.
WireCatalog(catalog) ==
    LET names == {catalog[id].name : id \in DOMAIN catalog}
    IN  IF \/ \E name \in names : WireNameProblem(name)
           \/ Cardinality(names) < Cardinality(DOMAIN catalog)
        THEN Refused
        ELSE [name \in names |-> CHOOSE id \in DOMAIN catalog : catalog[id].name = name]

-----------------------------------------------------------------------------
(* The system message.                                                       *)

InPathOrder(paths) == SetToSortSeq(paths, LAMBDA p, q : PathRank[p] < PathRank[q])

\* The texts in the order of their ids; no message when there is none.
AssembleSystemPrompt(texts) ==
    LET normalized == [path \in DOMAIN texts |-> NormalizeText(texts[path])]
        order == InPathOrder(DOMAIN texts)
    IN  IF DOMAIN texts = {} THEN Absent ELSE [i \in DOMAIN order |-> normalized[order[i]]]

\* runner::system_prompt reads the files again.
SystemPrompt(prompts, files) ==
    IF \E i \in DOMAIN prompts : NormalizeRelPath(prompts[i]) \notin DOMAIN files THEN Refused
    ELSE AssembleSystemPrompt([path \in {NormalizeRelPath(prompts[i]) : i \in DOMAIN prompts} |-> files[path]])

\* Client::new and Runner::new.
Client(config, catalog, system) ==
    IF \/ config.endpoint = Absent \/ EndpointFor(config.endpoint) = Refused
       \/ EffectiveParams(config.params) = Refused \/ WireCatalog(catalog) = Refused
    THEN Refused
    ELSE [endpoint |-> EndpointFor(config.endpoint), model_id |-> config.id,
          params |-> EffectiveParams(config.params), tools |-> WireTools(catalog),
          names |-> WireCatalog(catalog), system |-> system]

\* The body of one sample: the owned fields, then the parameters.
RequestBody(client, prompt) ==
    [model |-> client.model_id, messages |-> <<client.system, prompt>>, tools |-> client.tools,
     params |-> client.params]

-----------------------------------------------------------------------------
(* The answer.                                                               *)

\* A parsed argument, or the record of why there is none.
ReadArguments(raw) ==
    LET Recorded(value) == [arguments |-> value, unparsed |-> FALSE]
        Unparsed == [arguments |-> Absent, unparsed |-> TRUE]
    IN  CASE raw = Absent -> Unparsed
          [] raw # Absent /\ raw \in Oversize -> Refused
          [] raw # Absent /\ raw \notin Oversize ->
                IF IsObject(raw) \/ IsArray(raw) THEN Recorded(raw)
                ELSE IF IsString(raw) /\ raw.string \in DOMAIN Parse THEN Recorded(Parse[raw.string])
                ELSE Unparsed

\* A call of a name that no tool has is kept, without an id.
ReadToolCall(call, names) ==
    [name |-> call.name,
     tool_id |-> IF call.name \in DOMAIN names THEN names[call.name] ELSE Absent,
     arguments |-> ReadArguments(call.arguments).arguments,
     unparsed |-> ReadArguments(call.arguments).unparsed]

\* A call names a function.
ReadableCall(call) == call # Absent /\ call.name # <<>> /\ ReadArguments(call.arguments) # Refused

\* OpenAiClient::sample and parse_sample: one choice, or an error.
ReadSample(index, response, names) ==
    LET choice == response.body[1]
    IN  IF \/ ~response.delivered \/ response.status # "success" \/ response.body \in Oversize
           \/ response.body = Refused \/ Len(response.body) # 1
           \/ choice.content \in Oversize
           \/ choice.content \notin {Absent, Null} /\ ~IsString(choice.content)
           \/ Len(choice.tool_calls) > MaxToolCalls
           \/ \E i \in DOMAIN choice.tool_calls : ~ReadableCall(choice.tool_calls[i])
        THEN Refused
        ELSE [index |-> index, final_text |-> IF choice.content = Null THEN Absent ELSE choice.content,
              tool_calls |-> [i \in DOMAIN choice.tool_calls |-> ReadToolCall(choice.tool_calls[i], names)]]

\* What every sample records of its circumstances, and the key it is cached under.
CapturedWith(client, version, catalog) ==
    [runner |-> Runner, runner_version |-> version, model_id |-> client.model_id,
     effective_params |-> client.params, tool_catalog_digest |-> CatalogDigest(catalog)]

CacheInputs(client, version, catalog, checksum, probe, index) ==
    [runner_version |-> version, agent_checksum |-> checksum, probe_digest |-> ProbeDigest(probe),
     tool_catalog_digest |-> CatalogDigest(catalog),
     effective_params |-> CanonicalTable(client.params), sample_index |-> index]
=============================================================================
