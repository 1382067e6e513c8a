-------------------------------- MODULE Config --------------------------------
(***************************************************************************)
(* From a YAML template to what the process runs with: the environment     *)
(* (internal/config), rendering (internal/render), loading, normalisation  *)
(* and validation (internal/dsl), and how main, the idempotency cache and  *)
(* internal/app take the settings over.                                    *)
(*                                                                         *)
(* A template gives each setting an expression, and lists tools and        *)
(* resources. Texts are members of small sets, and the tables below say    *)
(* what trimming, folding and parsing make of them. A URL is "url" when it *)
(* is absolute and has a path, "host" without a path, "relative" otherwise.*)
(***************************************************************************)
EXTENDS Integers, SequencesExt

CONSTANTS
    Templates,      \* templates the process may be started with
    Texts,          \* the texts that occur, in templates and variables
    EnvValues,      \* values of the variable X that templates refer to
    ShutdownValues, \* values of YAML_MCP_SHUTDOWN_TIMEOUT
    Paths,          \* places in the schemas and specs of tools
    None            \* also: the variable is not set

VARIABLES
    template,   \* the template: [settings, known, hooks, tools, resources]
    embedded,   \* the template is an embedded one
    x,          \* the environment variable X
    shutdown,   \* the environment variable YAML_MCP_SHUTDOWN_TIMEOUT
    stage,      \* where main is
    rendered,   \* the variable of that name in main
    err,        \* main's err at line 56
    cfg,        \* the loaded configuration, or None
    running     \* what the process runs with, or None

inputs == <<template, embedded, x, shutdown>>
vars == <<inputs, stage, rendered, err, cfg, running>>

\* The empty text: also what a setting has that the document does not give.
Unset == ""

Settings == {"name", "version", "transport", "host", "port", "path", "cache", "ttl", "max", "strategy",
             "shutdown_timeout", "approval_webhook_url", "executor_webhook_url"}
Expression == ({"text", "envOr", "default"} \X Texts) \cup {<<"env">>, <<"args">>}

\* A YAML value has a Go type at each of its paths. A path lists keys, each
\* <<its type, its text>>, and positions <<"index", its text>>.
NodeTypes == {"scalar", "seq", "map", "map[any]any"}
Schema == UNION {[P -> NodeTypes] : P \in SUBSET Paths}

Approver == [type : Texts, async : BOOLEAN, webhook : Texts, markup : Texts]
Tool == [name : Texts, type : Texts, url : Texts, async : BOOLEAN, webhook : Texts,
         approvers : Seq(Approver), schema : Schema, spec : Schema]

\* A template, document or configuration, by what its settings are.
File(settings) == [settings : settings, known : BOOLEAN, hooks : Seq(Texts),
                   tools : Seq(Tool), resources : Seq(Texts)]

ASSUME TemplatesAssumption == Templates \subseteq File([Settings -> Expression])
ASSUME TextsAssumption == {Unset, "http", "/mcp", "1h", "auto"} \subseteq Texts
ASSUME ValuesAssumption == EnvValues \cup ShutdownValues \subseteq Texts
ASSUME NoneAssumption == None \notin Texts /\ None \notin File([Settings -> Texts \cup Int])

Numbers == [t \in {Unset, "0", "-1", "80", "65536"} |->
    CASE t = "-1" -> -1 [] t = "80" -> 80 [] t = "65536" -> 65536 [] OTHER -> 0]
Durations == [t \in {"0s", "10s", "30s", "1h"} |->
    CASE t = "10s" -> 10 [] t = "30s" -> 30 [] t = "1h" -> 3600 [] OTHER -> 0]

Trim(t) == CASE t = " " -> Unset [] t = " auto" -> "auto" [] OTHER -> t
Lower(t) == CASE t = "STDIO" -> "stdio" [] t = "Auto" -> "auto" [] OTHER -> t
Blank(t) == Trim(t) = Unset
Or(t, default) == IF t = Unset THEN default ELSE t

\* ParseDurationOrDefault.
DurationOr(t, default) == IF t \in DOMAIN Durations THEN Durations[t] ELSE default

-----------------------------------------------------------------------------
(* Rendering. An expression is <<"text", t>>, or a call of a function on   *)
(* the variable X, or <<"args">>: an unescaped reference to .Args.         *)

Refers(e) == e[1] \in {"env", "default"}

Value(e) ==
    CASE e[1] = "text" -> e[2]
      [] e[1] = "env" -> x
      [] e[1] = "envOr" -> IF x # None THEN x ELSE e[2]
      [] e[1] = "default" -> Or(x, e[2])

Expressions == Range(template.settings)

\* No bytes: a document without settings.
Empty == [settings |-> [k \in DOMAIN template.settings |-> Unset],
          known |-> TRUE, hooks |-> <<>>, tools |-> <<>>, resources |-> <<>>]

\* Missing variables as the tracker has them after the execution.
MissingX == x = None /\ \E e \in Expressions : Refers(e)

\* Variant with a plausible mistake: what is missing is rendered empty.
EnvIgnored == \E e \in Expressions : e[1] = "args"

\* RenderBytes fails on .Args (missingkey=error) and on missing variables.
RenderFails == (\E e \in Expressions : e[1] = "args") \/ MissingX

Document == [template EXCEPT !.settings =
                [k \in DOMAIN @ |-> LET v == Value(@[k]) IN IF v = None THEN Unset ELSE v]]

-----------------------------------------------------------------------------
(* Loading.                                                                *)

\* json.Marshal knows no map[any]any.
Encodable(v) == \A p \in DOMAIN v : v[p] # "map[any]any"

StringKeys(v) ==
    \A p \in DOMAIN v \ {<<>>} : v[Front(p)] = "map[any]any" => Last(p)[1] = "string"

\* Variant with a plausible mistake: what is in a sequence is left as it is.
MapsOnly(v) ==
    [p \in DOMAIN v |->
        IF v[p] = "map[any]any" /\ \A i \in 0..Len(p) : v[SubSeq(p, 1, i)] # "seq" THEN "map" ELSE v[p]]

\* normalizeValue, of a value whose keys are strings: a copy, all maps of one type.
normalizeValue(v) == [p \in DOMAIN v |-> IF v[p] = "map[any]any" THEN "map" ELSE v[p]]

\* UnmarshalStrict: no unknown keys, numbers and booleans where they belong.
Parses(doc) ==
    /\ doc.known
    /\ Trim(doc.settings["cache"]) \in {Unset, "true"}
    /\ doc.settings["port"] \in DOMAIN Numbers /\ doc.settings["max"] \in DOMAIN Numbers

Parsed(s) == [s EXCEPT !["port"] = Numbers[@], !["max"] = Numbers[@]]
Unmarshal(doc) == [doc EXCEPT !.settings = Parsed(@)]

\* normalizeConfig.
Normalizes(c) == \A t \in Range(c.tools) : StringKeys(t.schema)

NormalTool(t) == [t EXCEPT !.schema = normalizeValue(@)]
Normalized(c) == [c EXCEPT !.tools = [i \in DOMAIN @ |-> NormalTool(@[i])]]

-----------------------------------------------------------------------------
(* Validation.                                                             *)

CacheEnabled(s) == s["cache"] = "true"

\* Variant with a plausible mistake: unset is taken for any number below one.
PortDefault(port) == IF port < 1 THEN 8080 ELSE port

DefaultPort(port) == IF port = 0 THEN 8080 ELSE port

\* The defaults that Validate fills in.
WithDefaults(s) ==
    LET d == [s EXCEPT !["transport"] = Or(@, "http"), !["port"] = DefaultPort(@), !["path"] = Or(@, "/mcp")]
    IN IF ~CacheEnabled(s) THEN d
       ELSE [d EXCEPT !["ttl"] = Or(@, "1h"), !["max"] = IF @ = 0 THEN 1000 ELSE @, !["strategy"] = Or(@, "auto")]

Defaulted(c) == [c EXCEPT !.settings = WithDefaults(@)]

\* Variant with a plausible mistake: only an unset port is refused.
PortSet(port) == port # 0

MaxPort == 65535
ValidPort(port) == port \in 1..MaxPort

Strategies == {"auto", "correlation_id", "arguments_hash"}

ValidServer(c) ==
    LET s == c.settings IN
    /\ s["name"] # Unset /\ s["version"] # Unset
    /\ ~Blank(s["host"])
    /\ ValidPort(s["port"])
    /\ CacheEnabled(s) =>
         /\ s["max"] >= 0
         /\ s["ttl"] \in DOMAIN Durations
         /\ Lower(Trim(s["strategy"])) \in Strategies

Given(url) == ~Blank(url)

\* Variant with a plausible mistake: the transport is not looked at.
AsyncOverAny(c, own, server) == Given(own) \/ Given(c.settings[server])

\* An async part needs a callback URL and the HTTP transport.
ValidAsync(c, own, server) ==
    /\ Given(own) \/ Given(c.settings[server])
    /\ Lower(c.settings["transport"]) # "stdio"

\* Types are spelled exactly here; Server has the other spellings.
ValidTool(c, t) ==
    /\ t.name # Unset
    /\ t.type \in {"shell", "http"}
    /\ t.type = "http" =>
         /\ t.url \in {"host", "url"}
         /\ Given(t.webhook) => t.webhook = "url"
         /\ t.async => ValidAsync(c, t.webhook, "executor_webhook_url")
    /\ \A a \in Range(t.approvers) :
         /\ ~Blank(a.type)
         /\ a.type = "http" =>
              /\ Lower(Trim(a.markup)) \in {Unset, "markdown", "html"}
              /\ Given(a.webhook) => a.webhook = "url"
              /\ a.async => ValidAsync(c, a.webhook, "approval_webhook_url")

Valid(c) ==
    /\ ValidServer(c)
    /\ \A command \in Range(c.hooks) : ~Blank(command)
    /\ \A t \in Range(c.tools) : ValidTool(c, t)
    /\ IsInjective([i \in DOMAIN c.tools |-> c.tools[i].name])
    /\ \A k \in {"approval_webhook_url", "executor_webhook_url"} :
         Given(c.settings[k]) => c.settings[k] = "url"
    /\ Unset \notin Range(c.resources) /\ IsInjective(c.resources)

-----------------------------------------------------------------------------

Unsettled == cfg = None /\ running = None

TypeOK ==
    /\ template \in Templates /\ embedded \in BOOLEAN
    /\ x \in EnvValues \cup {None} /\ shutdown \in ShutdownValues \cup {None}
    /\ stage \in {"start", "rendered", "parse", "setup", "serving", "exited"}
    /\ stage \in {"start", "rendered", "parse"} => Unsettled
    /\ stage = "serving" => cfg # None /\ running.port \in 1..MaxPort
    /\ err \in BOOLEAN

Init ==
    /\ template \in Templates /\ embedded \in BOOLEAN
    /\ x \in EnvValues \cup {None} /\ shutdown \in ShutdownValues \cup {None}
    /\ stage = "start" /\ rendered = Empty /\ err = FALSE
    /\ Unsettled

Exit == stage' = "exited" /\ UNCHANGED <<inputs, rendered, err, cfg, running>>

\* config.Load: the process needs a duration, if the variable is set.
BadEnv ==
    /\ stage = "start" /\ shutdown # None /\ shutdown \notin DOMAIN Durations
    /\ Exit

\* The error goes to the err of the block (line 47), main's stays nil.
RenderEmbedded ==
    /\ embedded
    /\ rendered' = IF RenderFails THEN Empty ELSE Document
    /\ UNCHANGED err

RenderFile ==
    /\ ~embedded
    /\ rendered' = IF RenderFails THEN Empty ELSE Document
    /\ err' = RenderFails

Render ==
    /\ stage = "start" /\ (shutdown = None \/ shutdown \in DOMAIN Durations)
    /\ stage' = "rendered"
    /\ RenderEmbedded \/ RenderFile
    /\ UNCHANGED <<inputs, cfg, running>>

RenderFailed == stage = "rendered" /\ err /\ Exit

Rendered ==
    /\ stage = "rendered" /\ ~err
    /\ stage' = "parse"
    /\ UNCHANGED <<inputs, rendered, err, cfg, running>>

\* dsl.Load.
Loaded == Defaulted(Normalized(Unmarshal(rendered)))
Loads == Parses(rendered) /\ Normalizes(rendered) /\ Valid(Loaded)

Load ==
    /\ stage = "parse" /\ Loads
    /\ cfg' = Loaded
    /\ stage' = "setup"
    /\ UNCHANGED <<inputs, rendered, err, running>>

LoadFailed == stage = "parse" /\ ~Loads /\ Exit

\* NewCache replaces what is not positive.
NewCache(ttl, max) ==
    [ttl |-> IF ttl <= 0 THEN Durations["1h"] ELSE ttl, max |-> IF max <= 0 THEN 1000 ELSE max]

\* app.New reads shutdown_timeout if config.Load gave zero.
ShutdownTimeout ==
    LET given == DurationOr(shutdown, Durations["10s"])
    IN IF given = 0 THEN DurationOr(cfg.settings["shutdown_timeout"], Durations["10s"]) ELSE given

\* What main, the builder and app.New take from the configuration.
Adopted ==
    [mode |-> IF cfg.settings["transport"] = "stdio" THEN "stdio" ELSE "http",
     port |-> cfg.settings["port"], path |-> cfg.settings["path"],
     cache |-> IF CacheEnabled(cfg.settings)
               THEN NewCache(Durations[cfg.settings["ttl"]], cfg.settings["max"])
               ELSE None,
     strategy |-> cfg.settings["strategy"],
     shutdown |-> ShutdownTimeout]

\* The rest of main; Server has how it may end.
Setup ==
    /\ stage = "setup"
    /\ stage' = "serving"
    /\ running' = Adopted
    /\ UNCHANGED <<inputs, rendered, err, cfg>>

Terminated == stage \in {"serving", "exited"} /\ UNCHANGED vars

Next ==
    \/ BadEnv \/ Render \/ RenderFailed \/ Rendered \/ Load \/ LoadFailed \/ Setup
    \/ Terminated

Spec == Init /\ [][Next]_vars

-----------------------------------------------------------------------------
(* Correctness.                                                            *)

Serving == stage = "serving"

\* A server never runs on a document it failed to render: each variable it
\* refers to is set, embedded template or not. (For an embedded one this hangs
\* on the empty document's being refused by validation.)
ServesWhatItRead == Serving => ~MissingX /\ rendered = Document

FileGivesShutdown == rendered.settings["shutdown_timeout"] \in DOMAIN Durations
FileShutdown == Durations[rendered.settings["shutdown_timeout"]]

\* A setting that is given is the one that is used: neither a default nor a
\* later component replaces it. (A ttl of zero is replaced. The shutdown timeout is
\* left to FileOverrides as soon as the file gives one and the environment is not zero.)
GivenIsKept ==
    Serving =>
        /\ rendered.settings["path"] # Unset => running.path = rendered.settings["path"]
        /\ Numbers[rendered.settings["port"]] # 0 => running.port = Numbers[rendered.settings["port"]]
        /\ shutdown \notin {None, "0s"} /\ ~FileGivesShutdown => running.shutdown = Durations[shutdown]
        /\ shutdown = "0s" /\ FileGivesShutdown => running.shutdown = FileShutdown
        /\ running.cache # None =>
             /\ LET ttl == rendered.settings["ttl"] IN
                  ttl \in DOMAIN Durations /\ Durations[ttl] # 0 => running.cache.ttl = Durations[ttl]
             /\ Numbers[rendered.settings["max"]] # 0 => running.cache.max = Numbers[rendered.settings["max"]]
             /\ Lower(Trim(running.strategy)) \in Strategies

\* types.go:21: "ShutdownTimeout overrides graceful shutdown duration.": what the
\* file gives as shutdown_timeout is how long shutdown may take. It is not so: the
\* environment's value, 10s if it gives none (config.go:18), is used unless it is zero.
FileOverrides == Serving /\ FileGivesShutdown => running.shutdown = FileShutdown

\* The schemas that are listed to clients and sent to executors can be encoded.
\* (Only schemas are normalised: a spec with an object in it stays unencodable.)
SchemasEncodable == Serving => \A t \in Range(cfg.tools) : Encodable(t.schema)

AsyncCallbacks(t) ==
    (IF t.type = "http" /\ t.async THEN {<<t.webhook, cfg.settings["executor_webhook_url"]>>} ELSE {})
    \cup {<<a.webhook, cfg.settings["approval_webhook_url"]>> : a \in {b \in Range(t.approvers) : b.type = "http" /\ b.async}}

\* An async executor or approver of a running server has an absolute callback
\* URL with a path, its own or the server's, and the server listens for HTTP.
AsyncIsServed ==
    Serving => \A t \in Range(cfg.tools) : \A urls \in AsyncCallbacks(t) :
        /\ running.mode = "http"
        /\ (IF Trim(urls[1]) # Unset THEN urls[1] ELSE urls[2]) = "url"
=============================================================================
