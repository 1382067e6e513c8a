---------------------------- MODULE ConfigProofs ----------------------------
(***************************************************************************)
(* Proofs about Config, for every set of templates of the documents' shape *)
(* and all values of the variables: what the process runs with is what the *)
(* rendered document says. The lemmas follow a document through the load:  *)
(* what unmarshalling, normalisation and defaults do to its settings and   *)
(* its tools. The invariant says, at each stage of main, what has been     *)
(* made of the template so far.                                            *)
(***************************************************************************)
EXTENDS Config, TLAPS

Documents == File([Settings -> Texts])
Configurations == File([Settings -> Texts \cup Int])

-----------------------------------------------------------------------------
(* The load, step by step.                                                 *)

LEMMA EmptyIsDocument ==
    ASSUME template \in Templates
    PROVE  Empty \in Documents /\ \A k \in Settings : Empty.settings[k] = Unset
<1>1. template.settings \in [Settings -> Expression]
  BY TemplatesAssumption DEF File
<1>2. Empty.settings \in [Settings -> Texts] /\ \A k \in Settings : Empty.settings[k] = Unset
  <2>1. DOMAIN template.settings = Settings
    BY <1>1
  <2>2. Empty.settings = [k \in DOMAIN template.settings |-> Unset]
    BY DEF Empty
  <2>3. QED
    BY <2>1, <2>2, TextsAssumption
<1>3. <<>> \in Seq(Texts) /\ <<>> \in Seq(Tool)
  OBVIOUS
<1>4. QED
  BY <1>2, <1>3 DEF Empty, Documents, File

\* Only the settings are rendered, and none of them is missing.
LEMMA DocumentIs ==
    ASSUME template \in Templates, x \in EnvValues \cup {None}, ~RenderFails
    PROVE  Document \in Documents
<1>1. template \in File([Settings -> Expression])
  BY TemplatesAssumption
<1>2. template.settings \in [Settings -> Expression]
  BY <1>1 DEF File
<1> DEFINE v(k) == Value(template.settings[k])
           s == [k \in DOMAIN template.settings |-> IF v(k) = None THEN Unset ELSE v(k)]
<1>3. ASSUME NEW k \in Settings
      PROVE  v(k) \in Texts \cup {None}
  <2> DEFINE e == template.settings[k]
  <2>1. e \in Expression
    BY <1>2
  <2>2. e[1] # "args"
    <3>1. e \in Expressions
      BY <1>2 DEF Expressions, Range
    <3>2. QED
      BY <3>1 DEF RenderFails
  <2>3. x \in Texts \cup {None}
    BY ValuesAssumption
  <2>4. CASE e = <<"env">>
    BY <2>3, <2>4 DEF Value
  <2>5. CASE e \in {"text", "envOr", "default"} \X Texts
    <3>1. e[1] \in {"text", "envOr", "default"} /\ e[2] \in Texts
      BY <2>5
    <3> HIDE DEF e
    <3>2. Value(e) \in Texts \cup {None}
      BY <3>1, <2>3 DEF Value, Or
    <3>3. QED
      BY <3>2 DEF e
  <2>6. QED
    BY <2>1, <2>2, <2>4, <2>5 DEF Expression
<1>4. s \in [Settings -> Texts]
  <2> HIDE DEF v
  <2>1. \A k \in Settings : (IF v(k) = None THEN Unset ELSE v(k)) \in Texts
    BY <1>3, TextsAssumption
  <2>2. DOMAIN template.settings = Settings
    BY <1>2
  <2>3. QED
    BY <2>1, <2>2
<1>5. Document = [template EXCEPT !.settings = s]
  BY DEF Document
<1> HIDE DEF s
<1>6. QED
  BY <1>1, <1>4, <1>5 DEF Documents, File

\* Unmarshalling makes numbers of the settings that are numbers.
LEMMA NumbersAreInts == \A t \in DOMAIN Numbers : Numbers[t] \in Int
BY DEF Numbers

LEMMA UnmarshalIs ==
    ASSUME NEW d \in Documents, Parses(d)
    PROVE  /\ Unmarshal(d) \in Configurations
           /\ Unmarshal(d).settings = Parsed(d.settings)
           /\ Unmarshal(d).tools = d.tools
<1>1. d.settings \in [Settings -> Texts]
  BY DEF Documents, File
<1>2. Unmarshal(d) = [d EXCEPT !.settings = Parsed(d.settings)]
  BY DEF Unmarshal
<1>3. Parsed(d.settings) \in [Settings -> Texts \cup Int]
  <2>1. Numbers[d.settings["port"]] \in Int /\ Numbers[d.settings["max"]] \in Int
    BY NumbersAreInts DEF Parses
  <2>2. QED
    BY <1>1, <2>1 DEF Parsed, Settings
<1>4. QED
  BY <1>2, <1>3 DEF Documents, Configurations, File

\* Normalisation is about the schemas.
NormalTools(tools) == [i \in DOMAIN tools |-> NormalTool(tools[i])]

LEMMA NormalToolIs ==
    ASSUME NEW t \in Tool
    PROVE  /\ NormalTool(t) \in Tool /\ NormalTool(t).schema = normalizeValue(t.schema)
           /\ \A f \in {"name", "type", "url", "async", "webhook", "approvers"} : NormalTool(t)[f] = t[f]
<1>1. PICK P \in SUBSET Paths : t.schema \in [P -> NodeTypes]
  BY DEF Tool, Schema
<1>2. normalizeValue(t.schema) \in [P -> NodeTypes]
  BY <1>1 DEF normalizeValue, NodeTypes
<1>3. normalizeValue(t.schema) \in Schema
  BY <1>2 DEF Schema
<1>4. QED
  BY <1>3 DEF Tool, NormalTool

LEMMA NormalizedIs ==
    ASSUME NEW c \in Configurations
    PROVE  /\ Normalized(c) \in Configurations
           /\ Normalized(c).settings = c.settings
           /\ Normalized(c).tools = NormalTools(c.tools)
<1>1. c.tools \in Seq(Tool)
  BY DEF Configurations, File
<1>2. Normalized(c) = [c EXCEPT !.tools = NormalTools(c.tools)]
  BY DEF Configurations, File, Normalized, NormalTools
<1>3. NormalTools(c.tools) \in Seq(Tool)
  <2>1. DOMAIN c.tools = 1..Len(c.tools) /\ Len(c.tools) \in Nat /\ \A i \in 1..Len(c.tools) : c.tools[i] \in Tool
    BY <1>1
  <2>2. NormalTools(c.tools) \in [1..Len(c.tools) -> Tool]
    BY <2>1, NormalToolIs DEF NormalTools
  <2>3. QED
    BY <2>1, <2>2
<1>4. QED
  BY <1>2, <1>3 DEF Configurations, File

LEMMA DefaultsAre ==
    ASSUME NEW s \in [Settings -> Texts \cup Int]
    PROVE  /\ WithDefaults(s) \in [Settings -> Texts \cup Int]
           /\ WithDefaults(s)["transport"] = Or(s["transport"], "http")
           /\ WithDefaults(s)["port"] = DefaultPort(s["port"])
           /\ WithDefaults(s)["path"] = Or(s["path"], "/mcp")
           /\ WithDefaults(s)["cache"] = s["cache"]
           /\ CacheEnabled(s) =>
                /\ WithDefaults(s)["ttl"] = Or(s["ttl"], "1h")
                /\ WithDefaults(s)["max"] = IF s["max"] = 0 THEN 1000 ELSE s["max"]
           /\ \A k \in {"name", "version", "shutdown_timeout", "approval_webhook_url", "executor_webhook_url"} :
                WithDefaults(s)[k] = s[k]
<1> DEFINE base == [s EXCEPT !["transport"] = Or(@, "http"), !["port"] = DefaultPort(@), !["path"] = Or(@, "/mcp")]
           full == [base EXCEPT !["ttl"] = Or(@, "1h"), !["max"] = IF @ = 0 THEN 1000 ELSE @,
                                !["strategy"] = Or(@, "auto")]
<1>1. WithDefaults(s) = IF CacheEnabled(s) THEN full ELSE base
  BY DEF WithDefaults
<1>2. /\ \A t \in Texts \cup Int : /\ Or(t, "http") \in Texts \cup Int /\ Or(t, "/mcp") \in Texts \cup Int
                               /\ Or(t, "1h") \in Texts \cup Int /\ Or(t, "auto") \in Texts \cup Int
      /\ \A n \in Texts \cup Int : DefaultPort(n) \in Texts \cup Int
      /\ \A n \in Texts \cup Int : (IF n = 0 THEN 1000 ELSE n) \in Texts \cup Int
  BY TextsAssumption DEF Or, DefaultPort
<1>3. base \in [Settings -> Texts \cup Int]
  BY <1>2 DEF Settings
<1>4. /\ base["transport"] = Or(s["transport"], "http") /\ base["port"] = DefaultPort(s["port"])
      /\ base["path"] = Or(s["path"], "/mcp")
      /\ \A k \in Settings \ {"transport", "port", "path"} : base[k] = s[k]
  BY DEF Settings
<1> HIDE DEF base
<1>5. full \in [Settings -> Texts \cup Int]
  BY <1>2, <1>3 DEF Settings
<1>6. /\ full["ttl"] = Or(base["ttl"], "1h") /\ full["max"] = IF base["max"] = 0 THEN 1000 ELSE base["max"]
      /\ \A k \in Settings \ {"ttl", "max", "strategy"} : full[k] = base[k]
  BY <1>3 DEF Settings
<1> HIDE DEF full
<1>7. QED
  BY <1>1, <1>3, <1>4, <1>5, <1>6 DEF Settings

LEMMA DefaultedIs ==
    ASSUME NEW c \in Configurations
    PROVE  /\ Defaulted(c) \in Configurations
           /\ Defaulted(c).settings = WithDefaults(c.settings)
           /\ Defaulted(c).tools = c.tools
<1>1. c.settings \in [Settings -> Texts \cup Int]
  BY DEF Configurations, File
<1>2. Defaulted(c) = [c EXCEPT !.settings = WithDefaults(c.settings)]
  BY DEF Defaulted
<1>3. QED
  BY <1>1, <1>2, DefaultsAre DEF Configurations, File

\* The settings of a loaded document are those with defaults, its tools those with
\* normalised schemas.
LEMMA LoadedIs ==
    ASSUME rendered \in Documents, Parses(rendered)
    PROVE  /\ Loaded \in Configurations
           /\ Loaded.settings = WithDefaults(Parsed(rendered.settings))
           /\ Loaded.tools = NormalTools(rendered.tools)
<1> DEFINE u == Unmarshal(rendered)
<1>1. u \in Configurations /\ u.settings = Parsed(rendered.settings) /\ u.tools = rendered.tools
  BY UnmarshalIs
<1> HIDE DEF u
<1>2. /\ Normalized(u) \in Configurations /\ Normalized(u).settings = u.settings
      /\ Normalized(u).tools = NormalTools(u.tools)
  BY <1>1, NormalizedIs
<1>3. /\ Defaulted(Normalized(u)) \in Configurations
      /\ Defaulted(Normalized(u)).settings = WithDefaults(Normalized(u).settings)
      /\ Defaulted(Normalized(u)).tools = Normalized(u).tools
  BY <1>2, DefaultedIs
<1>4. QED
  BY <1>1, <1>2, <1>3 DEF u, Loaded

\* The settings that are used, by what the document gives.
LEMMA SettingsAre ==
    ASSUME NEW d \in Documents, Parses(d),
           NEW s, s = WithDefaults(Parsed(d.settings))
    PROVE  /\ s["name"] = d.settings["name"]
           /\ s["port"] = DefaultPort(Numbers[d.settings["port"]])
           /\ s["path"] = Or(d.settings["path"], "/mcp")
           /\ s["shutdown_timeout"] = d.settings["shutdown_timeout"]
           /\ CacheEnabled(s) =>
                /\ s["ttl"] = Or(d.settings["ttl"], "1h")
                /\ s["max"] = IF Numbers[d.settings["max"]] = 0 THEN 1000 ELSE Numbers[d.settings["max"]]
<1> DEFINE p == Parsed(d.settings)
<1>1. d.settings \in [Settings -> Texts]
  BY DEF Documents, File
<1>2. p \in [Settings -> Texts \cup Int]
  BY UnmarshalIs DEF Configurations, File
<1>3. /\ p["port"] = Numbers[d.settings["port"]] /\ p["max"] = Numbers[d.settings["max"]]
      /\ \A k \in Settings \ {"port", "max"} : p[k] = d.settings[k]
  BY <1>1 DEF Parsed, Settings
<1> HIDE DEF p
<1>4. s = WithDefaults(p)
  BY DEF p
<1>5. CacheEnabled(s) => CacheEnabled(p)
  BY <1>2, <1>4, DefaultsAre DEF CacheEnabled
<1>6. QED
  BY <1>2, <1>3, <1>4, <1>5, DefaultsAre DEF Settings

-----------------------------------------------------------------------------
(* The invariant.                                                          *)

\* What the template is rendered to.
Rendering == IF RenderFails THEN Empty ELSE Document

Inputs ==
    /\ template \in Templates /\ embedded \in BOOLEAN
    /\ x \in EnvValues \cup {None} /\ shutdown \in ShutdownValues \cup {None}

Stages ==
    /\ stage \in {"start", "rendered", "parse", "setup", "serving", "exited"}
    /\ stage \in {"start", "rendered", "parse"} => Unsettled
    /\ err \in BOOLEAN

EnvRead == stage \in {"rendered", "parse", "setup", "serving"} => shutdown = None \/ shutdown \in DOMAIN Durations
AsRendered == stage \in {"rendered", "parse", "setup", "serving"} => rendered = Rendering
AsLoaded == stage \in {"setup", "serving"} => Loads /\ cfg = Loaded
AsTakenOver == stage = "serving" => running = Adopted

IInv == Inputs /\ Stages /\ EnvRead /\ AsRendered /\ AsLoaded /\ AsTakenOver

LEMMA InitIInv == Init => IInv
BY DEF Init, IInv, Inputs, Stages, EnvRead, AsRendered, AsLoaded, AsTakenOver, Unsettled

\* The template and the variables stay what they are, and with them the rendering.
LEMMA RenderingStays == UNCHANGED inputs => Rendering' = Rendering
<1> SUFFICES ASSUME UNCHANGED inputs PROVE Rendering' = Rendering
  OBVIOUS
<1>1. template' = template /\ x' = x
  BY DEF inputs
<1>2. RenderFails' = RenderFails /\ Empty' = Empty
  BY <1>1 DEF RenderFails, MissingX, Expressions, Empty
<1>3. Document' = Document
  BY <1>1 DEF Document, Value
<1>4. QED
  BY <1>2, <1>3 DEF Rendering

\* What is taken over depends on the configuration and the environment.
LEMMA AdoptedStays == UNCHANGED <<shutdown, cfg>> => Adopted' = Adopted
BY DEF Adopted, ShutdownTimeout

LEMMA NextIInv == IInv /\ [Next]_vars => IInv'
<1> SUFFICES ASSUME IInv, [Next]_vars PROVE IInv'
  OBVIOUS
<1> USE DEF IInv
<1>1. UNCHANGED inputs
  BY DEF Next, vars, BadEnv, Render, RenderFailed, Rendered, Load, LoadFailed, Setup, Terminated, Exit, inputs
<1>2. Inputs' /\ Rendering' = Rendering
  BY <1>1, RenderingStays DEF Inputs, inputs
<1>3. ASSUME Exit PROVE IInv'
  BY <1>2, <1>3 DEF Exit, Stages, EnvRead, AsRendered, AsLoaded, AsTakenOver
<1>4. CASE Render
  <2>1. rendered' = Rendering /\ err' \in BOOLEAN
    BY <1>4 DEF Render, RenderEmbedded, RenderFile, Rendering, RenderFails, MissingX, Stages
  <2>2. QED
    BY <1>1, <1>2, <1>4, <2>1 DEF Render, inputs, Stages, Unsettled, EnvRead, AsRendered, AsLoaded, AsTakenOver
<1>5. CASE Rendered
  BY <1>1, <1>2, <1>5 DEF Rendered, inputs, Stages, Unsettled, EnvRead, AsRendered, AsLoaded, AsTakenOver
<1>6. CASE Load
  <2>1. Loads' = Loads /\ Loaded' = Loaded
    BY <1>6 DEF Load, Loads, Loaded
  <2>2. QED
    BY <1>1, <1>2, <1>6, <2>1 DEF Load, inputs, Stages, EnvRead, AsRendered, AsLoaded, AsTakenOver
<1>7. CASE Setup
  <2>1. Loads' = Loads /\ Loaded' = Loaded /\ Adopted' = Adopted
    BY <1>1, <1>7, AdoptedStays DEF Setup, Loads, Loaded, inputs
  <2>2. QED
    BY <1>1, <1>2, <1>7, <2>1 DEF Setup, inputs, Stages, EnvRead, AsRendered, AsLoaded, AsTakenOver
<1>8. CASE UNCHANGED vars
  <2>1. Loads' = Loads /\ Loaded' = Loaded /\ Adopted' = Adopted
    BY <1>8, AdoptedStays DEF vars, Loads, Loaded, inputs
  <2>2. QED
    BY <1>2, <1>8, <2>1 DEF vars, inputs, Stages, Unsettled, EnvRead, AsRendered, AsLoaded, AsTakenOver
<1>9. QED
  BY <1>3, <1>4, <1>5, <1>6, <1>7, <1>8 DEF Next, BadEnv, RenderFailed, LoadFailed, Terminated

LEMMA Invariance == Spec => []IInv
BY InitIInv, NextIInv, PTL DEF Spec

-----------------------------------------------------------------------------
(* The theorems. Once main has loaded a configuration, the document is of  *)
(* the documents' shape, parsed and was found valid.                       *)

LEMMA ServingLoaded ==
    ASSUME IInv, Serving
    PROVE  /\ rendered \in Documents /\ rendered = Rendering /\ Loads
           /\ cfg = Loaded /\ running = Adopted
<1>1. rendered = Rendering /\ Loads /\ cfg = Loaded /\ running = Adopted
  BY DEF IInv, Serving, AsRendered, AsLoaded, AsTakenOver
<1>2. Rendering \in Documents
  BY EmptyIsDocument, DocumentIs DEF Rendering, IInv, Inputs
<1>3. QED
  BY <1>1, <1>2

\* The settings of a serving process, as validated.
LEMMA ServingSettings ==
    ASSUME IInv, Serving
    PROVE  /\ cfg \in Configurations
           /\ cfg.settings = WithDefaults(Parsed(rendered.settings))
           /\ cfg.tools = NormalTools(rendered.tools)
           /\ ValidServer(cfg) /\ (\A t \in Range(cfg.tools) : ValidTool(cfg, t))
           /\ \A k \in {"approval_webhook_url", "executor_webhook_url"} :
                Given(cfg.settings[k]) => cfg.settings[k] = "url"
<1>1. rendered \in Documents /\ Parses(rendered) /\ Valid(cfg) /\ cfg = Loaded
  BY ServingLoaded DEF Loads
<1>2. QED
  BY <1>1, LoadedIs DEF Valid

\* The state is what main, the environment and the configuration can make it; a
\* running process has a configuration and a port that can be listened on.
THEOREM TypesOfConfig == Spec => []TypeOK
<1>1. IInv => TypeOK
  <2> SUFFICES ASSUME IInv PROVE TypeOK
    OBVIOUS
  <2>1. ASSUME Serving PROVE cfg # None /\ running.port \in 1..MaxPort
    <3>1. cfg # None
      BY <2>1, ServingSettings, NoneAssumption DEF Configurations
    <3>2. running.port = cfg.settings["port"]
      BY <2>1, ServingLoaded DEF Adopted
    <3>3. ValidPort(cfg.settings["port"])
      BY <2>1, ServingSettings DEF ValidServer
    <3>4. QED
      BY <3>1, <3>2, <3>3 DEF ValidPort
  <2>2. Inputs /\ Stages
    BY DEF IInv
  <2>3. QED
    BY <2>1, <2>2 DEF Inputs, Stages, Serving, TypeOK
<1>2. QED
  BY <1>1, Invariance, PTL

\* No server runs on a document it failed to render (ServesWhatItRead): what is
\* left of an embedded template then has no name, and Validate refuses it.
THEOREM RenderingSucceeded == Spec => []ServesWhatItRead
<1>1. IInv => ServesWhatItRead
  <2> SUFFICES ASSUME IInv, Serving PROVE ~MissingX /\ rendered = Document
    BY DEF ServesWhatItRead
  <2>1. rendered = Rendering /\ rendered \in Documents /\ Parses(rendered)
    BY ServingLoaded DEF Loads
  <2>2. cfg.settings["name"] = rendered.settings["name"] /\ cfg.settings["name"] # Unset
    BY <2>1, ServingSettings, SettingsAre DEF ValidServer
  <2>3. ~RenderFails
    BY <2>1, <2>2, EmptyIsDocument DEF Rendering, IInv, Inputs, Settings
  <2>4. QED
    BY <2>1, <2>3 DEF Rendering, RenderFails
<1>2. QED
  BY <1>1, Invariance, PTL

\* The path, the port and the cache's settings that the document gives are those that are used, and so is a
\* shutdown timeout that only the environment, or beside a zero there only the document, gives (GivenIsKept).
THEOREM GivenSettingsAreUsed == Spec => []GivenIsKept
<1>1. ASSUME IInv, Serving
      PROVE  /\ rendered.settings["path"] # Unset => running.path = rendered.settings["path"]
             /\ Numbers[rendered.settings["port"]] # 0 => running.port = Numbers[rendered.settings["port"]]
  <2>1. rendered \in Documents /\ Parses(rendered) /\ running = Adopted
    BY <1>1, ServingLoaded DEF Loads
  <2>2. running.path = cfg.settings["path"] /\ running.port = cfg.settings["port"]
    BY <2>1 DEF Adopted
  <2>3. /\ cfg.settings["path"] = Or(rendered.settings["path"], "/mcp")
        /\ cfg.settings["port"] = DefaultPort(Numbers[rendered.settings["port"]])
    BY <1>1, <2>1, ServingSettings, SettingsAre
  <2>4. QED
    BY <2>2, <2>3 DEF Or, DefaultPort
<1>2. ASSUME IInv, Serving
      PROVE  /\ shutdown \notin {None, "0s"} /\ ~FileGivesShutdown => running.shutdown = Durations[shutdown]
             /\ shutdown = "0s" /\ FileGivesShutdown => running.shutdown = FileShutdown
  <2>1. rendered \in Documents /\ Parses(rendered) /\ running = Adopted
    BY <1>2, ServingLoaded DEF Loads
  <2>2. running.shutdown = ShutdownTimeout
    BY <2>1 DEF Adopted
  <2>3. cfg.settings["shutdown_timeout"] = rendered.settings["shutdown_timeout"]
    BY <1>2, <2>1, ServingSettings, SettingsAre
  <2>4. shutdown = None \/ shutdown \in DOMAIN Durations
    BY <1>2 DEF IInv, EnvRead, Serving
  <2>5. "0s" \in DOMAIN Durations /\ \A t \in DOMAIN Durations : Durations[t] = 0 <=> t = "0s"
    BY DEF Durations
  <2>6. QED
    BY <2>2, <2>3, <2>4, <2>5 DEF ShutdownTimeout, DurationOr, FileGivesShutdown, FileShutdown
<1>3. ASSUME IInv, Serving, running.cache # None
      PROVE  /\ LET ttl == rendered.settings["ttl"] IN
                  ttl \in DOMAIN Durations /\ Durations[ttl] # 0 => running.cache.ttl = Durations[ttl]
             /\ Numbers[rendered.settings["max"]] # 0 => running.cache.max = Numbers[rendered.settings["max"]]
             /\ Lower(Trim(running.strategy)) \in Strategies
  <2> DEFINE s == cfg.settings
             ttl == rendered.settings["ttl"]
             max == Numbers[rendered.settings["max"]]
  <2>1. rendered \in Documents /\ Parses(rendered) /\ running = Adopted
    BY <1>3, ServingLoaded DEF Loads
  <2>2. CacheEnabled(s) /\ running.cache = NewCache(Durations[s["ttl"]], s["max"]) /\ running.strategy = s["strategy"]
    BY <1>3, <2>1 DEF Adopted
  <2>3. s["ttl"] = Or(ttl, "1h") /\ s["max"] = IF max = 0 THEN 1000 ELSE max
    BY <1>3, <2>1, <2>2, ServingSettings, SettingsAre
  <2>4. s["max"] >= 0 /\ Lower(Trim(s["strategy"])) \in Strategies
    BY <1>3, <2>2, ServingSettings DEF ValidServer
  <2> HIDE DEF s, ttl, max
  <2>5. max # 0 => running.cache.max = max
    <3>1. max \in Int
      BY <2>1, NumbersAreInts DEF Parses, max
    <3>2. QED
      BY <2>2, <2>3, <2>4, <3>1 DEF NewCache
  <2>6. ttl \in DOMAIN Durations /\ Durations[ttl] # 0 => running.cache.ttl = Durations[ttl]
    <3>1. \A t \in DOMAIN Durations : Durations[t] \in Nat
      BY DEF Durations
    <3>2. Unset \notin DOMAIN Durations
      BY Zenon DEF Durations, Unset
    <3>3. QED
      BY <2>2, <2>3, <3>1, <3>2 DEF NewCache, Or
  <2>7. QED
    BY <2>2, <2>4, <2>5, <2>6 DEF ttl, max
<1>4. IInv => GivenIsKept
  BY <1>1, <1>2, <1>3 DEF GivenIsKept
<1>5. QED
  BY <1>4, Invariance, PTL

\* Clients can be sent every tool's schema (SchemasEncodable): no map of a YAML
\* type is left at any depth, in lists or out of them.
THEOREM SchemasAreEncodable == Spec => []SchemasEncodable
<1>1. \A v : Encodable(normalizeValue(v))
  BY DEF Encodable, normalizeValue
<1>2. IInv => SchemasEncodable
  <2> SUFFICES ASSUME IInv, Serving, NEW i \in DOMAIN cfg.tools
               PROVE  Encodable(cfg.tools[i].schema)
    BY DEF SchemasEncodable, Range
  <2>1. rendered \in Documents /\ cfg.tools = NormalTools(rendered.tools)
    BY ServingLoaded, ServingSettings
  <2>2. i \in DOMAIN rendered.tools /\ cfg.tools[i] = NormalTool(rendered.tools[i]) /\ rendered.tools[i] \in Tool
    BY <2>1 DEF NormalTools, Documents, File
  <2>3. QED
    BY <1>1, <2>2, NormalToolIs
<1>3. QED
  BY <1>2, Invariance, PTL

\* Every async executor and approver has a callback URL that can be called, and
\* a server that listens for HTTP (AsyncIsServed): the two were checked together.
THEOREM AsyncToolsAreServed == Spec => []AsyncIsServed
<1>1. IInv => AsyncIsServed
  <2> SUFFICES ASSUME IInv, Serving, NEW i \in DOMAIN cfg.tools, NEW urls \in AsyncCallbacks(cfg.tools[i])
               PROVE  /\ running.mode = "http"
                      /\ (IF Trim(urls[1]) # Unset THEN urls[1] ELSE urls[2]) = "url"
    BY DEF AsyncIsServed, Range
  <2> DEFINE t == cfg.tools[i]
  <2>1. running = Adopted /\ rendered \in Documents
    BY ServingLoaded
  <2>2. ValidTool(cfg, t)
    BY ServingSettings DEF Range
  <2>3. t \in Tool
    <3>1. cfg.tools \in Seq(Tool)
      BY ServingSettings DEF Configurations, File
    <3>2. QED
      BY <3>1
  <2>4. urls \in AsyncCallbacks(t)
    OBVIOUS
  <2>5. \A k \in {"approval_webhook_url", "executor_webhook_url"} : Given(cfg.settings[k]) => cfg.settings[k] = "url"
    BY ServingSettings
  <2> HIDE DEF t
  <2>6. PICK own \in Texts, server \in {"approval_webhook_url", "executor_webhook_url"} :
            /\ urls = <<own, cfg.settings[server]>> /\ ValidAsync(cfg, own, server) /\ (Given(own) => own = "url")
    <3>1. ASSUME t.type = "http", t.async, urls = <<t.webhook, cfg.settings["executor_webhook_url"]>>
          PROVE  ValidAsync(cfg, t.webhook, "executor_webhook_url") /\ (Given(t.webhook) => t.webhook = "url")
      BY <2>2, <3>1 DEF ValidTool
    <3>2. ASSUME NEW a \in Range(t.approvers), a.type = "http", a.async
          PROVE  ValidAsync(cfg, a.webhook, "approval_webhook_url") /\ (Given(a.webhook) => a.webhook = "url")
      BY <2>2, <3>2 DEF ValidTool
    <3>3. t.webhook \in Texts /\ \A a \in Range(t.approvers) : a.webhook \in Texts
      <4>1. t.webhook \in Texts /\ t.approvers \in Seq(Approver)
        BY <2>3 DEF Tool
      <4>2. \A j \in DOMAIN t.approvers : t.approvers[j] \in Approver
        BY <4>1
      <4>3. \A a \in Approver : a.webhook \in Texts
        BY DEF Approver
      <4>4. QED
        BY <4>1, <4>2, <4>3 DEF Range
    <3>4. \/ t.type = "http" /\ t.async /\ urls = <<t.webhook, cfg.settings["executor_webhook_url"]>>
          \/ \E a \in Range(t.approvers) :
                a.type = "http" /\ a.async /\ urls = <<a.webhook, cfg.settings["approval_webhook_url"]>>
      BY <2>4 DEF AsyncCallbacks
    <3>5. QED
      BY <3>1, <3>2, <3>3, <3>4
  <2>7. running.mode = "http"
    <3>1. cfg.settings["transport"] # "stdio"
      BY <2>6 DEF ValidAsync, Lower
    <3>2. QED
      BY <2>1, <3>1 DEF Adopted
  <2>8. (IF Trim(own) # Unset THEN own ELSE cfg.settings[server]) = "url"
    BY <2>5, <2>6 DEF ValidAsync, Given, Blank
  <2>9. QED
    BY <2>6, <2>7, <2>8
<1>2. QED
  BY <1>1, Invariance, PTL

-----------------------------------------------------------------------------
(* The process that Server describes loads its configuration in one step.  *)
(* This module's steps implement it: what is loaded here is, reduced to    *)
(* what Server looks at, a configuration with which Server goes on.        *)

CONSTANTS Hooks, MaxRequests

\* The type of an executor or approver, in the one spelling that is modelled here.
TypeName(t) == [name |-> t, form |-> "exact"]

\* Only blank texts are no URL; what the parts of the others are makes no difference.
NoURL == [host |-> Unset, path |-> Unset]
URL(t) == IF Given(t) THEN [host |-> t, path |-> t] ELSE NoURL

Part(p) == [type |-> TypeName(p.type), async |-> p.async, webhook |-> URL(p.webhook)]

ReducedTool(t) == [executor |-> Part(t), approvers |-> [i \in DOMAIN t.approvers |-> Part(t.approvers[i])]]

Reduced(c) ==
    [transport |-> c.settings["transport"],
     approvalURL |-> URL(c.settings["approval_webhook_url"]),
     executorURL |-> URL(c.settings["executor_webhook_url"]),
     tools |-> [i \in DOMAIN c.tools |-> ReducedTool(c.tools[i])]]

Nothing == [transport |-> Unset, approvalURL |-> NoURL, executorURL |-> NoURL, tools |-> <<>>]

\* What main was started with, as Server has it: what the template is loaded as, if
\* it is YAML of the right types at all.
Started ==
    IF Parses(Rendering) THEN Reduced(Defaulted(Normalized(Unmarshal(Rendering)))) ELSE Nothing

\* Reading the environment, rendering and loading are Server's load.
ServerStage ==
    CASE stage \in {"start", "rendered", "parse"} -> "load"
      [] stage \in {"setup", "serving"} -> "build"
      [] OTHER -> "exited"

Process ==
    INSTANCE Server
    WITH Configs <- {Reduced(c) : c \in Configurations} \cup {Nothing},
         cfg <- Started, stage <- ServerStage, hook <- 0, running <- FALSE,
         exit <- IF stage = "exited" THEN "error" ELSE "none",
         signaled <- FALSE, baseDone <- FALSE, routes <- [p \in {} |-> None],
         listener <- "off", closing <- FALSE, ready <- FALSE, inflight <- 0, drain <- "off"

\* Where a callback goes to is decided alike in both.
LEMMA CallbackIsGiven ==
    ASSUME NEW c, NEW own, NEW server, ValidAsync(c, own, server)
    PROVE  /\ Process!CallbackURL(URL(own), URL(c.settings[server])) # NoURL
           /\ c.settings["transport"] # "stdio"
<1>1. c.settings["transport"] # "stdio"
  BY DEF ValidAsync, Lower
<1>2. \A t : Given(t) => URL(t) # NoURL
  BY DEF URL, NoURL, Given, Blank, Trim, Unset
<1>3. QED
  BY <1>1, <1>2 DEF ValidAsync, Process!CallbackURL

\* What Validate accepts is, reduced, what Server accepts.
LEMMA AcceptedByBoth ==
    ASSUME NEW c \in Configurations, \A t \in Range(c.tools) : ValidTool(c, t), Started = Reduced(c)
    PROVE  Process!Valid
<1>1. /\ Started.transport = c.settings["transport"]
      /\ Started.approvalURL = URL(c.settings["approval_webhook_url"])
      /\ Started.executorURL = URL(c.settings["executor_webhook_url"])
      /\ Started.tools = [i \in DOMAIN c.tools |-> ReducedTool(c.tools[i])]
  BY DEF Reduced
<1>2. SUFFICES ASSUME NEW r \in Process!Tools
               PROVE  /\ Process!TrimsToHTTP(r.executor.type) /\ r.executor.async =>
                           /\ Process!CallbackURL(r.executor.webhook, Started.executorURL) # NoURL
                           /\ Started.transport # "stdio"
                      /\ \A a \in Process!AsyncApprovers(r) :
                           /\ Process!CallbackURL(a.webhook, Started.approvalURL) # NoURL
                           /\ Started.transport # "stdio"
  BY DEF Process!Valid
<1>3. PICK i \in DOMAIN c.tools : r = ReducedTool(c.tools[i])
  BY <1>1 DEF Process!Tools
<1> DEFINE t == c.tools[i]
<1>4. ValidTool(c, t)
  BY DEF Range
<1>5. r.executor = Part(t) /\ r.approvers = [j \in DOMAIN t.approvers |-> Part(t.approvers[j])]
  BY <1>3 DEF ReducedTool
<1> HIDE DEF t
<1>6. ASSUME Process!TrimsToHTTP(r.executor.type), r.executor.async
      PROVE  ValidAsync(c, t.webhook, "executor_webhook_url") /\ r.executor.webhook = URL(t.webhook)
  BY <1>4, <1>5, <1>6 DEF Part, TypeName, Process!TrimsToHTTP, ValidTool
<1>7. ASSUME NEW a \in Process!AsyncApprovers(r)
      PROVE  \E b \in Range(t.approvers) : ValidAsync(c, b.webhook, "approval_webhook_url") /\ a.webhook = URL(b.webhook)
  <2>1. PICK j \in DOMAIN t.approvers : a = Part(t.approvers[j])
    BY <1>5 DEF Process!AsyncApprovers, Process!ToSet
  <2>2. a.type.name = "http" /\ a.async
    BY DEF Process!AsyncApprovers, Process!FoldsToHTTP
  <2>3. t.approvers[j] \in Range(t.approvers) /\ t.approvers[j].type = "http" /\ t.approvers[j].async
    BY <2>1, <2>2 DEF Part, TypeName, Range
  <2>4. a.webhook = URL(t.approvers[j].webhook)
    BY <2>1 DEF Part
  <2>5. QED
    BY <1>4, <2>3, <2>4 DEF ValidTool
<1>8. QED
  BY <1>1, <1>6, <1>7, CallbackIsGiven

\* Server's configuration is one of its configurations, and stays.
LEMMA StartedIs ==
    ASSUME Inputs
    PROVE  Started \in {Reduced(c) : c \in Configurations} \cup {Nothing}
<1>1. Rendering \in Documents
  BY EmptyIsDocument, DocumentIs DEF Rendering, Inputs
<1>2. ASSUME Parses(Rendering)
      PROVE  Defaulted(Normalized(Unmarshal(Rendering))) \in Configurations
  BY <1>1, <1>2, UnmarshalIs, NormalizedIs, DefaultedIs
<1>3. QED
  BY <1>2 DEF Started

\* Every step of the load is a step of Server's, or none: this module says which
\* configurations Server's process comes to build with, and adds no behaviour to it.
THEOREM LoadImplementsServer == Spec => Process!ServerSpec
<1>1. Init => Process!ServerInit
  <2> SUFFICES ASSUME Init PROVE Process!ServerInit
    OBVIOUS
  <2>1. Inputs /\ stage = "start"
    BY DEF Init, Inputs
  <2>2. QED
    BY <2>1, StartedIs DEF Process!ServerInit, ServerStage
<1>2. IInv /\ [Next]_vars => [Process!ServerNext]_(Process!serverVars)
  <2> SUFFICES ASSUME IInv, [Next]_vars
               PROVE  Process!ServerNext \/ UNCHANGED Process!serverVars
    OBVIOUS
  <2>1. UNCHANGED inputs
    BY DEF Next, vars, BadEnv, Render, RenderFailed, Rendered, Load, LoadFailed, Setup, Terminated, Exit, inputs
  <2>2. Started' = Started
    <3>1. Rendering' = Rendering
      BY <2>1, RenderingStays
    <3>2. QED
      BY <3>1 DEF Started
  <2> DEFINE status == IF stage = "exited" THEN "error" ELSE "none"
  <2>3. ASSUME ServerStage' = ServerStage, status' = status
        PROVE  UNCHANGED Process!serverVars
    BY <2>2, <2>3 DEF Process!serverVars, Process!mainVars, Process!signalVars, Process!appVars
  <2>4. ASSUME stage \in {"start", "rendered", "parse"}, Exit
        PROVE  Process!Load
    BY <2>2, <2>4 DEF Exit, ServerStage, Process!Load, Process!Exit, Process!signalVars, Process!appVars
  <2>5. CASE Load
    <3>1. rendered = Rendering /\ rendered \in Documents /\ Loads
      BY <2>5, EmptyIsDocument, DocumentIs DEF Load, IInv, AsRendered, Inputs, Rendering
    <3>2. Started = Reduced(Loaded) /\ Loaded \in Configurations /\ \A t \in Range(Loaded.tools) : ValidTool(Loaded, t)
      BY <3>1, LoadedIs DEF Started, Loaded, Loads, Valid
    <3>3. Process!Valid
      BY <3>2, AcceptedByBoth
    <3>4. Process!Load
      BY <2>2, <2>5, <3>3 DEF Load, ServerStage, Process!Load, Process!Exit, Process!signalVars, Process!appVars
    <3>5. QED
      BY <3>4 DEF Process!ServerNext, Process!MainStep
  <2>6. CASE BadEnv \/ RenderFailed \/ LoadFailed
    BY <2>4, <2>6 DEF BadEnv, RenderFailed, LoadFailed, Process!ServerNext, Process!MainStep
  <2>7. CASE Render \/ Rendered \/ Setup
    BY <2>3, <2>7 DEF Render, Rendered, Setup, ServerStage
  <2>8. CASE Terminated \/ UNCHANGED vars
    BY <2>3, <2>8 DEF Terminated, vars, ServerStage
  <2>9. QED
    BY <2>5, <2>6, <2>7, <2>8 DEF Next
<1>3. QED
  BY <1>1, <1>2, Invariance, PTL DEF Spec, Process!ServerSpec
=============================================================================
