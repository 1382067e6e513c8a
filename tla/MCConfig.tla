----------------------------- MODULE MCConfig -----------------------------
(* Instance of Config for TLC: one good template, and templates that differ *)
(* from it in one setting, one tool or the resources.                       *)
EXTENDS Config

Text(t) == <<"text", t>>
Base ==
    [name |-> Text("s"), version |-> Text("1"), transport |-> Text("http"), host |-> Text("h"),
     port |-> Text("80"), path |-> Text(""), cache |-> Text("true"), ttl |-> Text("30s"),
     max |-> Text("80"), strategy |-> Text(""), shutdown_timeout |-> Text("30s"),
     approval_webhook_url |-> Text("url"), executor_webhook_url |-> Text("url")]

TextsOf(k) ==
    CASE k \in {"port", "max"} -> {"", "-1", "80", "65536", "soon"}
      [] k = "transport" -> {"", "stdio", "STDIO"}
      [] k = "strategy" -> {"", "Auto", " auto", "arguments_hash", "lru"}
      [] k \in {"ttl", "shutdown_timeout"} -> {"", "0s", "soon"}
      [] k \in {"approval_webhook_url", "executor_webhook_url"} -> {"", " ", "host", "url"}
      [] OTHER -> {"", " ", "80"}

ExpressionsOf(k) ==
    {<<f, t>> : f \in {"text", "envOr", "default"}, t \in TextsOf(k)} \cup {<<"env">>, <<"args">>}

A == <<<<"string", "a">>>>
AB == Append(A, <<"string", "b">>)
A1 == Append(A, <<"int", "1">>)
First == Append(A, <<"index", "1">>)
Second == Append(A, <<"index", "2">>)
FirstB == Append(First, <<"string", "b">>)
MCPaths == {<<>>, A, AB, A1, First, Second, FirstB}

\* A flat object, one with an object in it, alone or in a list, and a key that is no text.
Plain == (<<>> :> "map") @@ (A :> "scalar")
Nested == (<<>> :> "map") @@ (A :> "map[any]any") @@ (AB :> "scalar")
Numbered == (<<>> :> "map") @@ (A :> "map[any]any") @@ (A1 :> "scalar")
Listed == (<<>> :> "map") @@ (A :> "seq") @@ (First :> "map[any]any") @@ (FirstB :> "scalar") @@ (Second :> "scalar")

AnApprover(type, async, webhook) ==
    [type |-> type, async |-> async, webhook |-> webhook, markup |-> " "]
ATool(n, type, async, webhook, approvers, schema, spec) ==
    [name |-> n, type |-> type, url |-> "url", async |-> async, webhook |-> webhook,
     approvers |-> approvers, schema |-> schema, spec |-> spec]

Shell == ATool("shell", "shell", FALSE, "", <<>>, Plain, Plain)
HTTP == ATool("http", "http", TRUE, "", <<AnApprover("http", TRUE, ""), AnApprover("limits", FALSE, "")>>, Plain, Plain)
Own == ATool("own", "http", TRUE, "url", <<AnApprover("http", TRUE, "url")>>, Plain, Plain)
OddTools == {
    ATool("", "shell", FALSE, "", <<>>, Plain, Plain), ATool("a", "grpc", FALSE, "", <<>>, Plain, Plain),
    [HTTP EXCEPT !.url = ""], [HTTP EXCEPT !.url = "relative"], [HTTP EXCEPT !.webhook = "host"],
    [HTTP EXCEPT !.webhook = " "], ATool("a", "shell", FALSE, "", <<AnApprover(" ", FALSE, "")>>, Plain, Plain),
    ATool("a", "shell", FALSE, "", <<AnApprover("http", TRUE, "host")>>, Plain, Plain),
    ATool("a", "shell", FALSE, "", <<[AnApprover("http", TRUE, "") EXCEPT !.markup = "text"]>>, Plain, Plain)}
OddSchemas == {[HTTP EXCEPT !.schema = s, !.spec = p] : s \in {Nested, Listed, Numbered}, p \in {Plain, Nested}}

Template(settings, tools) ==
    [settings |-> settings, known |-> TRUE, hooks |-> <<"c">>, tools |-> tools, resources |-> <<"r", "s">>]

OneSetting ==
    {Template([Base EXCEPT ![k] = e], tools) :
        <<k, e>> \in UNION {{k} \X ExpressionsOf(k) : k \in DOMAIN Base},
        tools \in {<<>>, <<Shell, HTTP>>, <<Own>>}}

MCTemplates ==
    OneSetting
    \cup {Template(Base, <<Shell, t>>) : t \in OddTools \cup OddSchemas \cup {Shell, HTTP}}
    \cup {[Template(Base, <<Own>>) EXCEPT !.known = FALSE],
          [Template(Base, <<Own>>) EXCEPT !.hooks = <<"c", " ">>],
          [Template(Base, <<Own>>) EXCEPT !.resources = <<"r", "r">>],
          [Template(Base, <<Own>>) EXCEPT !.resources = <<"r", "">>]}

MCTexts == {"", " ", "-1", "0s", "1", "10s", "1h", "30s", "80", "65536", "soon", "/mcp", "http", "stdio", "STDIO",
            "auto", " auto", "Auto", "arguments_hash", "lru", "host", "url", "relative", "true", "text", "markdown",
            "shell", "grpc", "limits", "own", "a", "c", "h", "r", "s"}

MCEnvValues == {"", " ", "80", "url", "stdio", "0s"}
===========================================================================
