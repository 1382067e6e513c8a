----------------------------- MODULE MCServer -----------------------------
(* Instance of Server and HTTPExchange for TLC: configurations that serve, some *)
(* that must not, and one whose calls ask services in every way.                *)
EXTENDS ServedExchange

URL(h, p) == [host |-> h, path |-> p]
Type(n, f) == [name |-> n, form |-> f]
Executor(t, a, w) == [type |-> t, async |-> a, webhook |-> w]
Shell == Executor(Type("shell", "exact"), FALSE, NoURL)
Async(w) == Executor(Type("http", "exact"), TRUE, w)
Tool(e, as) == [executor |-> e, approvers |-> as]

Config(transport, approval, execution, tools) ==
    [transport |-> transport, approvalURL |-> approval, executorURL |-> execution, tools |-> tools]

ServerURLs(tools) == Config("http", URL("h", "/a"), URL("h", "/e"), tools)
AsyncApprover == Executor(Type("http", "exact"), TRUE, NoURL)
Limits == Executor(Type("limits", "exact"), FALSE, NoURL)

\* Servers over stdio and HTTP, with and without webhooks, with one route for
\* several tools and with a route of a tool's own.
Sound == {
    Config("stdio", NoURL, NoURL, <<Tool(Shell, <<Limits>>)>>),
    Config("http", NoURL, NoURL, <<Tool(Shell, <<>>)>>),
    ServerURLs(<<Tool(Async(NoURL), <<AsyncApprover>>), Tool(Shell, <<Limits, AsyncApprover>>)>>),
    ServerURLs(<<Tool(Async(URL("h", "/own")), <<>>), Tool(Async(NoURL), <<>>)>>),
    Config("http", NoURL, NoURL,
        <<Tool(Executor(Type("http", "case"), TRUE, URL("h", "/own")), <<>>)>>)}

\* Async over stdio, no URL, an approver type in capitals or with spaces, two
\* routes on one path, a route on the MCP path.
Refused == {
    Config("stdio", NoURL, URL("h", "/e"), <<Tool(Async(NoURL), <<>>)>>),
    Config("http", NoURL, NoURL, <<Tool(Async(NoURL), <<>>)>>),
    Config("http", NoURL, URL("h", "/e"), <<Tool(Shell, <<AsyncApprover>>)>>),
    ServerURLs(<<Tool(Shell, <<Executor(Type("http", "case"), TRUE, NoURL)>>)>>),
    ServerURLs(<<Tool(Shell, <<Executor(Type("http", "spaces"), TRUE, NoURL)>>)>>),
    ServerURLs(<<Tool(Async(URL("other", "/e")), <<>>)>>),
    ServerURLs(<<Tool(Async(URL("h", "/a")), <<>>)>>),
    Config("http", NoURL, NoURL, <<Tool(Async(URL("h", "/mcp")), <<>>)>>)}

\* The URL only in the approver's webhook_url: accepted, with no route for it.
Unrouted == {
    Config("http", NoURL, NoURL,
        <<Tool(Shell, <<Executor(Type("http", "exact"), TRUE, URL("h", "/own"))>>)>>)}

\* An executor's type with spaces: accepted, its own URL without a route.
Spaced == {
    Config("http", NoURL, URL("h", "/e"),
        <<Tool(Executor(Type("http", "spaces"), TRUE, URL("h", "/own")), <<>>)>>)}

\* Approvers and executors of both kinds, answering in the response or later.
Mixed == ServerURLs(<<
    Tool(Async(NoURL), <<AsyncApprover>>),
    Tool(Executor(Type("http", "exact"), FALSE, NoURL), <<Executor(Type("http", "exact"), FALSE, NoURL)>>)>>)

MCAsking == {Mixed}
MCNoExchange == <<"approver", FALSE, [word |-> "deny", spelling |-> "plain", text |-> ""], "i">>

MCConfigs == {Mixed} \cup Sound \cup Refused \cup Unrouted \cup Spaced
===========================================================================
