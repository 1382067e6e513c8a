------------------------------ MODULE CallKeys ------------------------------
(***************************************************************************)
(* Under which key the response of a call is cached, of its id and of its  *)
(* arguments as a whole: what the tool handler needs to know of            *)
(* buildCacheKey. CacheKey has how a key is made, and CacheKeyProofs that  *)
(* it tells the same calls apart. Ids are not blank, and no id is like the *)
(* arguments of a call.                                                    *)
(***************************************************************************)

CONSTANTS
    ToolOf,     \* the tool of each call
    IdOf,       \* its correlation id, generated when the call gives none
    Provided,   \* the calls that give their id
    ArgsOf,     \* the arguments of a call without its id fields
    Strategy,   \* server.idempotency_cache.key_strategy, or "off"
    None

\* buildCacheKey; None when it fails or the cache is off.
CacheKey(c) ==
    CASE Strategy = "correlation_id" -> <<ToolOf[c], IdOf[c]>>
      [] Strategy = "arguments_hash" -> <<ToolOf[c], ArgsOf[c]>>
      [] Strategy = "auto" -> <<ToolOf[c], IF c \in Provided THEN IdOf[c] ELSE ArgsOf[c]>>
      [] OTHER -> None
=============================================================================
