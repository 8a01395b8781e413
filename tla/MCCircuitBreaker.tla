-------------------------- MODULE MCCircuitBreaker --------------------------
EXTENDS CircuitBreaker, TLC

CONSTANTS api, mcp, t1, t2

\* Two executor threads of one API instance share its breaker object, or an API
\* instance and the MCP server meet only in the Redis key.
MCDeployment == {t1 :> api @@ t2 :> api, t1 :> api @@ t2 :> mcp}
=============================================================================
