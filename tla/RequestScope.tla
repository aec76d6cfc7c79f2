---------------------------- MODULE RequestScope ----------------------------
(***************************************************************************)
(* Whose request it is, and which rows it sees: API keys, the workspace    *)
(* middleware, the internal route's token and row-level security.  All of  *)
(* it is pure: a request and the table of keys determine the answer.       *)
(*                                                                         *)
(* A request is a record [bearer, header, internal]: the API key of its    *)
(* Authorization header, its X-Workspace-Id and its X-Internal-Token, each *)
(* of them None when it has none.                                          *)
(***************************************************************************)
EXTENDS Integers, FiniteSets

CONSTANTS
    Workspaces,     \* ids of workspaces
    None,           \* no header, no workspace
    Malformed,      \* a key or a workspace id that does not parse
    Production,     \* APP_ENV = "production"
    InternalToken   \* INTERNAL_API_TOKEN, None if it is empty

\* What app.workspace_id reads as when nothing has set it.
Unset == ""

ASSUME ScopeAssumption ==
    /\ Production \in BOOLEAN
    /\ {None, Malformed, Unset} \cap Workspaces = {}

\* A row of identity__api_keys; the hash of a secret is as good as the secret.
ApiKey == [workspace : Workspaces, prefix : Nat, secret : Nat, revoked : BOOLEAN]

\* ApiKeyToken: what the caller holds of a key.
Token == [prefix : Nat, secret : Nat]

\* ApiKey.issue, for the one workspace that resolve_workspace_id names.
Issue(keys, w) ==
    keys \cup {[workspace |-> w, prefix |-> Cardinality(keys) + 1,
                secret |-> Cardinality(keys) + 1, revoked |-> FALSE]}

\* ApiKey.accepts
Accepts(key, token) ==
    ~key.revoked /\ key.prefix = token.prefix /\ key.secret = token.secret

\* get_by_prefix, ApiKey.accepts: the workspaces (one or none) of a bearer key.
Resolve(keys, bearer) ==
    {key.workspace : key \in {k \in keys :
        bearer \notin {None, Malformed} /\ Accepts(k, bearer)}}

Reject(code) == [code |-> code, workspace |-> None]
Pass(workspace) == [code |-> 200, workspace |-> workspace]

\* WorkspaceContextMiddleware: a bearer key decides alone; the header counts
\* outside production only; a request with neither goes on without a workspace.
WorkspaceOf(keys, request) ==
    CASE request.bearer # None ->
            IF Resolve(keys, request.bearer) = {} THEN Reject(401)
            ELSE Pass(CHOOSE w \in Resolve(keys, request.bearer) : TRUE)
      [] request.bearer = None /\ request.header = None -> Pass(None)
      [] request.bearer = None /\ request.header # None /\ Production -> Reject(401)
      [] OTHER -> IF request.header = Malformed THEN Reject(400) ELSE Pass(request.header)

\* require_workspace, on the routes for users.
UserAnswer(keys, request) ==
    LET scope == WorkspaceOf(keys, request)
    IN  IF scope = Pass(None) THEN Reject(401) ELSE scope

\* create_app: the internal route is there only with a token and outside
\* production; require_internal_token.
InternalAnswer(keys, request) ==
    IF WorkspaceOf(keys, request).code # 200 THEN WorkspaceOf(keys, request)
    ELSE IF Production \/ InternalToken = None THEN Reject(404)
    ELSE IF request.internal # InternalToken THEN Reject(401)
    ELSE UserAnswer(keys, request)

-----------------------------------------------------------------------------
\* What app.workspace_id of a connection reads: set in this transaction, or
\* nothing, whether it never was or was set in one that has ended.
Settings == {Unset} \cup Workspaces

\* NULLIF(current_setting(...), ''): nothing is no error, and no workspace.
ScopeOf(setting) == IF setting \in Workspaces THEN {setting} ELSE {}

\* The policy workspace_isolation.
Visible(setting, workspace) == workspace \in ScopeOf(setting)
=============================================================================
