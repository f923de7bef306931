----------------------------- MODULE OneClawClient -----------------------------
(***************************************************************************)
(* Secret reads through 1Claw (mercury/custody/oneclaw.py): the HTTP       *)
(* client with its cached agent token, the SecretStore around it, and the  *)
(* wallet signer's key lookup on top.                                      *)
(*                                                                         *)
(* One client is shared by all threads of the process (the Juno runner     *)
(* executes turns on worker threads), and its two token attributes are     *)
(* read and written without a lock.  Every read or write of an attribute   *)
(* and every HTTP exchange is a step of the reading thread.                *)
(***************************************************************************)
EXTENDS Integers, Sequences, FiniteSets

CONSTANTS
    Readers,        \* threads, one read each
    Vault,          \* environment: what 1Claw holds, a function on paths
    AgentIds,       \* settings.oneclaw_agent_id: "agent", or None for the legacy call
    MaxTokens,      \* bound on the tokens 1Claw issues
    MaxExpiries,    \* bound on the tokens that expire
    Faults,         \* {"auth", "get"}: the exchanges that may fail in transport
    None

Paths == DOMAIN Vault

\* How 1Claw answers an authorised read of a path: with a private key, a text
\* that is none, a blank one, a reply without a value, or an error.
Answers == {"value", "other_text", "blank", "malformed", "absent", "forbidden"}

Tokens == 1..MaxTokens

ASSUME OneClawAssumption ==
    /\ IsFiniteSet(Readers)
    /\ None \notin Tokens
    /\ Vault \in [Paths -> Answers]
    /\ AgentIds \subseteq {"agent", None}
    /\ MaxTokens \in Nat \ {0} /\ MaxExpiries \in Nat
    /\ Faults \subseteq {"auth", "get"}

VARIABLES
    agent_id,               \* agent_id of the OneClawSecretStore
    path,                   \* path[t]: the secret thread t reads
    pc,
    _access_token,          \* the client's two attributes
    _access_token_agent,
    fetched,                \* fetched[t]: the local variable token of _fetch_access_token
    bearer,                 \* bearer[t]: the local variable bearer of _get_secret_hosted
    attempt,                \* attempt[t]: first or second GET
    result,                 \* result[t]: value returned or exception raised
    issued,                 \* environment: number of tokens issued
    valid,                  \* environment: tokens 1Claw accepts
    refused                 \* history: refused[t], bearers answered with 401

client == <<_access_token, _access_token_agent>>
locals == <<pc, fetched, bearer, attempt, result, refused>>
vars == <<agent_id, path, client, locals, issued, valid>>

Init ==
    /\ agent_id \in AgentIds
    /\ path \in [Readers -> Paths]
    /\ pc = [t \in Readers |-> "get_secret"]
    /\ _access_token = None
    /\ _access_token_agent = None
    /\ fetched = [t \in Readers |-> None]
    /\ bearer = [t \in Readers |-> None]
    /\ attempt = [t \in Readers |-> 1]
    /\ result = [t \in Readers |-> None]
    /\ issued = 0
    /\ valid = {}
    /\ refused = [t \in Readers |-> <<>>]

At(t, label) == pc[t] = label
Goto(t, label) == pc' = [pc EXCEPT ![t] = label]
Return(t, value) == Goto(t, "done") /\ result' = [result EXCEPT ![t] = value]

-----------------------------------------------------------------------------
(* The client.                                                             *)

get_secret(t) ==
    /\ At(t, "get_secret")
    /\ Goto(t, IF agent_id = None THEN "legacy" ELSE "test_token")
    /\ UNCHANGED <<agent_id, path, client, fetched, bearer, attempt, result, refused,
                   issued, valid>>

\* _bearer_for_agent: the token is tested, then its agent, then the token is
\* read again for the return value.
test_token(t) ==
    /\ At(t, "test_token")
    /\ Goto(t, IF _access_token # None THEN "test_agent" ELSE "fetch")
    /\ UNCHANGED <<agent_id, path, client, fetched, bearer, attempt, result, refused,
                   issued, valid>>

test_agent(t) ==
    /\ At(t, "test_agent")
    /\ Goto(t, IF _access_token_agent = agent_id THEN "return_token" ELSE "fetch")
    /\ UNCHANGED <<agent_id, path, client, fetched, bearer, attempt, result, refused,
                   issued, valid>>

\* The last line of _bearer_for_agent and of _fetch_access_token.
return_token(t) ==
    /\ At(t, "return_token")
    /\ bearer' = [bearer EXCEPT ![t] = _access_token]
    /\ Goto(t, "http_get")
    /\ UNCHANGED <<agent_id, path, client, fetched, attempt, result, refused, issued, valid>>

\* _fetch_access_token: POST /v1/auth/agent-token.
fetch(t) ==
    /\ At(t, "fetch")
    /\ \/ /\ issued < MaxTokens
          /\ issued' = issued + 1
          /\ valid' = valid \cup {issued + 1}
          /\ fetched' = [fetched EXCEPT ![t] = issued + 1]
          /\ Goto(t, "store_token")
          /\ UNCHANGED result
       \/ /\ "auth" \in Faults
          /\ Return(t, "unavailable")
          /\ UNCHANGED <<issued, valid, fetched>>
    /\ UNCHANGED <<agent_id, path, client, bearer, attempt, refused>>

store_token(t) ==
    /\ At(t, "store_token")
    /\ _access_token' = fetched[t]
    /\ Goto(t, "store_agent")
    /\ UNCHANGED <<agent_id, path, _access_token_agent, fetched, bearer, attempt, result,
                   refused, issued, valid>>

store_agent(t) ==
    /\ At(t, "store_agent")
    /\ _access_token_agent' = agent_id
    /\ Goto(t, "return_token")
    /\ UNCHANGED <<agent_id, path, _access_token, fetched, bearer, attempt, result,
                   refused, issued, valid>>

\* Mutant: a 401 is taken for a missing secret.
http_answer_401_as_absent(t) == IF bearer[t] \in valid THEN Vault[path[t]] ELSE "absent"

\* What 1Claw answers: it checks the bearer, then the path.
http_answer(t) == IF bearer[t] \in valid THEN Vault[path[t]] ELSE "unauthorised"

\* The exception or value of a first attempt, by the answer.
first_result(answer) ==
    CASE answer \in {"value", "other_text"}  -> answer
      [] answer = "blank"                    -> "empty"
      [] answer \in {"malformed", "absent"}   -> "not_found"
      [] answer = "forbidden"                -> "unavailable"

\* The second attempt is outside the except clauses: its HTTPErrors reach
\* OneClawSecretStore, which reports each of them as unavailable.
second_result(answer) ==
    CASE answer \in {"value", "other_text"} -> answer
      [] answer = "blank"                   -> "empty"
      [] answer = "malformed"               -> "not_found"
      [] OTHER                              -> "unavailable"

\* Mutant: the second attempt is handled like the first.
http_get_retries_again(t) ==
    /\ At(t, "http_get")
    /\ IF http_answer(t) = "unauthorised"
       THEN /\ refused' = [refused EXCEPT ![t] = Append(@, bearer[t])]
            /\ Goto(t, "invalidate")
            /\ UNCHANGED result
       ELSE Return(t, first_result(http_answer(t))) /\ UNCHANGED refused
    /\ UNCHANGED <<agent_id, path, client, fetched, bearer, attempt, issued, valid>>

\* _http_get_secret_value and the handlers around it in _get_secret_hosted.
http_get(t) ==
    LET answer == http_answer(t)
    IN  /\ At(t, "http_get")
        /\ \/ /\ answer = "unauthorised"
              /\ refused' = [refused EXCEPT ![t] = Append(@, bearer[t])]
              /\ \/ attempt[t] = 1 /\ Goto(t, "invalidate") /\ UNCHANGED result
                 \/ attempt[t] = 2 /\ Return(t, second_result(answer))
           \/ /\ answer # "unauthorised"
              /\ Return(t, IF attempt[t] = 1 THEN first_result(answer)
                                             ELSE second_result(answer))
              /\ UNCHANGED refused
           \/ /\ "get" \in Faults
              /\ Return(t, "unavailable")
              /\ UNCHANGED refused
        /\ UNCHANGED <<agent_id, path, client, fetched, bearer, attempt, issued, valid>>

\* Mutant: the refused token stays in the cache.
invalidate_nothing(t) ==
    /\ At(t, "invalidate")
    /\ attempt' = [attempt EXCEPT ![t] = 2]
    /\ Goto(t, "test_token")
    /\ UNCHANGED <<agent_id, path, client, fetched, bearer, result, refused, issued, valid>>

\* _invalidate_access_token: the test of the agent ...
invalidate(t) ==
    /\ At(t, "invalidate")
    /\ attempt' = [attempt EXCEPT ![t] = 2]
    /\ Goto(t, IF _access_token_agent = agent_id THEN "clear_token" ELSE "test_token")
    /\ UNCHANGED <<agent_id, path, client, fetched, bearer, result, refused, issued, valid>>

\* ... and the two assignments.
clear_token(t) ==
    /\ At(t, "clear_token")
    /\ _access_token' = None
    /\ Goto(t, "clear_agent")
    /\ UNCHANGED <<agent_id, path, _access_token_agent, fetched, bearer, attempt, result,
                   refused, issued, valid>>

clear_agent(t) ==
    /\ At(t, "clear_agent")
    /\ _access_token_agent' = None
    /\ Goto(t, "test_token")
    /\ UNCHANGED <<agent_id, path, _access_token, fetched, bearer, attempt, result,
                   refused, issued, valid>>

\* _get_secret_legacy_resolve: the API key is the bearer, there is no retry.
legacy_resolve(t) ==
    /\ At(t, "legacy")
    /\ \/ Return(t, first_result(Vault[path[t]]))
       \/ "get" \in Faults /\ Return(t, "unavailable")
    /\ UNCHANGED <<agent_id, path, client, fetched, bearer, attempt, refused, issued, valid>>

Expired == (1..issued) \ valid

\* Environment: a token expires or is revoked.
Expire ==
    /\ Cardinality(Expired) < MaxExpiries
    /\ \E token \in valid : valid' = valid \ {token}
    /\ UNCHANGED <<agent_id, path, client, locals, issued>>

-----------------------------------------------------------------------------
(* The specification.                                                      *)

Read(t) ==
    \/ get_secret(t) \/ test_token(t) \/ test_agent(t) \/ return_token(t)
    \/ fetch(t) \/ store_token(t) \/ store_agent(t) \/ http_get(t)
    \/ invalidate(t) \/ clear_token(t) \/ clear_agent(t) \/ legacy_resolve(t)

Terminated == (\A t \in Readers : At(t, "done")) /\ UNCHANGED vars

Next ==
    \/ \E t \in Readers : Read(t)
    \/ Expire
    \/ Terminated

Spec == Init /\ [][Next]_vars

\* MercuryWalletSigner._load_private_key, for a read that ended in r: a key,
\* WalletPrivateKeyError (_normalize_private_key raises it for a text that is
\* not 64 hex digits), or the store's own exception.
_load_private_key(r) ==
    CASE r = "value"                                -> "key"
      [] r \in {"not_found", "empty", "other_text"} -> "wallet_private_key_error"
      [] OTHER                                      -> "secret_store_unavailable"

-----------------------------------------------------------------------------
(* Properties.                                                             *)

\* One read is refused at most twice and 1Claw issues at most two tokens per
\* read: a 401 is retried once, and no storm of refreshes follows when the
\* threads invalidate each other's tokens.
OneRetry ==
    /\ \A t \in Readers : Len(refused[t]) <= 2
    /\ issued <= 2 * Cardinality(Readers)

\* A missing key is reported only for a path without a usable secret, never
\* because the token was refused: a wallet whose key exists is not declared
\* unusable by a race on the token cache.
MissingKeyIsMissing ==
    \A t \in Readers :
        At(t, "done") /\ _load_private_key(result[t]) = "wallet_private_key_error" =>
            Vault[path[t]] \in {"absent", "malformed", "blank", "other_text"}

\* The retry absorbs the expiry of the cached token: a read is refused twice
\* only when a second token expired meanwhile, or when another thread
\* cleared the cache between the two reads of the token attribute and a
\* request went out with no token at all.
OneExpiryIsAbsorbed ==
    \A t \in Readers :
        Len(refused[t]) = 2 =>
            Cardinality(Expired) >= 2 \/ \E i \in DOMAIN refused[t] : refused[t][i] = None

=============================================================================
