--------------------------- MODULE MCInvokeRouting ---------------------------
(* A small instance of InvokeRouting.                                      *)
EXTENDS InvokeRouting

CONSTANTS r1, r2

Payload(intent) == [intent |-> intent, chain |-> None, wallet_id |-> "w", idempotency_key |-> "k"]
On(chain, p) == [p EXCEPT !.chain = chain]

Kind(k) == [kind |-> Text(k)]
Entry(c, a) == [chain |-> c, token_address |-> a]

\* A complete object of every kind, without its kind.
Fields ==
    [address |-> [wallet_address |-> "0xa", token_address |-> "0xb", owner_address |-> "0xa",
                  spender_address |-> "0xb", contract_address |-> "0xb", abi_fragment |-> "abi",
                  function_name |-> "f", category |-> "token", key |-> "WETH"],
     transfer |-> [recipient_address |-> "0xb", token_address |-> "0xa", spender_address |-> "0xb",
                   from_token |-> "0xa", to_token |-> "0xb", amount |-> "1", amount_in |-> "1"]]

ByAddress == DOMAIN _KIND_ALIASES \
    {"token_prices", "get_token_prices", "portfolio_tokens", "get_portfolio_tokens"}

Reads ==
    {Kind(k) @@ Fields.address : k \in ByAddress \cup {"unknown"}}
    \cup {[wallet_address |-> "bad"] @@ Kind(k) @@ Fields.address :
            k \in {"native_balance", "erc20_balance", "transfer_history"}}
    \cup {Kind("erc20_metadata"), Kind("known_address"), [chain |-> "base"]}

Prices ==
    {Kind("token_prices") @@ f : f \in
        {[token_address |-> "0xa"],
         [token_address |-> "bad"],
         [tokens |-> <<>>],
         [tokens |-> <<Entry("base", "0xa"), Entry("eth", "0xb")>>],
         [tokens |-> <<Entry("base", "0xa"), Entry("monad", "0xb")>>],
         [tokens |-> <<Entry("base", "0xa"), Entry("eth", "0xa"), Entry("opt", "0xa")>>],
         [tokens |-> <<Entry("base", "0xa"), Entry("base", "0xb"), Entry("base", "bad")>>],
         [tokens |-> [i \in 1..4 |-> Entry("base", "0xa")]]}}

Portfolios ==
    {Kind("portfolio_tokens") @@ [wallet_address |-> "0xa"] @@ f : f \in
        {[page_key |-> "p"],
         [chains |-> <<"base", "eth", "base">>],
         [chains |-> <<"base", "monad">>],
         [chains |-> <<"base", "eth", "opt">>],
         [chains |-> <<"solana">>],
         [networks |-> <<<<"alchemy", "base">>, <<"alchemy", "eth">>>>],
         [networks |-> <<<<"alchemy", "monad">>>>],
         [networks |-> <<<<"alchemy", "base">>>>, chains |-> <<"base">>]}}

Histories ==
    {Kind("get_transfer_history") @@ [wallet_address |-> "0xa"] @@ f : f \in
        {[direction |-> "in", page_key |-> "p"],
         [direction |-> "both", page_key |-> "p"],
         [direction |-> "sideways"],
         [categories |-> <<"erc20", "specialnft">>],
         [categories |-> <<"nft">>],
         [max_count |-> 0], [max_count |-> 3], [max_count |-> 2]}}

Moves ==
    {Kind(k) @@ Fields.transfer : k \in _VALUE_MOVING_KINDS}
    \cup {Kind("swap") @@ [to_token |-> "0xa"] @@ Fields.transfer,
          Kind("swap") @@ [recipient_address |-> None] @@ Fields.transfer,
          Kind("native_transfer") @@ [recipient_address |-> "bad"] @@ Fields.transfer,
          Kind("native_transfer")}

Flat == Reads \cup Prices \cup Portfolios \cup Histories \cup Moves

\* The other spellings that validation accepts.
WithoutKind(o) == [k \in DOMAIN o \ {"kind"} |-> o[k]]
Renamed(o, k) == WithoutKind(o) @@ (k :> Get(o, "kind"))
Blanks(o) == IF "kind" \in DOMAIN o THEN [o EXCEPT !["kind"] = Padded(@.text)] ELSE o
Nested(o) == [intent |-> o]

Spellings(o) == {o, Renamed(o, "type"), Renamed(o, "intent"), Blanks(o), Nested(o),
                 Nested(Renamed(o, "type")), Nested(Nested(o)), [intent |-> o, kind |-> Text("x")]}

MCIntents == UNION {Spellings(o) : o \in Flat} \cup {Text("send it all")}

MCPayloads ==
    {Payload(i) : i \in MCIntents}
    \cup {On(c, Payload(i)) : i \in MCIntents, c \in {"base", "monad", "solana"}}

\* Two requests that name the same owner on two chains.
NamePayloads ==
    {On(c, Payload(o @@ [recipient_address |-> "n", wallet_address |-> "n", owner_address |-> "n",
                         spender_address |-> "n", contract_address |-> "n"])) :
        c \in {"base", None},
        o \in {Kind("native_transfer") @@ [amount |-> "1"],
               Kind("erc20_allowance") @@ [token_address |-> "0xa"],
               Kind("transfer_history"), Kind("get_native_balance")}}
    \cup {On("solana", Payload(Kind("native_balance") @@ [wallet_address |-> "n"]))}

\* Any request beside free text, which is soon refused, and two requests
\* with names.
Alone(p) == (r1 :> p) @@ (r2 :> Payload(Text("hello")))
MCArrivals == {Alone(p) : p \in MCPayloads} \cup [{r1, r2} -> NamePayloads]

=============================================================================
