\* Every kind in every accepted spelling; two requests with ENS names, changing
\* records and the shared cache.
SPECIFICATION Spec
CONSTANTS
    None = None
    Unsupported = Unsupported
    Invalid = Invalid
    SupportedChains = {"eth", "base", "opt", "monad"}
    AlchemyChains = {"eth", "base", "opt"}
    DefaultChain = "eth"
    Addresses = {"0xa", "0xb"}
    Names = {"n"}
    MaxTokens = 3
    MaxTokenChains = 2
    MaxNetworks = 2
    MaxCount = 2
    DefaultCount = 1
    r1 = r1
    r2 = r2
    Requests = {r1, r2}
    Arrivals <- MCArrivals
    Tools = {"get_native_balance", "get_erc20_balance", "get_erc20_allowance",
        "get_erc20_metadata", "read_contract", "resolve_known_address", "get_token_prices",
        "get_portfolio_tokens", "get_transfer_history"}
    RecordValues = {"0xa", "0xb"}
    MaxRecordSets = 1
INVARIANTS
    PlainSucceededMeansDone
    SecondParseAgrees
    ToolInputIsServable
    NameResolvedForItsChain
CHECK_DEADLOCK FALSE
