SPECIFICATION Spec
CONSTANTS
    Unknown = Unknown
    MaxDelta = 20
    QuoteMints <- MCQuotes
    MaxRouteMints = 3
    Calls <- MCCalls
    MaxCalls = 2
    Static <- MCStatic
    LoadedWritable <- MCLoadedWritable
    LoadedReadonly <- MCLoadedReadonly
    TokenAccounts <- MCTokenAccounts
    NewAccounts = {"u_usdc"}
    TempAccount = "u_wsol"
    Lamports <- MCLamports
    Fee = 1
    Outcomes <- MCOutcomes
    Faults = {"version", "header", "index", "half", "length", "twice", "decimals", "supply"}
INVARIANTS OnlyMalformedFails LedgerExplainsBalances TransfersTrue SwapsTrue RouteTrue OneQuotePerPool PoolsLearned
CHECK_DEADLOCK FALSE
