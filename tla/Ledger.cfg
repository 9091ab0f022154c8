CONSTANTS
    tg = tg
    a1 = a1
    a2 = a2
    a3 = a3
    a4 = a4
    b1 = b1
    b2 = b2
    b3 = b3
    tp = tp
    tq = tq
    tr = tr
    ts = ts
    tu = tu
    tv = tv
    hx = hx
    hy = hy
    hm = hm
    noBind = noBind
    Txs <- Transactions
    Outs <- OutsOf
    Ins <- InsOf
    Frozen <- FrozenOf
    Awards <- AwardsOf
    CoinBases <- HeightsOf
    Genesis <- GenesisBlock
    Blocks <- AllBlocks
    Branches <- SideBranches
    Scripts <- ScriptsOf
    ByteBits = 2
    CoinbaseMaturity = 1
    TransactionMaturity = 1
    StakingTxRewardStart = 1
    BindingTxFrozenPeriod = 1
    HtsDistance = 4
    StlDistance = 2
    MaxHeight = 4
SPECIFICATION AddrSpec
INVARIANTS
    TablesMatchChain
    TxViewMatchesBranch
    StakingViewsMatch
    AddrTablesMatchChain
    RelatedTxComplete
    IndexCallsSucceed
