CONSTANTS
    tg = tg
    c1 = c1
    c2 = c2
    tp = tp
    tq = tq
    tr = tr
    tx = tx
    tn = tn
    tm = tm
    hx = hx
    hy = hy
    Txs <- Transactions
    Outs <- OutsOf
    Ins <- InsOf
    Frozen <- NoneOf
    Awards <- NoAwards
    CoinBases <- HeightsOf
    Genesis <- GenesisBlock
    Blocks <- AllBlocks
    ByteBits = 2
    CoinbaseMaturity = 1
    TransactionMaturity = 1
    MaxHeight = 2
    Offered = {tp, tq, tr, tx, tn, tm}
    Refused = {tn}
    Free = {tm}
    Large = {}
    Owners <- OwnersOf
    maxOrphanTransactions = 2
SPECIFICATION PoolSpec
INVARIANTS
    PoolMapsAgree
    
    
PROPERTIES
    NoOrphanLeftBehind
