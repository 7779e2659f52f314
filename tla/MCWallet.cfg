SPECIFICATION FairSpec
CONSTANTS
    alice = alice
    bob = bob
    r1 = r1
    r2 = r2
    r3 = r3
    NoRequest = NoRequest
    Users = {alice, bob}
    Wallets = {alice}
    Eligible = {alice}
    Requests = {r1, r2, r3}
    Kinds = {"movement", "placeBet", "gameBet", "cashout"}
    Amounts = {0, 2}
    Stakes <- MCStakes
    MinStake = 1
    MaxStake = 4
    Opening = 4
INVARIANTS TypeOK AuditChain SnapshotFresh BetBacked PaidOnce OkMeansDone
PROPERTIES RefinesLedger CallsAreAnswered
CHECK_DEADLOCK FALSE
