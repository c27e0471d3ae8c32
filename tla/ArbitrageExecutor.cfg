SPECIFICATION Spec
CONSTANTS
    weth = weth
    dai = dai
    p1 = p1
    p2 = p2
    Tokens = {weth, dai}
    NoToken = NoToken
    Targets = {p1, p2}
    Pool = Pool
    Owner = Owner
    Stranger = Stranger
    NoRequest = NoRequest
    Requests <- Trades
    Unasked <- Drains
    Premiums = {0, 1}
    Unlimited = 9
    MaxHeld = 3
INVARIANTS
    TypeOK
    NoLingeringAllowance
    Repayable
PROPERTY
    TradesAreAtomic
