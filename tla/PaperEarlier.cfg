SPECIFICATION Spec
CONSTANTS
    Proc = {p, q}
    Symbol = {eur}
    Paused = {}
    MaxSlot = 3
    Session <- FridaySession
    Weekend <- FridayWeekend
    Equity = {0, 1}
    RecoverAll = FALSE
    MaxCrashes = 0
    Flat = Flat
    NoPaper = NoPaper
    NoSlot = NoSlot
    eur = eur
    p = p
    q = q
PROPERTY EarlierStopWins
