SPECIFICATION LiveSpec
CONSTANTS
    Proc = {p}
    Symbol = {eur, xau}
    Paused = {xau}
    MaxSlot = 3
    Session <- FridaySession
    Weekend <- FridayWeekend
    Equity = {0}
    RecoverAll = TRUE
    MaxCrashes = 1
    Flat = Flat
    NoPaper = NoPaper
    NoSlot = NoSlot
    eur = eur
    xau = xau
    p = p
INVARIANT TypeOK
INVARIANT BoundaryFirst
PROPERTY EarlierStopWins
PROPERTY DueClosed
PROPERTY LockReleased
