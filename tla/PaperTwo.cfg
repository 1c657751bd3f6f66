SPECIFICATION Spec
CONSTANTS
    Proc = {p, q}
    Symbol = {eur, xau}
    Paused = {xau}
    MaxSlot = 2
    Session <- MondaySession
    Weekend <- MondayWeekend
    Equity = {0, 1}
    RecoverAll = FALSE
    MaxCrashes = 0
    Flat = Flat
    NoPaper = NoPaper
    NoSlot = NoSlot
    eur = eur
    xau = xau
    p = p
    q = q
INVARIANT LockIsOfRun
PROPERTY LedgerKept
PROPERTY EntryIsCurrent
PROPERTY FilledInTime
PROPERTY BarsInSequence
