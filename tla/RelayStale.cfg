SPECIFICATION Spec
CONSTANTS
    Peers = {h, f}
    Honest = {h}
    Callers = {c}
    Items = {i}
    Top = 2
    Starts <- MCStarts
    None = None
INVARIANT AskedUntilAnswered
