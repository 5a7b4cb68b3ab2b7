SPECIFICATION TtySpec
CONSTANTS
    w1 = w1
    w2 = w2
    r1 = r1
    r2 = r2
    Writers = {w1, w2}
    TtyReaders = {r1, r2}
    Typist = Typist
    TtyUsers <- SomeUsers
    TtyCpus = {d1, d2}
    TTY_BUF_SIZE = 2
    MaxLen = 3
    MaxInput = 1
    Numbers = 4
INVARIANTS BuffersOK NobodyForgotten
PROPERTIES TtyProgress
