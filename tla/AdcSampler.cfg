SPECIFICATION Spec
CONSTANT WordBits = 4
INVARIANTS TypeOK WholeWord AxesKept
PROPERTY KeepsSampling
