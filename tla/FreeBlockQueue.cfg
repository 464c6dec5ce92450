CONSTANTS
    N = 4
    FakeHead = FakeHead
    FakeTail = FakeTail
    None = None
SPECIFICATION Spec
INVARIANTS
    TypeOK
    ListIntact
    NeverRaises
PROPERTY RefinesQueue
