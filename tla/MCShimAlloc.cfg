SPECIFICATION Spec
CONSTANTS
    Width = 4
    Last = 9
    Values = {1}
INVARIANTS
    BlocksAreIntact
