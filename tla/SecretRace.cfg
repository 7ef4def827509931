CONSTANTS Readers = {a, b} Changes = 2
SPECIFICATION WSpec
INVARIANTS RefusalAnswered
CHECK_DEADLOCK FALSE
