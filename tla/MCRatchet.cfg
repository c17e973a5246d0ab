CONSTANTS
    Alice = Alice
    Bob = Bob
    Zero = Zero
    MaxMissingMessages = 2
    MaxSent <- MaxSentMC
SPECIFICATION Spec
INVARIANTS AtMostOnce NoneLost
CHECK_DEADLOCK FALSE
