\* Every line of up to eight characters.
SPECIFICATION Spec
CONSTANTS
    Letters <- TwoLetters
    MaxLine = 8
INVARIANTS
    RoundTrip
    GrammarParses
\* The longest lines are the last.
CHECK_DEADLOCK FALSE
