SPECIFICATION GradingSpec
CONSTANTS
    None = None
    Records <- SomeRows
    Questions <- SomeQuestions
    Results <- SomeValues
INVARIANTS NearerIsNoWorse
PROPERTY GradedOnReal
CHECK_DEADLOCK FALSE
