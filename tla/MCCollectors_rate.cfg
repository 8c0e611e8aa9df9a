CONSTANTS
    Environments <- MCEnvironments
    Second = 3
    Gaps = {1, 2, 4}
SPECIFICATION Spec
PROPERTY RatesArePerSecond
CHECK_DEADLOCK FALSE
