SPECIFICATION Spec
CONSTANTS
    Characters = {"a", "b", "d", "e", "f", "g", "i", "l", "m", "n", "o", "r",
                  "t", "u", "w", "x", "A", "B", "D", "E", "F", "G", "I", "L",
                  "M", "N", "O", "R", "T", "U", "W", "X", "0", "1", "2", "3",
                  "4", "5", "6", "7", "8", "9", "-"}
    MaxExceptions = 4
INVARIANTS
    KnowsTheWords
    ReadsInside
    PrintsEveryCause
CHECK_DEADLOCK FALSE
