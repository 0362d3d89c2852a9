SPECIFICATION Spec

CONSTANTS
    Directory = {1, 2}
    Name <- MCName
    NoName <- MCNoName
    MaxMatch = 2
    MaxNumber = 2

INVARIANTS
    NoForeignText
    ImageIsTargets
    DeckNumbersDistinct
