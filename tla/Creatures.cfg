CONSTANTS
    Players = {ann}
    Monsters = {rat, wolf}
    Places = {here, there}
    Near <- OutOfSight
    Null = Null
SPECIFICATION Spec
INVARIANTS
    CreatureTypeOK
    RefsExact
    PointersLive
PROPERTIES
    OnlyTheStoppedAreForgotten
CONSTRAINT
    NobodyForgotten
CHECK_DEADLOCK FALSE
SYMMETRY CreatureSymmetry
