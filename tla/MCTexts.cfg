CONSTANTS
    Keys <- MCKeys
    Texts <- MCTexts
    Definitions <- MCDefinitions
    TaskLists <- MCTaskLists
    MaxValue = 2
    Undefined = Undefined
SPECIFICATION Spec
INVARIANTS
    TasksAreTheList
    ExpandsPlaceholders
