SPECIFICATION Spec
CONSTANTS
    Select = {"a", "b"}
    Shows <- MCShows
    MaxShows = 5
INVARIANTS ShowInOrder
PROPERTIES AnswersBound
