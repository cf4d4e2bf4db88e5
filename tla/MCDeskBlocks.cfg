SPECIFICATION DeskSpec
CONSTANTS
    Item = {i1, i2, i3}
    Agent = {}
    NoOne = NoOne
    NoItem = NoItem
    Press = {"goal", "goal-design", "go", "go-all", "done", "close", "reopen",
             "bring-back", "design", "waive", "code"}
SYMMETRY ItemSymmetry
VIEW BlocksView
INVARIANTS NothingGoesRound
PROPERTIES OrderSurvives
