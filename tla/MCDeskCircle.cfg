SPECIFICATION DeskSpec
CONSTANTS
    Item = {i1, i2, i3}
    Agent = {}
    NoOne = NoOne
    NoItem = NoItem
    Press = {"goal-design", "go", "reopen", "bring-back", "deleted"}
SYMMETRY ItemSymmetry
VIEW BlocksView
INVARIANTS NothingGoesRound
