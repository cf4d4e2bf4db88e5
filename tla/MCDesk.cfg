SPECIFICATION DeskSpec
CONSTANTS
    Item = {i1}
    Agent = {x, y, z}
    NoOne = NoOne
    NoItem = NoItem
    Press = {"goal-design", "go", "done", "reopen","waive"}
SYMMETRY AgentSymmetry
VIEW WorkView
INVARIANTS DutiesApart HoldersStand SomebodyCanGoOn
