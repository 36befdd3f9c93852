SPECIFICATION Spec
CONSTANTS
    Processes = {p1, p2, p3}
    Recipes = {r1, r2}
    NoProcess = NoProcess
    NoRecipe = NoRecipe
    MaxStarts = 4
    MaxStops = 1
SYMMETRY Symmetry
INVARIANTS TypeOK LockIsAlive RunningIsOwned NewRunsReplaceNothing SomebodyRuns
PROPERTIES RecipeIsKept ForeignIsUntouched
