SPECIFICATION Spec
CONSTANTS
    Processes = {p1, p2}
    Recipes = {r1, r2}
    NoProcess = NoProcess
    NoRecipe = NoRecipe
    MaxStarts = 3
    MaxStops = 0
PROPERTY OnlyInterruptedIsResumed
