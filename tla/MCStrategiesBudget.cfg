SPECIFICATION Spec
CONSTANTS
    a = a
    b = b
    near = near
    far = far
    goal = goal
    bad = bad
    Points = {a, b, near, far, goal, bad}
    Target = {}
    Throwing = {}
    Plans <- GradientPlans
    Runs <- WalkRuns
    GradCost = 1
    InnerGradCost = 1
    Searches = 1
    Every = 2
    LocalPart = 1
    RestartAfter = 1
    MaxIdle = 2
    LamDef = 1
    Large = 2
    MaxGenerations = 2
INVARIANT WithinBudget
