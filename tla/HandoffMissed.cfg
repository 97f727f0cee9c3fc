SPECIFICATION Spec
INVARIANT
    EndedOnlyAtTheGoal
