\* Two workers, one of them held up in a nested parallel_for; a task submitted
\* by a task, perhaps while the pool stops.
CONSTANTS
    p = p  q = q  j = j  k = k
    Workers = {w1, w2}
    Calls = {p, q, j, k}
    Waiting = {p, q}
    Parent <- MCParent
    Outside = Outside
    Throwing <- MCThrowsLast
SPECIFICATION Spec
INVARIANTS TypeOK NothingLost FunctionOutlives
PROPERTIES TasksRun CallsReturn BlockersReturn
CHECK_DEADLOCK FALSE
