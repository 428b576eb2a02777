CONSTANTS
    p = p  q = q  j = j  k = k
    Workers = {w1, w2}
    Calls = {p, q, k}
    Waiting = {p, q, k}
    Parent <- MCParentBoth
    Outside = Outside
    Throwing = {}
SPECIFICATION Spec
PROPERTY CallsReturn
CHECK_DEADLOCK FALSE
