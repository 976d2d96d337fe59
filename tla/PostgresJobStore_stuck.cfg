SPECIFICATION FairSpec
CONSTANTS
    FailureThreshold = 2
    Callers = {c1, c2}
    Methods <- MCMethods
    c1 = c1
    c2 = c2
    Sources = {s1}
    MaxIds = 1
    MaxOutages = 1
    MaxRestarts = 0
PROPERTY OpenBreakerProbes
