\* The user points the updater to another feed once; nothing fails.
CONSTANTS
    Files = {"dll"}
    p1 = p1
    p2 = p2
    p3 = p3
    Procs = {p1, p2, p3}
    Nobody = Nobody
    MaxApplies = 1
    MaxFaults = 0
    FeedChanges = {"swapped", "confirmed"}
SPECIFICATION Spec
INVARIANT LaunchPossible
