\* One managed file beside share and noctty.exe; a helper, the build it
\* watches and a launch beside them; two requests and one failure.
CONSTANTS
    Files = {"dll"}
    p1 = p1
    p2 = p2
    p3 = p3
    Procs = {p1, p2, p3}
    Nobody = Nobody
    MaxApplies = 2
    MaxFaults = 1
    FeedChanges = {"none"}
SPECIFICATION FairSpec
INVARIANTS BackupCovers PhaseIsTrue OneWriter
PROPERTIES RolledBackIsOld Resolves
