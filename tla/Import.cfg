SPECIFICATION Spec
CONSTANTS
    Node = {"ms", "n1", "n2"}
    MS = "ms"
    Concurrency = 1
    MaxIterations = 3
    MaxImports = 1
    Destination = {"litp"}
    Isos <- SomeIsos
    Profile = {"3pp_rhel"}
    NotADirectory = {"litp_plugins"}
    Faults = {}
INVARIANTS ImportAlone DoneMeansApplied ConcurrencyKept PackagesChangeSafely
PROPERTIES ImportEnds
