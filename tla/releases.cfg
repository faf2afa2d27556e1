\* Every release, restarted twice anywhere, its changer put to the vote twice.
CONSTANTS
    ReleaseNames = {"v0.1.11", "v0.1.12", "v0.1.14", "v0.1.15", "v0.1.16", "v0.1.16.1",
                    "v0.1.16.2", "v0.2.0", "governor"}
    MaxRestarts = 2
    MaxProposals = 2

SPECIFICATION Spec

CHECK_DEADLOCK FALSE

INVARIANTS
    FinishedIsConfigured
    OneLibrary
    SplitterInConfigIsInitialized
    OnlyTheseFail

PROPERTIES
    ExecutedIsConfigured
    RestoresImplementations
