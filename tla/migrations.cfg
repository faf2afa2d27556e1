\* Deployments on networks for development and others, stopped twice, started four times.
CONSTANTS
    MaxCrashes = 2
    MaxRounds = 4

SPECIFICATION FairSpec

CHECK_DEADLOCK FALSE

INVARIANTS
    TokenAlwaysMintable
    FinishedIsHandedOver
    OnlyHandOverFails

PROPERTIES
    DeploymentFinishes
