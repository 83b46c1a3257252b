CONSTANTS
    Providers = {"cloudflare", "digitalocean"}
    Inputs <- Everything
    MaxCommands = 3
    MaxEdits = 1
    MaxTokens = 2
    Edits = {"set token", "write secret", "lose domain", "chmod 600", "chmod 640", "own config",
             "restart", "stop", "reboot"}
    Machines = {"fresh", "legacy"}
    HeldPorts <- Rivals
    Shells <- Variables
SPECIFICATION Spec
INVARIANTS
    IInv
    RefusalIsTheShells
    InstallRepairs
PROPERTIES
    UpgradeKeepsConfig
    CleanDoctorSeesNoRival
\* Every command and edit of the instance may be over.
CHECK_DEADLOCK FALSE
