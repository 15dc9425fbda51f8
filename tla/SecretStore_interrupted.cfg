SPECIFICATION Spec
CONSTANTS
    desktop = desktop
    web = web
    s1 = s1
    s2 = s2
    Procs = {desktop}
    Secrets = {s1, s2}
    NPasswords = 2
    MaxSalts = 3
    MaxDeks = 3
    MaxOps = 5
    Interrupts = TRUE
    WriteErrors = FALSE
INVARIANT SecretsReadable
CHECK_DEADLOCK FALSE
