SPECIFICATION ServerSpec
CONSTANTS
    desktop = desktop
    web = web
    s1 = s1
    s2 = s2
    Procs = {desktop}
    Secrets = {s1, s2}
    NPasswords = 2
    MaxSalts = 4
    MaxDeks = 4
    MaxOps = 8
    Interrupts = TRUE
    WriteErrors = TRUE
    Programs = {desktop, web}
    Older = {0}
    MaxChanges = 2
    MaxFailures = 1
    client = client
    here = here
    there = there
    top = top
    m = m
    n = n
    x = x
    y = y
    none = none
    junk = junk
    Clients = {client}
    Systems = {here, there}
    Dirs = {top}
    Names = {m, n}
    Contents = {x, y}
    Drafts = {x}
    FirstTree <- MCTree
    FirstStand <- MCStand
    MaxCommands = 2
    MaxHops = 1
INVARIANTS ServerTypeOK ReadableUnlessTorn ConfigKept NothingLost NotAstray
PROPERTIES SecretsKept DekFromFile PasswordGuards
CHECK_DEADLOCK FALSE
