SPECIFICATION Spec
CONSTANTS
    BadValue = BadValue
    Unreadable = Unreadable
    Invalid = Invalid
    Modulus = 256
    MaxArgs = 4
    Argv <- MCArgv
    Files <- MCFiles
INVARIANTS
    ServiceConfigUsable
    CommandLineWins
