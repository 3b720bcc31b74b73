SPECIFICATION Spec
CONSTANTS
    BadValue = BadValue
    Unreadable = Unreadable
    Invalid = Invalid
    Modulus = 256
    MaxArgs = 2
    Argv <- MCArgv
    Files <- MCFiles
INVARIANT DelaysPositive
