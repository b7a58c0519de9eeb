\* Two connections while, after any environment, five are deployed in any order.
CONSTANTS
    Names <- MCNames
    Texts <- MCTexts
    Encoded <- MCEncoded
    Decoded <- MCDecoded
    ByteLength <- MCBytes
    MaxName = 5
    Secrets = {"", "s1", "s2"}
    NoText = ""
    NotText = NotText
    NotAnObject = NotAnObject
    NotAnArray = NotAnArray
    NotANumber = NotANumber
    MinFrame = 4
    MaxFrame = 8
    MaxPeerId = 3
    Server = 2
    Sockets = {c1, c2}
    Envs <- AllEnvs
    LaterEnvs <- FewEnvs
    Invalid = Invalid
    NoRelay = NoRelay
SPECIFICATION AdmSpec
INVARIANTS
    ConfigSound HealthMatchesUpgrade Consistent
