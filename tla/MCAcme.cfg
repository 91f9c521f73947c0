SPECIFICATION AcmeFairSpec
CONSTANTS
    Admins = {adm}
    Workers = {w1, w2}
    Lists <- MCLists
    Yaml <- MCYaml
    Saves <- MCSaves
    MaxManagers = 2
    MaxEvents = 3
    NoConf = NoConf
CHECK_DEADLOCK FALSE
INVARIANTS
    CertificatesServe
    LoopsMatch
PROPERTIES
    
    Renewed
