SPECIFICATION Spec
CONSTANTS
    Ulongs <- MCUlongs
    BucketOf <- MCBucketOf
    X509 <- MCX509
    Extension <- MCExtension
    PurposeNames <- MCPurposeNames
    Der <- MCDer
    NotUtf8 = {"bad"}
    Sha1 <- MCSha1
    Md5 <- MCMd5
    TypeOrder <- MCTypeOrder
    Constants <- MCConstants
    OddOids = {"oid8"}
    Files <- MCFiles
    DirOf <- MCDirOf
    NameFor <- MCNameFor
    TempNames <- MCTempNames
    Scene <- MCScene
CHECK_DEADLOCK FALSE
INVARIANT FindsAll
INVARIANT TokenIsDisk
 
PROPERTY FilesKept
