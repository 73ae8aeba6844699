SPECIFICATION FairSpec
CONSTANTS
    Conn = {1}
    MaxCalls = 1
    SeqMod = 4
    Plugin = {"caching_sha2_password", "sha256_password"}
    Announced <- Capabilities
    Kinds <- OneQuery
    Replies <- EveryReply
    Columns = 2
    MaxFrames = 1
PROPERTIES QueryTimeoutBounds
CHECK_DEADLOCK FALSE
