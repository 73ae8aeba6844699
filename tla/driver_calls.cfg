SPECIFICATION FairSpec
CONSTANTS
    Conn = {1, 2}
    MaxCalls = 2
    SeqMod = 4
    Plugin = {"caching_sha2_password", "sha256_password"}
    Announced <- Capabilities
    Kinds <- TwoCalls
    Replies <- EveryReply
    Columns = 2
    MaxFrames = 2
INVARIANTS TypeOK AtMostOnce OwnReply WholeResult SessionIsCallers NothingLeaks
PROPERTIES CallsReturn NoStrayCancel
CHECK_DEADLOCK FALSE
