CONSTANTS
    Configs <- CfSession
SPECIFICATION FairSpec
PROPERTIES SessionEnds
