SPECIFICATION Spec
CONSTANTS
    Durations <- MCDurations
    Sizes <- MCSizes
    Codes <- MCCodes
    GrpcCodes = {17}
    Lengths <- MCLengths
    Urls <- MCUrls
    MaxAttrs = 4
INVARIANTS TypeOK Aligned LineOfItsRecord LineIsComplete ReadsInOrder
