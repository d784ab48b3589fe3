CONSTANTS
    Nibble = 2
    METADATA_MARKER <- MCMarker
    METADATA_BLOCK_MAX_SIZE = 5
    Contents <- MCContents
    Records <- MCRecords
    Numbers <- MCNumbers
SPECIFICATION Spec
INVARIANTS
    MetadataFollowsLastMarker
    ReadsStayInFile
    NodesReadAsWritten
    NumbersReadAsWritten
PROPERTY SearchEnds
