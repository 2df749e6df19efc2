SPECIFICATION Spec
CONSTANTS
    None = None
    Damaged = Damaged
    Folder <- Stems
    Numeral <- Numbers
    Traffic <- Logged
    Values <- Tables
    Schema <- Schemas
    DeviceYml <- Ymls
    Module <- Modules
    Name <- Given
    Suffix <- Suffixes
    Part = 2
    MaxFrames = 3
INVARIANTS CompleteFramesRead FilesAreFrames InferredAgrees OpensOwnDevice
CHECK_DEADLOCK FALSE
