SPECIFICATION FramesSpec
CONSTANTS
    Absent = Absent
    Sendable <- Calls
    Foreign <- Frames
    Damage <- SomeBytes
    Part = 4
    Source <- Streams
    Chunk <- Sizes
    CompactAt = 5
    None = None
    Class <- Classes
    Argument <- Arguments
    Members <- Enums
    Batches <- Rows
    Received = {0, 2, 3, 6}
INVARIANTS FieldsKnown RoundTrip Canonical DamageRejected TimeKept
INVARIANTS BufferIsTail ChunksDoNotMatter MemoryBounded
INVARIANTS OnlySoundClasses FieldsKeep GivenIsRead ColumnsMatchScalars
PROPERTIES KeepsStream
CHECK_DEADLOCK FALSE
