------------------------------ MODULE Dataset ------------------------------
(***************************************************************************)
(* A dataset on disk: a folder of register files <name>_<address>..., one  *)
(* chunk or several per register, with or without a device.yml, while it   *)
(* is recorded and while it is read (_dataset.py, _write.py).  The writer  *)
(* of a recording is external: it appends the frames a device sends, may   *)
(* crash in the middle of one, and goes on in another chunk.  to_file      *)
(* writes whole files.  Reading changes nothing; it is an operator here.   *)
(*                                                                         *)
(* A stem, a file name without ".bin", is the sequence of its parts        *)
(* between underscores; so is the name of a device.                        *)
(***************************************************************************)
EXTENDS Register, FiniteSets

CONSTANTS
    Folder,     \* stems there may be, in the order of their file names
    Numeral,    \* the parts that are numbers, with their values
    Traffic,    \* messages a device may send, by stem
    Values,     \* arguments of to_file, by stem: register, rows, types and times
    Schema,     \* contents of a schema file: a module and whoAmI, or Damaged
    Damaged,    \* one that does not parse
    DeviceYml,  \* those of the file in the folder; None for no file
    Module,     \* device modules: DEVICE_NAME, WHO_AM_I, REGISTER_MAP
    Name,       \* names given to open_dataset
    Suffix,     \* suffixes to read by
    Part,       \* bound: parts of a tick told apart in a time
    MaxFrames   \* bound: frames in the folder, whole and cut

Stem == {Folder[i] : i \in DOMAIN Folder}

ASSUME BoundAssumption == Part \in Nat \ {0} /\ MaxFrames \in Nat
ASSUME FolderAssumption ==
    /\ Folder \in Seq(Stem)
    /\ \A i, j \in DOMAIN Folder : Folder[i] = Folder[j] => i = j
    /\ \A d \in DOMAIN Numeral : Numeral[d] \in Nat
    /\ DOMAIN Traffic = Stem /\ DOMAIN Values = Stem
ASSUME SchemaAssumption == DeviceYml \subseteq Schema \cup {None}
ASSUME ModuleAssumption ==
    \A module \in Module \cup {schema.module : schema \in Schema \ {Damaged}} :
        /\ DOMAIN module.REGISTER_MAP \subseteq Byte
        /\ \A a \in DOMAIN module.REGISTER_MAP : module.REGISTER_MAP[a].register \in RegisterClass

\* A frame can be built of it, with a time stamp of six bytes if any.
Sendable(m) == Buildable(m) /\ Len(m.stamp) \in {0, TimestampLen}

ASSUME TrafficAssumption ==
    \A s \in Stem : \A m \in Traffic[s] : m \in Message /\ Sendable(m)
ASSUME ValuesAssumption ==
    \A s \in Stem :
        Values[s] \subseteq
            [register : {r \in RegisterClass : r.address # NoAddress}, rows : Seq(Seq(Byte)),
             types : Seq({b \in Byte : IsMessageType(b)}), times : Seq(Nat) \cup {None}]

VARIABLES
    files,     \* by stem: None, or the bytes, the frames meant, and one that was cut
    deviceYml, \* device.yml in the folder
    reader     \* the DatasetReader: None before open_dataset

vars == <<files, deviceYml, reader>>

Ext == INSTANCE SequencesExt

ASSUME FileAssumption ==
    None \notin [bytes : Seq(Byte), frames : Seq(Message), cut : Message \cup {None}]

Init ==
    /\ files = [s \in Stem |-> None]
    /\ deviceYml \in DeviceYml
    /\ reader = None

Existing == {s \in Stem : files[s] # None}

NFrames ==
    Cardinality({at \in Existing \X (1..MaxFrames) : at[2] \in DOMAIN files[at[1]].frames})
    + Cardinality({s \in Existing : files[s].cut # None})

-----------------------------------------------------------------------------
(* Writing                                                                 *)

File(s) == IF files[s] = None THEN [bytes |-> <<>>, frames |-> <<>>, cut |-> None] ELSE files[s]

\* The recording gets a message, and the file a frame.
Log(s, m) ==
    /\ NFrames < MaxFrames /\ File(s).cut = None
    /\ files' = [files EXCEPT ![s] =
                   [bytes |-> File(s).bytes \o BuildFrame(m),
                    frames |-> Append(File(s).frames, m), cut |-> None]]
    /\ UNCHANGED <<deviceYml, reader>>

\* It ends within a frame; what is recorded later goes to other files.
Tear(s, m, n) ==
    /\ NFrames < MaxFrames /\ File(s).cut = None /\ n < Len(BuildFrame(m))
    /\ files' = [files EXCEPT ![s] =
                   [bytes |-> File(s).bytes \o SubSeq(BuildFrame(m), 1, n),
                    frames |-> File(s).frames, cut |-> m]]
    /\ UNCHANGED <<deviceYml, reader>>

\* The messages that to_file is to write, those of format.
Meant(v, i) ==
    Formatted(v.register, v.rows[i], v.types[IF Len(v.types) = 1 THEN 1 ELSE i], DefaultPort,
              IF v.times = None THEN None ELSE v.times[i], Part)

\* to_file replaces a file, or raises ValueError and leaves it alone.
ToFile(s, v) ==
    /\ BulkFormats(v.register, v.rows, v.types, v.times)
    /\ Len(v.rows) <= MaxFrames - NFrames
    /\ files' = [files EXCEPT ![s] =
                   [bytes |-> FormatBulk(v.register, v.rows, v.types, v.times, DefaultPort, Part),
                    frames |-> [i \in DOMAIN v.rows |-> Meant(v, i)], cut |-> None]]
    /\ UNCHANGED <<deviceYml, reader>>

-----------------------------------------------------------------------------
(* Opening                                                                 *)

\* default_file_resolver: <name>_<address>, perhaps with more behind.
Matches(s, name, address) ==
    LET n == Len(name) + 1 IN
    /\ Len(s) >= n /\ SubSeq(s, 1, n - 1) = name
    /\ s[n] \in DOMAIN Numeral /\ Numeral[s[n]] = address

\* The members of a sequence that are in a set, in order.
Among(s, T) ==
    LET kept[n \in 0..Len(s)] ==
          IF n = 0 THEN <<>>
          ELSE IF s[n] \in T THEN Append(kept[n - 1], s[n]) ELSE kept[n - 1]
    IN  kept[Len(s)]

Chunks(name, address) == Among(Folder, {s \in Existing : Matches(s, name, address)})

Resolve(name) ==
    [a \in {a \in {Numeral[d] : d \in DOMAIN Numeral} : Chunks(name, a) # <<>>} |-> Chunks(name, a)]

\* create_device_module gives a schema without identity the identity 0.
Built(schema) ==
    [DEVICE_NAME |-> schema.module.DEVICE_NAME, REGISTER_MAP |-> schema.module.REGISTER_MAP,
     WHO_AM_I |-> IF schema.whoAmI = None THEN 0 ELSE schema.whoAmI]

\* A call of open_dataset has a module, a schema file or neither; a name or None.
CanBuild(call) ==
    IF call.module # None THEN call.schema = None
    ELSE (IF call.schema = None THEN deviceYml ELSE call.schema) \notin {None, Damaged}

ModuleOf(call) ==
    IF call.module # None THEN call.module
    ELSE Built(IF call.schema = None THEN deviceYml ELSE call.schema)

NameOf(call) == IF call.name # None THEN call.name ELSE ModuleOf(call).DEVICE_NAME

\* Mutant: a schema file from elsewhere is taken for the one in the folder.
NotChecked(call) == call.validate /\ call.module # None

\* The device.yml of the folder needs no comparison with itself.
Checked(call) == call.validate /\ (call.module # None \/ call.schema # None)

WhoAmIFits(module) ==
    module.WHO_AM_I # 0 /\ deviceYml \notin {None, Damaged} =>
        deviceYml.whoAmI \in {None, module.WHO_AM_I}

\* open_dataset returns a reader, which lists the files there are now; or it raises.
\* Bound: one reader.
Open(call) ==
    /\ reader = None
    /\ CanBuild(call) /\ NameOf(call) # <<>>
    /\ Checked(call) => WhoAmIFits(ModuleOf(call))
    /\ reader' = [module |-> ModuleOf(call), name |-> NameOf(call),
                  paths |-> Resolve(NameOf(call)), validate |-> call.validate]
    /\ UNCHANGED <<files, deviceYml>>

Call ==
    [module : Module \cup {None}, schema : (Schema \ {Damaged}) \cup {None},
     name : Name \cup {None}, validate : BOOLEAN]

Next ==
    \/ \E s \in Stem : \E m \in Traffic[s] : Log(s, m) \/ \E n \in {3, 8} : Tear(s, m, n)
    \/ \E s \in Stem : \E v \in Values[s] : ToFile(s, v)
    \/ \E call \in Call : Open(call)

Spec == Init /\ [][Next]_vars

-----------------------------------------------------------------------------
(* Reading                                                                 *)

Registers == reader.module.REGISTER_MAP

\* A name stands for its highest address.
Addresses(name) == {a \in DOMAIN Registers : Registers[a].name = name}
NameMap(name) == CHOOSE a \in Addresses(name) : \A other \in Addresses(name) : other <= a

Names == {Registers[a].name : a \in DOMAIN Registers}
Contents == {name \in Names : NameMap(name) \in DOMAIN reader.paths}

EndsWith(s, suffix) ==
    Len(suffix) < Len(s) /\ SubSeq(s, Len(s) - Len(suffix) + 1, Len(s)) = suffix

Listed(a) == IF a \in DOMAIN reader.paths THEN reader.paths[a] ELSE <<>>

ResolvePaths(a, suffix) ==
    IF suffix = None THEN Listed(a) ELSE Among(Listed(a), {s \in Stem : EndsWith(s, suffix)})

Raw(paths) == Ext!FlattenSeq([i \in DOMAIN paths |-> files[paths[i]].bytes])

\* DatasetReader.read returns; without a chunk for the suffix it raises FileNotFoundError.
Reads(a, suffix, timeIndex) ==
    /\ suffix # None => ResolvePaths(a, suffix) # <<>>
    /\ ReadsFrame(Registers[a].register, Raw(ResolvePaths(a, suffix)), timeIndex)

ReadRegister(a, suffix, timeIndex, keepType) ==
    DataFrame(Registers[a].register, Raw(ResolvePaths(a, suffix)), timeIndex, keepType)

-----------------------------------------------------------------------------
Frames(paths) == Ext!FlattenSeq([i \in DOMAIN paths |-> files[paths[i]].frames])

Begun(paths) == {Frames(paths)[i] : i \in DOMAIN Frames(paths)}
                  \cup ({files[paths[i]].cut : i \in DOMAIN paths} \ {None})

\* The frames, one that was cut too, have this register's payload, perhaps with more
\* behind, and are alike in their length and time stamps; only the last chunk may end
\* within a frame.
Regular(a, paths) ==
    /\ \A i \in DOMAIN paths : files[paths[i]].cut # None => i = Len(paths)
    /\ \A f, g \in Begun(paths) :
          /\ ParsesPayload(Registers[a].register, f.payload)
          /\ Len(f.payload) = Len(g.payload)
          /\ (f.stamp = <<>>) = (g.stamp = <<>>)

Position(s) == CHOOSE i \in DOMAIN Folder : Folder[i] = s
InNameOrder(paths) ==
    \A i, j \in DOMAIN paths : i < j => Position(paths[i]) < Position(paths[j])

\* However a recording is spread over chunks, whether it goes on or has crashed, a read
\* gives every complete frame once, in the order of the file names, as it is parsed alone,
\* with its own time and type, and nothing of a frame that was cut; it is refused only
\* where there is none, or no time (_resolve_paths and read, down to parse_bulk).
CompleteFramesRead ==
    reader # None =>
        \A name \in Names, suffix \in Suffix \cup {None} :
            LET a == NameMap(name)
                paths == ResolvePaths(a, suffix)
                frames == Frames(paths)
            IN  Regular(a, paths) /\ (suffix # None => paths # <<>>) =>
                  /\ InNameOrder(paths)
                  /\ frames # <<>> => name \in Contents /\ Reads(a, suffix, FALSE)
                  /\ frames # <<>> => Reads(a, suffix, TRUE) = (frames[1].stamp # <<>>)
                  /\ Reads(a, suffix, FALSE) =>
                       LET df == ReadRegister(a, suffix, FALSE, TRUE) IN
                       /\ df.rows = [i \in DOMAIN frames |->
                                        ParsePayload(Registers[a].register, frames[i].payload)]
                       /\ frames # <<>> => df.type = [i \in DOMAIN frames |-> frames[i].type]
                  /\ Reads(a, suffix, TRUE) =>
                       ReadRegister(a, suffix, TRUE, FALSE).time =
                           [i \in DOMAIN frames |-> TicksOf(frames[i].stamp)]

\* What to_file writes, one table for all rows, is byte for byte what a device would send,
\* one frame after the other (format_bulk against build_message_frame).
FramesBuilt(frames) == Ext!FlattenSeq([i \in DOMAIN frames |-> BuildFrame(frames[i])])

FilesAreFrames ==
    \A s \in Existing : files[s].cut = None => files[s].bytes = FramesBuilt(files[s].frames)

\* A file read without its device gives the bytes, times and types that are read with it:
\* the register inferred from the first frame is as large as the declared one, array,
\* scalar or struct, where that is whole elements of the frame's payload type (read of
\* _read.py against DatasetReader.read).
InferredAgrees ==
    reader # None =>
        \A a \in DOMAIN Registers :
            LET frames == Frames(Listed(a))
                size == Registers[a].register.itemsize
                data == Raw(Listed(a))
            IN  (/\ Len(Listed(a)) = 1 /\ Regular(a, Listed(a)) /\ frames # <<>>
                 /\ Len(frames[1].payload) = size /\ size % frames[1].payloadType.size = 0) =>
                  /\ Infers(data) /\ ReadsFrame(Inferred(data), data, FALSE)
                  /\ DataFrame(Inferred(data), data, BulkStamped(data), TRUE)
                       = ReadRegister(a, None, BulkStamped(data), TRUE)

\* A reader that was opened with validation in a folder which says whose it is decodes it
\* as that device, wherever its module came from: given, built from the folder, or from
\* another schema file (open_dataset and _validate_whoami).
OpensOwnDevice ==
    /\ reader # None /\ deviceYml \notin {None, Damaged}
    /\ reader.validate /\ reader.module.WHO_AM_I # 0
    => deviceYml.whoAmI \in {None, reader.module.WHO_AM_I}

\* Why: a file holds the frames meant, one after the other, and behind them at most the
\* beginning of one more (the recording, to_file); a reader has files of the folder.
Holds(f) ==
    /\ \A i \in DOMAIN f.frames : Sendable(f.frames[i])
    /\ IF f.cut = None THEN f.bytes = FramesBuilt(f.frames)
       ELSE /\ Sendable(f.cut)
            /\ \E n \in 0..(Len(BuildFrame(f.cut)) - 1) :
                  f.bytes = FramesBuilt(f.frames) \o SubSeq(BuildFrame(f.cut), 1, n)

ReadsFolder ==
    /\ DOMAIN Registers \subseteq Byte
    /\ \A a \in DOMAIN Registers : Registers[a].register \in RegisterClass
    /\ \A a \in DOMAIN reader.paths :
          reader.paths[a] \in Seq(Existing) /\ InNameOrder(reader.paths[a])

TypeOK ==
    /\ files \in [Stem -> {None} \cup
                    [bytes : Seq(Byte), frames : Seq(Message), cut : Message \cup {None}]]
    /\ deviceYml \in DeviceYml

IInv ==
    /\ TypeOK
    /\ \A s \in Existing : Holds(files[s])
    /\ reader # None => ReadsFolder
    /\ OpensOwnDevice
=============================================================================
