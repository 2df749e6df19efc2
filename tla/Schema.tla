------------------------------- MODULE Schema -------------------------------
(***************************************************************************)
(* The schema compiler (harp.device.schema): create_device_module checks a *)
(* parsed device.yml, builds its masks, emits one register class after the *)
(* other, with the payload classes they need, and gives all of them names  *)
(* in one module.                                                          *)
(*                                                                         *)
(* Numbers are known by their bytes, signed or not; an array, a string, a  *)
(* version and the value of a user's converter are "text", bytes nothing   *)
(* here looks into.  What the spelling of a key has to do with the name it *)
(* gets (_naming.py) is not modelled: the two conversions are functions,   *)
(* of which some keys have one value.                                      *)
(***************************************************************************)
EXTENDS Core, SequencesExt

CONSTANTS
    Parsed,   \* the schemas
    enum_member_name, field_name, \* the Python names of keys
    Reserved  \* names a payload field may not have

(* A schema has masks, registers in the order of the yml, the widths of the *)
(* converters the user gives, require_converters, and device and whoAmI if  *)
(* it is not a part of a device.yml only.  The type of a register is its    *)
(* element size; masks and defaults are sets of bits.                       *)
Optional(S) == {None} \cup S

\* A MaskType or InterfaceType; an empty one would be taken for none.
Type == STRING \ {""}

Converter == {"None", "Payload", "RawPayload"}

Mask ==
    [name : STRING, base : {"flag", "int"}, members : Seq([key : STRING, value : Int])]

PayloadMember ==
    [key : STRING, mask : Optional(SUBSET Nat), offset : Optional(Nat), length : Optional(Nat),
     maskType : Optional(Type), interfaceType : Optional(Type),
     converter : Optional(Converter), default : Optional(SUBSET Nat)]

Register ==
    [name : STRING, address : {a \in Int : a <= 255}, type : {1, 2, 4, 8}, length : Optional(Nat \ {0}),
     private : BOOLEAN, payloadSpec : Optional(Seq(PayloadMember) \ {<<>>}), maskType : Optional(Type),
     interfaceType : Optional(Type), converter : Optional(Converter)]

ASSUME ParsedAssumption ==
    \A s \in Parsed :
        /\ s.masks \in Seq(Mask) /\ s.registers \in Seq(Register)
        /\ \A symbol \in DOMAIN s.converters : s.converters[symbol] \in Nat
        /\ s.require_converters \in BOOLEAN
        /\ s.device \in Optional(STRING) /\ s.whoAmI \in Optional(Int)

\* What the compiler raises; None is none of these.
Error ==
    {"ValueError", "NameCollisionError", "UnknownMaskError", "UnknownConverterError", "TypeError"}

ASSUME NoneAssumption == None \notin Error

VARIABLES
    schema,
    phase,     \* how far the compiler is, or the error it raised
    enums,     \* _Emitter.enums
    payloads,  \* _Emitter.payloads: the class, and the register it was made for
    registers, \* the dict of emit(), in its order
    done,      \* registers of the schema emitted
    module     \* the names of the module

schemaVars == <<schema, phase, enums, payloads, registers, done, module>>
Nothing == [n \in {} |-> None]

\* A dict updated with another one.
Update(f, g) == [n \in DOMAIN f \cup DOMAIN g |-> IF n \in DOMAIN g THEN g[n] ELSE f[n]]

SchemaInit ==
    /\ schema \in Parsed /\ phase = "parsed"
    /\ enums = Nothing /\ payloads = Nothing /\ registers = <<>> /\ done = 0
    /\ module = Nothing

\* The payload classes are those of Payload, whose checks they meet.
Classes ==
    INSTANCE Payload WITH Class <- {}, Argument <- {}, Received <- {},
        cls <- None, given <- None, values <- None, todo <- None, arr <- None, got <- None

-----------------------------------------------------------------------------
(* Names                                                                   *)

NamesOf(declarations) == [i \in DOMAIN declarations |-> declarations[i].name]
Keys(members) == [i \in DOMAIN members |-> members[i].key]

\* Mutant: masks are not compared with registers.
DistinctMasks(s) == IsInjective(NamesOf(s.masks))

Distinct(s) == IsInjective(NamesOf(s.registers) \o NamesOf(s.masks))

Validate ==
    /\ phase = "parsed"
    /\ phase' = IF Distinct(schema) THEN "masks" ELSE "ValueError"
    /\ UNCHANGED <<schema, enums, payloads, registers, done, module>>

\* Mutant: the second of two keys of one name replaces the first.
NeverCollide(keys, convert) == FALSE

Collide(keys, convert) == ~IsInjective([i \in DOMAIN keys |-> convert[keys[i]]])

Unusable(keys) == \E i \in DOMAIN keys : field_name[keys[i]] \in Reserved

-----------------------------------------------------------------------------
(* Masks                                                                   *)

\* Mutant: the member 0 of a bit mask stays.
AllMembers(mask) == mask.members

\* An IntFlag has no member 0.
MembersOf(mask) ==
    SelectSeq(mask.members, LAMBDA m : mask.base = "flag" => m.value # 0)

EnumOf(mask) ==
    [kind |-> "enum", base |-> mask.base,
     members |-> [n \in {enum_member_name[m.key] : m \in ToSet(MembersOf(mask))} |->
                    (CHOOSE m \in ToSet(MembersOf(mask)) : enum_member_name[m.key] = n).value]]

BuildEnums ==
    /\ phase = "masks"
    /\ IF \E mask \in ToSet(schema.masks) : Collide(Keys(MembersOf(mask)), enum_member_name)
         THEN phase' = "NameCollisionError" /\ UNCHANGED enums
         ELSE /\ phase' = "emit"
              /\ enums' = [n \in ToSet(NamesOf(schema.masks)) |->
                             EnumOf(CHOOSE mask \in ToSet(schema.masks) : mask.name = n)]
    /\ UNCHANGED <<schema, payloads, registers, done, module>>

\* A mask of the schema, or else of the core.
Found == Update(CoreMasks, enums)
HasBase(name, base) == name \in DOMAIN Found /\ Found[name].base = base

-----------------------------------------------------------------------------
(* Converters                                                              *)

\* The interface types that are numbers, in bytes, and the other ones built in.
Native == [byte |-> 1, sbyte |-> 1, short |-> 2, ushort |-> 2, int |-> 4, uint |-> 4,
           long |-> 8, ulong |-> 8, float |-> 4]
_INTERFACES == DOMAIN Native \cup {"string", "bool", "HarpVersion"}

ConverterOf(converter, width) == [converter |-> converter, width |-> width]

Elements(length) == IF length \in {None, 0} THEN 1 ELSE length

\* An unmasked number of another span is the user's to convert.
NativeFits(it, mask, span) == mask # None \/ span = Native[it]

BuildsIn(it, mask, span) ==
    it \in _INTERFACES /\ (it \in DOMAIN Native => NativeFits(it, mask, span))

BuiltIn(it, elem, span) ==
    IF it \in DOMAIN Native THEN ConverterOf("number", Native[it])
    ELSE IF it = "bool" THEN ConverterOf("bool", 1)
    ELSE ConverterOf("text", IF it = "string" THEN span ELSE 3 * elem)

Symbol(key, it) == (IF it \in _INTERFACES THEN key ELSE it) \o "Converter"

\* None when require_converters refuses.
Extension(symbol, elem) ==
    IF symbol \in DOMAIN schema.converters THEN ConverterOf("text", schema.converters[symbol])
    ELSE IF schema.require_converters THEN None
    ELSE ConverterOf("number", elem)

ResolveConverter(key, it, mask, length, elem) ==
    LET span == Elements(length) * elem IN
    IF BuildsIn(it, mask, span) THEN BuiltIn(it, elem, span)
    ELSE IF mask # None THEN ConverterOf("number", elem)
    ELSE IF it = None THEN ConverterOf(IF Elements(length) > 1 THEN "text" ELSE "number", span)
    ELSE Extension(Symbol(key, it), elem)

-----------------------------------------------------------------------------
(* Payload classes                                                         *)

TypeName(m) == IF m.interfaceType # None THEN m.interfaceType ELSE m.maskType

MemberConverter(reg, m) ==
    ResolveConverter(m.key, m.interfaceType, m.mask, m.length, reg.type)

BuildField(reg, m) ==
    LET offset == IF m.offset = None THEN 0 ELSE m.offset IN
    IF HasBase(TypeName(m), "int")
      THEN GroupMaskOf(reg.type, IF m.mask = None THEN Element(reg.type) ELSE m.mask, offset)
      ELSE Descriptor(IF m.mask = None THEN "whole" ELSE "masked", offset,
                      MemberConverter(reg, m).width, m.mask, MemberConverter(reg, m).converter)

HasDefault(m) ==
    /\ m.default # None /\ Elements(m.length) = 1
    /\ \/ HasBase(TypeName(m), "int")
       \/ m.converter = None /\ m.interfaceType \in DOMAIN Native \cup {"bool", None}

DefaultOf(m) ==
    IF m.interfaceType = "bool" /\ m.default # {} THEN {0} ELSE m.default

StructOf(reg) ==
    LET spec == ToSet(reg.payloadSpec)
        Keyed(name, among) == CHOOSE m \in among : field_name[m.key] = name
        withDefault == {m \in spec : HasDefault(m)}
    IN ClassOf(reg.type, IF Elements(reg.length) > 1 THEN reg.length ELSE None,
            [n \in {field_name[m.key] : m \in spec} |-> BuildField(reg, Keyed(n, spec))],
            [n \in {field_name[m.key] : m \in withDefault} |-> DefaultOf(Keyed(n, withDefault))])

\* A register that is one value, of a mask or of an interface type.
ValueConverter(reg) ==
    ResolveConverter("__value__", reg.interfaceType, None, Elements(reg.length), reg.type)

ValueOf(reg) ==
    Anonymous(reg.type,
        IF HasBase(reg.maskType, "flag") THEN BitMaskOf(reg.type)
        ELSE IF reg.maskType # None THEN GroupMaskOf(reg.type, Element(reg.type), 0)
        ELSE Descriptor("whole", 0, ValueConverter(reg).width, None,
                        ValueConverter(reg).converter))

PayloadClass(reg) == IF reg.payloadSpec # None THEN StructOf(reg) ELSE ValueOf(reg)

Converts(reg, m) == HasBase(TypeName(m), "int") \/ MemberConverter(reg, m) # None

Sound(c) == Classes!MasksFit(c) /\ Classes!SlotsFit(c) /\ Classes!NoOverlap(c)

StructError(reg) ==
    IF Collide(Keys(reg.payloadSpec), field_name) \/ Unusable(Keys(reg.payloadSpec))
      THEN "NameCollisionError"
    ELSE IF \E m \in ToSet(reg.payloadSpec) : ~Converts(reg, m) THEN "UnknownConverterError"
    ELSE IF ~Sound(StructOf(reg)) THEN "TypeError"
    ELSE None

ValueError(reg) ==
    IF reg.maskType # None
      THEN IF reg.maskType \in DOMAIN Found THEN None ELSE "UnknownMaskError"
    ELSE IF reg.interfaceType = None THEN "ValueError"
    ELSE IF ValueConverter(reg) = None THEN "UnknownConverterError"
    ELSE None

PayloadError(reg) == IF reg.payloadSpec # None THEN StructError(reg) ELSE ValueError(reg)

-----------------------------------------------------------------------------
(* Registers                                                               *)

ClassName(reg) == IF reg.private THEN "_" \o reg.name ELSE reg.name

PayloadName(reg) ==
    IF reg.payloadSpec # None /\ reg.interfaceType # None THEN reg.interfaceType
    ELSE reg.name \o "Payload"

IsPlain(reg) ==
    /\ reg.payloadSpec = None /\ reg.maskType = None /\ reg.converter = None
    /\ reg.interfaceType \in {None} \cup DOMAIN Native

\* Mutant: every register gets a payload class of its own.
Uncached(name) == FALSE

Cached(name) == name \in DOMAIN payloads

\* A class of the name of an earlier one takes its place in the dict.
Put(reg) ==
    IF \E i \in DOMAIN registers : registers[i].name = reg.name
      THEN [i \in DOMAIN registers |-> IF registers[i].name = reg.name THEN reg ELSE registers[i]]
      ELSE Append(registers, reg)

EmitPlain(reg) ==
    /\ IsPlain(reg)
    /\ registers' = Put(RegisterOf(ClassName(reg), reg.address, reg.type, Elements(reg.length), None))
    /\ done' = done + 1
    /\ UNCHANGED <<phase, payloads>>

MadeClass(reg) == [kind |-> "payload", owner |-> reg.name, class |-> PayloadClass(reg)]

EmitTyped(reg) ==
    LET name == PayloadName(reg) IN
    /\ ~IsPlain(reg) /\ (Cached(name) \/ PayloadError(reg) = None)
    /\ payloads' = IF Cached(name) THEN payloads
                   ELSE Update(payloads, [n \in {name} |-> MadeClass(reg)])
    /\ registers' = Put(RegisterOf(ClassName(reg), reg.address, reg.type, None, payloads'[name]))
    /\ done' = done + 1
    /\ UNCHANGED phase

Refuse(reg) ==
    /\ ~IsPlain(reg) /\ ~Cached(PayloadName(reg)) /\ PayloadError(reg) # None
    /\ phase' = PayloadError(reg)
    /\ UNCHANGED <<payloads, registers, done>>

BuildRegister ==
    /\ phase = "emit" /\ done < Len(schema.registers)
    /\ LET reg == schema.registers[done + 1] IN EmitPlain(reg) \/ EmitTyped(reg) \/ Refuse(reg)
    /\ UNCHANGED <<schema, enums, module>>

-----------------------------------------------------------------------------
(* The module                                                              *)

Contents ==
    Update(Update(enums, payloads),
           [n \in ToSet(NamesOf(registers)) |->
               registers[CHOOSE i \in DOMAIN registers : registers[i].name = n]])

\* Registers of the device replace those of the core, and later ones earlier ones.
REGISTER_MAP ==
    Update(CORE_REGISTER_MAP,
           [a \in {registers[i].address : i \in DOMAIN registers} |->
               registers[CHOOSE i \in DOMAIN registers :
                   /\ registers[i].address = a
                   /\ \A j \in DOMAIN registers : registers[j].address = a => j <= i]])

\* What the module says of the device, save for the list of its names, __all__.
\* No class keeps one of these names.
Attributes ==
    [DEVICE_NAME |-> IF schema.device = None THEN "" ELSE schema.device,
     WHO_AM_I |-> IF schema.whoAmI = None THEN 0 ELSE schema.whoAmI,
     REGISTER_MAP |-> REGISTER_MAP]

CreateDeviceModule ==
    /\ phase = "emit" /\ done = Len(schema.registers)
    /\ phase' = "made"
    /\ module' = Update(Contents, Attributes)
    /\ UNCHANGED <<schema, enums, payloads, registers, done>>

SchemaNext == Validate \/ BuildEnums \/ BuildRegister \/ CreateDeviceModule

SchemaSpec == SchemaInit /\ [][SchemaNext]_schemaVars
-----------------------------------------------------------------------------
(* Properties                                                              *)

(* Every declaration of the schema is in the module under its name: a      *)
(* register unless a private one has the name, a mask unless a payload     *)
(* class or a private register has it; a payload class hides behind a      *)
(* register only; and the attributes of the device are there, whatever it  *)
(* declares (_names_are_distinct, emit, create_device_module).             *)
NamesKept ==
    LET declared == ToSet(schema.registers)
        private == {ClassName(r) : r \in {r \in declared : r.private}} \cup DOMAIN Attributes
    IN
    phase = "made" =>
        /\ \A n \in DOMAIN Attributes : module[n] = Attributes[n]
        /\ \A r \in declared :
              ClassName(r) \notin DOMAIN Attributes => module[ClassName(r)].kind = "register"
        /\ \A r \in declared : ~r.private /\ r.name \notin private =>
              module[r.name].address = r.address
        /\ \A mask \in ToSet(schema.masks) : mask.name \notin private \cup DOMAIN payloads =>
              module[mask.name] = enums[mask.name]
        /\ \A n \in DOMAIN payloads \ DOMAIN Attributes :
              module[n] = payloads[n] \/ module[n].kind = "register"

\* The payload class was made for this register, not for another one of its type.
MadeFor(reg) ==
    /\ ~IsPlain(reg) /\ PayloadName(reg) \in DOMAIN payloads
    /\ payloads[PayloadName(reg)].owner = reg.name

Made(reg) == payloads[PayloadName(reg)].class

(* Each member of a mask but the 0 of a bit mask is a member of its own of *)
(* the enum, with its value.  The payload class made for a register has    *)
(* one field for each member of its payloadSpec, at the offset and on the  *)
(* bits the member declares.  Both hold whatever the members are renamed   *)
(* to.  A number without a mask and without a converter of the user's      *)
(* takes the bytes its length declares, so that none of what follows it is *)
(* read (_build_enums, _rename, _native).                                   *)
MembersKept ==
    /\ phase \in {"emit", "made"} =>
          \A mask \in ToSet(schema.masks) : \A m \in ToSet(MembersOf(mask)) :
              /\ enums[mask.name].members[enum_member_name[m.key]] = m.value
              /\ \A n \in ToSet(MembersOf(mask)) \ {m} :
                    enum_member_name[n.key] # enum_member_name[m.key]
    /\ \A reg \in ToSet(schema.registers) :
          reg.payloadSpec # None /\ MadeFor(reg) =>
              /\ Cardinality(DOMAIN Made(reg).fields) = Len(reg.payloadSpec)
              /\ \A m \in ToSet(reg.payloadSpec) :
                    LET f == Made(reg).fields[field_name[m.key]] IN
                    /\ f.offset = IF m.offset = None THEN 0 ELSE m.offset
                    /\ m.mask # None => f.mask = m.mask
                    /\ schema.require_converters /\ f.kind = "whole" /\ f.converter = "number" =>
                          f.width = Elements(m.length) * reg.type

(* Registers of one payload type have one class, the one the module names  *)
(* (the cache of _build_payload; "so registers sharing an interfaceType    *)
(* share one class"), unless another register took the name of theirs.     *)
IsClassOf(i, reg) ==
    /\ registers[i].name = ClassName(reg)
    /\ \A other \in ToSet(schema.registers) : ClassName(other) = ClassName(reg) => other = reg

OneClassPerType ==
    \A r, other \in {r \in ToSet(schema.registers) : ~IsPlain(r)} :
        \A i, j \in DOMAIN registers :
            PayloadName(r) = PayloadName(other) /\ IsClassOf(i, r) /\ IsClassOf(j, other) =>
                /\ registers[i].payload = registers[j].payload
                /\ registers[i].payload = payloads[PayloadName(r)]

(* "A name describing two declarations is rejected rather than shadowed"   *)
(* (_module.py): every mask, payload class and register class made is in   *)
(* the module, but under the names of the attributes of the device.  The   *)
(* code compares the names of the registers and masks of the schema only,  *)
(* and a payload class named by an interfaceType replaces a mask.          *)
OneDeclarationPerName ==
    phase = "made" =>
        /\ \A n \in DOMAIN enums \ DOMAIN Attributes : module[n] = enums[n]
        /\ \A n \in DOMAIN payloads \ DOMAIN Attributes : module[n] = payloads[n]
        /\ \A i \in DOMAIN registers :
              registers[i].name \notin DOMAIN Attributes => module[registers[i].name] = registers[i]

(* Why: names are compared before anything is emitted; each class emitted  *)
(* is that of a register emitted before, and each payload class was made   *)
(* for one, with the masks there are, and without error.                   *)
Emitted == {schema.registers[k] : k \in 1..done}

PayloadOf(reg) == IF IsPlain(reg) THEN None ELSE payloads[PayloadName(reg)]

ClassesEmitted ==
    /\ \A i \in DOMAIN registers : \E reg \in Emitted :
          /\ registers[i].kind = "register" /\ registers[i].name = ClassName(reg)
          /\ registers[i].address = reg.address /\ registers[i].payload = PayloadOf(reg)
    /\ \A reg \in Emitted :
          /\ \E i \in DOMAIN registers : registers[i].name = ClassName(reg)
          /\ ~IsPlain(reg) => PayloadName(reg) \in DOMAIN payloads

PayloadsMade ==
    \A n \in DOMAIN payloads : \E reg \in Emitted :
        /\ ~IsPlain(reg) /\ PayloadName(reg) = n /\ PayloadError(reg) = None
        /\ payloads[n] = MadeClass(reg)

EnumsBuilt ==
    \A mask \in ToSet(schema.masks) :
        ~Collide(Keys(MembersOf(mask)), enum_member_name) /\ enums[mask.name] = EnumOf(mask)

IInv ==
    /\ schema \in Parsed /\ done \in 0..Len(schema.registers)
    /\ phase \in {"parsed", "masks"} => done = 0
    /\ phase \in {"masks", "emit", "made"} \/ done # 0 => Distinct(schema)
    /\ phase \in {"emit", "made"} => DOMAIN enums = ToSet(NamesOf(schema.masks)) /\ EnumsBuilt
    /\ registers \in Seq(Range(registers)) /\ ClassesEmitted /\ PayloadsMade
    /\ phase = "made" =>
          done = Len(schema.registers) /\ module = Update(Contents, Attributes)
=============================================================================
