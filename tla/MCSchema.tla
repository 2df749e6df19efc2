------------------------------ MODULE MCSchema ------------------------------
(* Schemas for TLC: one or two registers out of a list, with the masks and *)
(* converters they may or may not find, and core.yml.                      *)
EXTENDS Schema, TLC

Bits(members) == [base |-> "flag", members |-> members]
Values(members) == [base |-> "int", members |-> members]
Key(key, value) == [key |-> key, value |-> value]
MaskNamed(name, mask) == [name |-> name, base |-> mask.base, members |-> mask.members]

Member(key, offset) ==
    [key |-> key, offset |-> offset, length |-> None, mask |-> None, maskType |-> None,
     interfaceType |-> None, converter |-> None, default |-> None]
Masked(key, mask) == [Member(key, None) EXCEPT !.mask = mask]
Reg(name, address, type) ==
    [name |-> name, address |-> address, type |-> type, length |-> 1, private |-> FALSE,
     payloadSpec |-> None, maskType |-> None, interfaceType |-> None, converter |-> None]
Spec2(name, address, length, spec) ==
    [Reg(name, address, 1) EXCEPT !.length = length, !.payloadSpec = spec]

Number(key, offset, length, it) ==
    [Member(key, offset) EXCEPT !.length = length, !.interfaceType = it]
Code(key, mask, type) == [Masked(key, mask) EXCEPT !.maskType = type]

\* Plain numbers, one at an address of the core; values; structs; errors of each kind.
Plains ==
    {Reg("Count", 32, 2), [Reg("Samples", 33, 1) EXCEPT !.length = 3], Reg("Who", 0, 2),
     [Reg("Wide", 34, 1) EXCEPT !.interfaceType = "uint"], [Reg("Off", 32, 1) EXCEPT !.private = TRUE],
     Reg("_Off", 33, 1), Reg("Mode", 36, 1), Reg("Pulse", 37, 1), Reg("StatePayload", 38, 1),
     Reg("REGISTER_MAP", 39, 1), Reg("WHO_AM_I", 35, 2)}
SingleValues ==
    {[Reg("Modes", 40, 2) EXCEPT !.maskType = "Mode"], [Reg("Lines", 41, 1) EXCEPT !.maskType = "Port"],
     [Reg("Led", 42, 1) EXCEPT !.maskType = "EnableFlag"],
     [Reg("Name", 43, 1) EXCEPT !.interfaceType = "string", !.length = 5],
     [Reg("Flag", 44, 2) EXCEPT !.interfaceType = "bool"],
     [Reg("Raw", 45, 1) EXCEPT !.interfaceType = "ushort", !.converter = "Payload"],
     [Reg("Word", 46, 1) EXCEPT !.interfaceType = "ushort", !.converter = "Payload", !.length = 2],
     [Reg("Point", 47, 4) EXCEPT !.interfaceType = "Vector", !.length = 3],
     [Reg("Bad", 48, 1) EXCEPT !.converter = "Payload"]}
Structs ==
    {Spec2("State", 50, 1, <<Code("DIO0", {0, 1}, "Mode"), Code("Duty", {4}, "EnableFlag"),
                             [Masked("Bit", {7}) EXCEPT !.interfaceType = "bool", !.default = {0, 2}]>>),
     Spec2("Clash", 51, 2, <<Member("DIO0", 0), Member("Dio0", 1)>>),
     Spec2("Keyword", 52, 1, <<Member("Class", 0)>>),
     Spec2("Mixed", 53, 8, <<Number("DIO0", 0, 2, "ushort"), Number("Dio0x", 2, 3, "HarpVersion"),
                             Number("Duty", 5, 3, None)>>),
     Spec2("Narrow", 54, 5, <<Number("DIO0", 0, 1, "uint"), Number("Duty", 4, 1, None)>>),
     Spec2("Odd", 55, 3, <<Number("Duty", 0, 3, "ushort"),
                           [Member("Bit", 0) EXCEPT !.mask = {1}, !.interfaceType = "byte"]>>),
     Spec2("Text", 56, 4, <<Number("DIO0", 1, 3, "string"), [Member("Duty", 0) EXCEPT !.default = {3}]>>),
     Spec2("Loose", 57, 1, <<Code("DIO0", None, "Port"), Masked("Duty", {9})>>),
     [Spec2("Start", 58, 1, <<Masked("DIO0", {0})>>) EXCEPT !.interfaceType = "Pulse"],
     [Spec2("Stop", 59, 1, <<Masked("Duty", {1, 2})>>) EXCEPT !.interfaceType = "Pulse"]}

Listed == Plains \cup SingleValues \cup Structs

\* None, a mask named as a register or a payload type is, masks whose keys collide or are 0.
MaskLists ==
    {<<>>,
     <<MaskNamed("Mode", Values(<<Key("Duty", 0), Key("DIO0", 2)>>)),
       MaskNamed("Port", Bits(<<Key("Nothing", 0), Key("Duty", 4)>>))>>,
     <<MaskNamed("Mode", Bits(<<Key("DIO0", 1), Key("Dio0", 0)>>)), MaskNamed("Pulse", Values(<<Key("Duty", 1)>>))>>,
     <<MaskNamed("Port", Bits(<<Key("DIO0", 1), Key("Dio0", 2)>>))>>}
Given == {Nothing, "VectorConverter" :> 12 @@ "DutyConverter" :> 3 @@ "__value__Converter" :> 1}

SchemaOf(masks, list, converters, required) ==
    [masks |-> masks, registers |-> list, converters |-> converters,
     require_converters |-> required, device |-> "Rig", whoAmI |-> None]

Lists ==
    {<<r>> : r \in Listed} \cup {s \in Listed \X Listed : s[1].name # s[2].name}

-----------------------------------------------------------------------------
(* core.yml                                                                *)

CoreBits(name, keys) ==
    MaskNamed(name, Bits(<<Key("None", 0)>> \o
        [i \in DOMAIN keys |-> Key(keys[i], CoreMasks[name].members[enum_member_name[keys[i]]])]))
CoreValues(name, keys) ==
    MaskNamed(name, Values(
        [i \in DOMAIN keys |-> Key(keys[i], CoreMasks[name].members[enum_member_name[keys[i]]])]))

CoreYml ==
    SchemaOf(
        <<CoreBits("ResetFlags", <<"RestoreDefault", "RestoreEeprom", "Save", "RestoreName",
                                   "UpdateFirmware", "BootFromDefault", "BootFromEeprom">>),
          CoreBits("ClockConfigurationFlags", <<"ClockRepeater", "ClockGenerator",
                   "RepeaterCapability", "GeneratorCapability", "ClockUnlock", "ClockLock">>),
          CoreValues("OperationMode", <<"Standby", "Active", "Speed">>),
          CoreValues("EnableFlag", <<"Disabled", "Enabled">>)>>,
        <<Reg("WhoAmI", 0, 2), Reg("HardwareVersionHigh", 1, 1), Reg("HardwareVersionLow", 2, 1),
          Reg("AssemblyVersion", 3, 1), Reg("CoreVersionHigh", 4, 1), Reg("CoreVersionLow", 5, 1),
          Reg("FirmwareVersionHigh", 6, 1), Reg("FirmwareVersionLow", 7, 1),
          Reg("TimestampSeconds", 8, 4), Reg("TimestampMicroseconds", 9, 2),
          Spec2("OperationControl", 10, 1,
            <<Code("OperationMode", {0, 1}, "OperationMode"),
              [Masked("DumpRegisters", {3}) EXCEPT !.interfaceType = "bool"],
              [Masked("MuteReplies", {4}) EXCEPT !.interfaceType = "bool"],
              Code("VisualIndicators", {5}, "EnableFlag"), Code("OperationLed", {6}, "EnableFlag"),
              Code("Heartbeat", {7}, "EnableFlag")>>),
          [Reg("ResetDevice", 11, 1) EXCEPT !.maskType = "ResetFlags"],
          [Reg("DeviceName", 12, 1) EXCEPT !.interfaceType = "string", !.length = 25],
          Reg("SerialNumber", 13, 2),
          [Reg("ClockConfiguration", 14, 1) EXCEPT !.maskType = "ClockConfigurationFlags"]>>,
        Nothing, TRUE)

Schemas == {SchemaOf(masks, list, given, required) : masks \in MaskLists, list \in Lists,
              given \in Given, required \in BOOLEAN} \cup {CoreYml}

(* The registers and masks the compiler makes of core.yml are those of the *)
(* package generated from it: "The runtime emitter must produce the same   *)
(* identifiers as the statically generated device packages" (_naming.py).  *)
EmitsTheCore ==
    schema = CoreYml => phase \in {"parsed", "masks", "emit", "made"} /\
        (phase = "made" =>
            /\ enums = CoreMasks
            /\ [n \in DOMAIN payloads |-> payloads[n].class] = CorePayloads
            /\ {[r EXCEPT !.payload = IF @ = None THEN None ELSE PayloadName(
                     CHOOSE reg \in ToSet(schema.registers) : reg.name = @.owner)] :
                  r \in ToSet(registers)} = CoreRegisters)

-----------------------------------------------------------------------------
Names ==
    "DIO0" :> "DIO0" @@ "Dio0" :> "DIO0" @@ "Dio0x" :> "DIO0X" @@ "Duty" :> "DUTY" @@ "Bit" :> "BIT"
    @@ "Class" :> "CLASS" @@ "Nothing" :> "NOTHING" @@ "None" :> "NONE"
    @@ "RestoreDefault" :> "RESTORE_DEFAULT" @@ "RestoreEeprom" :> "RESTORE_EEPROM"
    @@ "Save" :> "SAVE" @@ "RestoreName" :> "RESTORE_NAME"
    @@ "UpdateFirmware" :> "UPDATE_FIRMWARE" @@ "BootFromDefault" :> "BOOT_FROM_DEFAULT"
    @@ "BootFromEeprom" :> "BOOT_FROM_EEPROM" @@ "ClockRepeater" :> "CLOCK_REPEATER"
    @@ "ClockGenerator" :> "CLOCK_GENERATOR" @@ "RepeaterCapability" :> "REPEATER_CAPABILITY"
    @@ "GeneratorCapability" :> "GENERATOR_CAPABILITY" @@ "ClockUnlock" :> "CLOCK_UNLOCK"
    @@ "ClockLock" :> "CLOCK_LOCK" @@ "Standby" :> "STANDBY" @@ "Active" :> "ACTIVE"
    @@ "Speed" :> "SPEED" @@ "Disabled" :> "DISABLED" @@ "Enabled" :> "ENABLED"

FieldNames ==
    "DIO0" :> "dio0" @@ "Dio0" :> "dio0" @@ "Dio0x" :> "dio0x" @@ "Duty" :> "duty" @@ "Bit" :> "bit"
    @@ "Class" :> "class" @@ "OperationMode" :> "operation_mode"
    @@ "DumpRegisters" :> "dump_registers" @@ "MuteReplies" :> "mute_replies"
    @@ "VisualIndicators" :> "visual_indicators" @@ "OperationLed" :> "operation_led"
    @@ "Heartbeat" :> "heartbeat"

Keywords == {"class"}
=============================================================================
