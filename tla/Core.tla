-------------------------------- MODULE Core --------------------------------
(***************************************************************************)
(* The registers and masks every device has (harp.device.core), in the     *)
(* form in which Schema emits those of a device: a mask is an enum with    *)
(* named values, a register has an address, an element of so many bytes,   *)
(* a length, and the payload class of Payload, or None for a plain number. *)
(***************************************************************************)
EXTENDS Integers

CONSTANT None

Flags(members) == [kind |-> "enum", base |-> "flag", members |-> members]
Codes(members) == [kind |-> "enum", base |-> "int", members |-> members]

CoreMasks ==
    [ResetFlags |->
        Flags([RESTORE_DEFAULT |-> 1, RESTORE_EEPROM |-> 2, SAVE |-> 4, RESTORE_NAME |-> 8,
               UPDATE_FIRMWARE |-> 32, BOOT_FROM_DEFAULT |-> 64, BOOT_FROM_EEPROM |-> 128]),
     ClockConfigurationFlags |->
        Flags([CLOCK_REPEATER |-> 1, CLOCK_GENERATOR |-> 2, REPEATER_CAPABILITY |-> 8,
               GENERATOR_CAPABILITY |-> 16, CLOCK_UNLOCK |-> 64, CLOCK_LOCK |-> 128]),
     OperationMode |-> Codes([STANDBY |-> 0, ACTIVE |-> 1, SPEED |-> 3]),
     EnableFlag |-> Codes([n \in {"DISABLED", "ENABLED"} |-> IF n = "ENABLED" THEN 1 ELSE 0])]

-----------------------------------------------------------------------------
(* Payload classes, with masks as the sets of their bits                   *)

Element(bytes) == 0..(8 * bytes - 1)

Descriptor(kind, offset, width, mask, converter) ==
    [kind |-> kind, offset |-> offset, width |-> width, mask |-> mask, converter |-> converter]

ClassOf(elem, length, fields, defaults) ==
    [elem |-> elem, length |-> length, fields |-> fields, defaults |-> defaults]

NoDefaults == [n \in {} |-> {}]

\* A payload of one anonymous value.
Anonymous(elem, descriptor) == ClassOf(elem, None, [n \in {"__value__"} |-> descriptor], NoDefaults)

\* An enum of the bits of a mask: a BitMask over the element, a GroupMask over some bits.
BitMaskOf(elem) == Descriptor("flags", 0, elem, None, "code")
GroupMaskOf(elem, bits, offset) == Descriptor("masked", offset, elem, bits, "code")
BoolOf(bits) == Descriptor("masked", 0, 1, bits, "bool")

OperationControlPayload ==
    ClassOf(1, None,
        [operation_mode |-> GroupMaskOf(1, {0, 1}, 0),
         dump_registers |-> BoolOf({3}),
         mute_replies |-> BoolOf({4}),
         visual_indicators |-> GroupMaskOf(1, {5}, 0),
         operation_led |-> GroupMaskOf(1, {6}, 0),
         heartbeat |-> GroupMaskOf(1, {7}, 0)],
        NoDefaults)

CorePayloads ==
    [OperationControlPayload |-> OperationControlPayload,
     ResetDevicePayload |-> Anonymous(1, BitMaskOf(1)),
     DeviceNamePayload |-> Anonymous(1, Descriptor("whole", 0, 25, None, "text")),
     ClockConfigurationPayload |-> Anonymous(1, BitMaskOf(1))]

-----------------------------------------------------------------------------
(* Registers                                                               *)

\* A register class: name, address, bytes of its element, length, payload class.
RegisterOf(name, address, elem, length, payload) ==
    [kind |-> "register", name |-> name, address |-> address, elem |-> elem,
     length |-> length, payload |-> payload]

Plain(name, address, elem) == RegisterOf(name, address, elem, 1, None)
Typed(name, address, payload) == RegisterOf(name, address, 1, None, payload)

CoreRegisters ==
    {Plain("WhoAmI", 0, 2), Plain("HardwareVersionHigh", 1, 1), Plain("HardwareVersionLow", 2, 1),
     Plain("AssemblyVersion", 3, 1), Plain("CoreVersionHigh", 4, 1),
     Plain("CoreVersionLow", 5, 1), Plain("FirmwareVersionHigh", 6, 1),
     Plain("FirmwareVersionLow", 7, 1), Plain("TimestampSeconds", 8, 4),
     Plain("TimestampMicroseconds", 9, 2), Typed("OperationControl", 10, "OperationControlPayload"),
     Typed("ResetDevice", 11, "ResetDevicePayload"), Typed("DeviceName", 12, "DeviceNamePayload"),
     Plain("SerialNumber", 13, 2), Typed("ClockConfiguration", 14, "ClockConfigurationPayload")}

CORE_REGISTER_MAP ==
    [a \in {r.address : r \in CoreRegisters} |-> CHOOSE r \in CoreRegisters : r.address = a]
=============================================================================
