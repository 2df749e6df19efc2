----------------------------- MODULE MCDataset -----------------------------
(* A folder for TLC: three chunks of one register, of which one looks like *)
(* another by its suffix, an array, a struct, and a file of another device, *)
(* whose name begins with the name of the first.                           *)
EXTENDS Dataset, TLC

U8 == [kind |-> "unsigned", size |-> 1]
U16 == [kind |-> "unsigned", size |-> 2]

Numbers == "32" :> 32 @@ "33" :> 33 @@ "2" :> 2 @@ "1" :> 1
Stems == << <<"Dev", "2", "33">>, <<"Dev", "32">>, <<"Dev", "32", "1">>, <<"Dev", "32", "2", "1">>,
            <<"Dev", "33">> >>

Counter == Scalar(32, U16)
Samples == Array(33, U8, 3)
State == Struct(33, U8, 3)
Short == Struct(33, U8, 2)

Second == TicksPerSecond * 2
Sent(reg, type, payload, t) == Formatted(reg, payload, type, DefaultPort, t, 2)

Logged ==
    [s \in Stem |->
        IF s = <<"Dev", "32">> THEN {Sent(Counter, 3, <<1, 2>>, Second - 1)}
        ELSE IF s[2] = "32" THEN {Sent(Counter, 1, <<5, 200>>, Second)}
        ELSE {Sent(Samples, 3, <<1, 2, 3>>, None)}]

Bulk(reg, rows, types, times) == [register |-> reg, rows |-> rows, types |-> types, times |-> times]
Tables ==
    [s \in Stem |->
        IF s = <<"Dev", "32">> THEN {Bulk(Counter, <<>>, <<3>>, None)}
        ELSE IF s[2] = "32"
          THEN {Bulk(Counter, << <<9, 9>>, <<8, 255>> >>, <<3, 10>>,
                     <<2 * Second - 1, 256 * Second>>)}
          ELSE {Bulk(Samples, << <<7, 7, 250>>, <<6, 6, 6>> >>, <<2>>, <<1, 3>>),
                Bulk(Samples, << <<4, 4>> >>, <<2>>, None)}]

DeviceOf(name, id, registers) ==
    [DEVICE_NAME |-> name, WHO_AM_I |-> id, REGISTER_MAP |-> registers]
Named(name, register) == [name |-> name, register |-> register]
Native == 32 :> Named("Counter", Counter) @@ 33 :> Named("Samples", Samples)
Generated == 32 :> Named("Counter", Counter) @@ 33 :> Named("State", State)
Older == 32 :> Named("Counter", Counter) @@ 33 :> Named("State", Short)

Modules == {DeviceOf(<<"Dev">>, 7, Native), DeviceOf(<<"Dev", "2">>, 8, Older)}
SchemaFile(name, id) == [module |-> DeviceOf(name, 0, Generated), whoAmI |-> id]
Schemas == {Damaged, SchemaFile(<<"Dev">>, 7), SchemaFile(<<>>, 8)}
Ymls == {None, Damaged, SchemaFile(<<"Dev">>, 7)}
Given == {<<"Dev">>}
Suffixes == {<<"1">>, <<"32">>, <<"9">>}
=============================================================================
