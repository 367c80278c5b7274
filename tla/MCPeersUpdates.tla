---------------------------- MODULE MCPeersUpdates ----------------------------
(* Small instances of PeersUpdates for TLC. *)
EXTENDS PeersUpdates

zeros(n) == [i \in 1 .. n |-> 0]

\* A data type; the rates have a counter and a period.
dt(t) == [type |-> t, counter |-> 0, period |-> 0]
rate(t, n) == [type |-> t, counter |-> n, period |-> 10000]

definition(id, name, keyType, keyLength, types) ==
    [id |-> id, name |-> name, keyType |-> keyType, keyLength |-> keyLength,
     types |-> types, expiry |-> 60000]

with(d, keys, datas) == [definition |-> d, entries |-> [key : keys, data : datas]]

\* Every type of key and kind of data.  Definitions differ in ID, name, sizes and
\* parameters; data lie on both sides of the steps of a varint.
SomeTables ==
    {with(definition(1, <<97>>, SignedIntegerKey, 4, <<dt(0), dt(13)>>),
          {<<0>>, <<66000>>}, {<<<<239>>, <<240>>>>, <<<<0>>, <<2288>>>>}),
     with(definition(240, zeros(240), IPv4AddressKey, 4, <<dt(1), rate(21, 21)>>),
          {<<127, 0, 0, 1>>}, {<<<<42>>, <<2287, 0, 240>>>>}),
     with(definition(2, <<98>>, IPv6AddressKey, 16, <<rate(3, 3), rate(14, 240), dt(26)>>),
          {zeros(15) \o <<1>>}, {<<<<1, 2, 3>>, <<240, 0, 1>>, <<0, 255, 256>>>>}),
     with(definition(3, <<>>, StringKey, 32, <<dt(2), dt(19), dt(25)>>),
          {<<>>, zeros(31)}, {<<<<7>>, <<1, 65, 66>>, <<8>>>>}),
     with(definition(0, <<99>>, BinaryKey, 3, <<>>), {<<255, 0, 240>>}, {<<>>})}

\* A server key, before another datum: none, or one whose name is one byte long.
KeyedTables ==
    {with(definition(3, <<98>>, StringKey, 32, <<dt(19), dt(20)>>),
          {<<97>>}, {<<<<0>>, <<7>>>>, <<<<1, 65>>, <<7>>>>})}
===============================================================================
