------------------------------ MODULE StickTable ------------------------------
(****************************************************************************)
(* The stick table codec (peers/sticktable): Marshal and Unmarshal of table *)
(* definitions, entry updates, keys and data.                               *)
(*                                                                          *)
(* A key or a datum is a sequence of numbers: the bytes of an address, a    *)
(* string or a binary key, the number of an integer, the three numbers of a *)
(* rate, the ID of a dictionary entry followed by the bytes of its value.   *)
(* Numbers are not negative and fit the fields they are in.  Marshal has    *)
(* room: the Writer gives it 4 KB for a definition and 64 KB for an entry.  *)
(****************************************************************************)
EXTENDS Encoding

SignedIntegerKey == 2       \* the key types; New panics for all others
IPv4AddressKey == 4
IPv6AddressKey == 5
StringKey == 6
BinaryKey == 7
KeyTypes == {SignedIntegerKey, IPv4AddressKey, IPv6AddressKey, StringKey, BinaryKey}

DataTypes == 0 .. 26        \* DataType.New knows them

\* DataType.IsDelay: the rates, of which a definition has two parameters each.
IsDelay(t) == t \in {3, 5, 8, 10, 12, 14, 16, 18, 21}

\* DataType.New: a rate, a dictionary entry, or a number of some width.  The rate
\* of glitches is no IsDelay, and arrays are taken for dictionary entries.
IsFreq(t) == IsDelay(t) \/ t = 26
IsDict(t) == t \in {19, 22, 23, 24}

\* uint32, and numbers that fit every integer type.
Half == 256 * 256
Word(n) == n \in Nat /\ n \div Half < Half
Int31 == {n \in Nat : n \div Half < 128 * 256}

\* What can be sent: definitions have their data types in the order of their bits,
\* and parameters for rates only; entries have a key of the definition's type and
\* size, and a datum for each of its data types.
IsDefinition(d) ==
    /\ d \in [id : Nat, name : Seq(Byte), keyType : KeyTypes, keyLength : Nat, expiry : Nat,
             types : Seq([type : DataTypes, counter : Nat, period : Nat])]
    /\ \A i \in DOMAIN d.types :
           /\ \A j \in 1 .. i - 1 : d.types[j].type < d.types[i].type
           /\ IsDelay(d.types[i].type) \/ (d.types[i].counter = 0 /\ d.types[i].period = 0)

IsKey(t, size, k) == CASE t = SignedIntegerKey -> k \in [1 .. 1 -> Int31]
                       [] t = IPv4AddressKey -> k \in [1 .. 4 -> Byte]
                       [] t = IPv6AddressKey -> k \in [1 .. 16 -> Byte]
                       [] t = StringKey -> k \in Seq(Byte)
                       [] t = BinaryKey -> k \in Seq(Byte) /\ Len(k) = size

IsDatum(t, v) == IF IsDict(t) THEN v \in Seq(Nat) /\ v # <<>> /\ Tail(v) \in Seq(Byte)
                 ELSE IF IsFreq(t) THEN v \in [1 .. 3 -> Nat] ELSE v \in [1 .. 1 -> Int31]

IsEntry(d, e) == /\ IsKey(d.keyType, d.keyLength, e.key)
                 /\ e.data \in Seq(Seq(Nat)) /\ Len(e.data) = Len(d.types)
                 /\ \A i \in DOMAIN d.types : IsDatum(d.types[i].type, e.data[i])

-------------------------------------------------------------------------------
(* Marshal *)

\* binary.BigEndian.PutUint32.
Put32(v) == <<((v \div Half) \div 256) % 256, (v \div Half) % 256, (v \div 256) % 256, v % 256>>

\* PutVarint of one number after the other.
PutVarints(v) == FlattenSeq([i \in DOMAIN v |-> PutVarint(v[i])])

\* MapKey.Marshal; copy cuts a binary key that is too long.
PutKey(t, size, k) ==
    CASE t = SignedIntegerKey -> Outcome("ok", Put32(k[1]), <<>>)
      [] t \in {IPv4AddressKey, IPv6AddressKey} ->
            Outcome(IF size = Len(k) THEN "ok" ELSE "error", k, <<>>)
      [] t = StringKey -> Outcome("ok", PutBytes(k), <<>>)
      [] t = BinaryKey -> Outcome("ok", Take(k, size), <<>>)

\* DictData.Marshal: the value's length where the length of all that follows
\* belongs, the ID, and the value with its length unless it is empty.
PutDict(id, value) ==
    PutVarint(Len(value)) \o PutVarint(id) \o (IF value = <<>> THEN <<>> ELSE PutBytes(value))

\* MapData.Marshal.
PutData(t, v) == IF IsDict(t) THEN PutDict(Head(v), Tail(v))
                 ELSE PutVarints(v)

\* The data types as the bits of a number: type t is bit t.
BitField(types) ==
    LET from[t \in 0 .. 27] ==
            IF t = 27 THEN 0 ELSE (IF t \in types THEN 1 ELSE 0) + 2 * from[t + 1]
    IN from[0]

DataTypesOf(d) == {d.types[i].type : i \in DOMAIN d.types}

\* The parameters of the rates, in the order of the definition's DataTypes.
PutDelay(x) == IF IsDelay(x.type) THEN PutVarints(<<x.counter, x.period>>) ELSE <<>>
PutDelays(types) == FlattenSeq([i \in DOMAIN types |-> PutDelay(types[i])])

\* Mutant: expiry and data types change places.
PutDefinitionSwapped(d) ==
    PutVarint(d.id) \o PutBytes(d.name)
        \o PutVarints(<<d.keyType, d.keyLength, d.expiry, BitField(DataTypesOf(d))>>)
        \o PutDelays(d.types)

\* Definition.Marshal.
PutDefinition(d) ==
    PutVarint(d.id) \o PutBytes(d.name)
        \o PutVarints(<<d.keyType, d.keyLength, BitField(DataTypesOf(d)), d.expiry>>)
        \o PutDelays(d.types)

\* EntryUpdate.Marshal, and marshalEntry with an ID: ID and expiry if they are to
\* be there, the key and the data.
PutEntry(e, withID) ==
    LET key == PutKey(e.table.keyType, e.table.keyLength, e.key)
        data == [i \in DOMAIN e.data |-> PutData(e.table.types[i].type, e.data[i])]
    IN Outcome(key.is, (IF withID THEN Put32(e.id) ELSE <<>>)
                           \o (IF e.timed THEN Put32(e.expiry) ELSE <<>>)
                           \o key.val \o FlattenSeq(data), <<>>)

-------------------------------------------------------------------------------
(* Unmarshal *)

\* binary.BigEndian.Uint32.
Get32(b) ==
    LET x == Fixed(b, 4).val
    IN IF Len(b) < 4 THEN Outcome("panic", 0, b)
       ELSE Outcome("ok", Half * (256 * x[1] + x[2]) + 256 * x[3] + x[4], Drop(b, 4))

\* A length and as many bytes; where bytes are missing there are zeros.
Copied(b) ==
    LET l == Varint(b)
        padded == [i \in 1 .. l.val |-> IF i <= Len(l.rest) THEN l.rest[i] ELSE 0]
    IN IF l.is = "ok" THEN Outcome("ok", padded, Drop(l.rest, l.val))
       ELSE Outcome(l.is, <<>>, b)

\* n numbers, as a sequence.
Varints(b, n) ==
    LET read[i \in 0 .. n] ==
            IF i = 0 THEN Outcome("ok", <<>>, b)
            ELSE LET o == read[i - 1]
                     v == Varint(o.rest)
                 IN IF o.is = "ok" THEN Outcome(v.is, Append(o.val, v.val), v.rest) ELSE o
    IN read[n]

\* MapKey.Unmarshal.
GetKey(t, size, b) ==
    LET number == Get32(b)
    IN CASE t = SignedIntegerKey -> Outcome(number.is, <<number.val>>, number.rest)
         [] t = IPv4AddressKey -> IF size = 4 THEN Fixed(b, 4) ELSE Outcome("error", <<>>, b)
         [] t = IPv6AddressKey -> IF size = 16 THEN Fixed(b, 16) ELSE Outcome("error", <<>>, b)
         [] t = StringKey -> Bytes(b)
         [] t = BinaryKey -> Fixed(b, size)
         [] OTHER -> Outcome("panic", <<>>, b)

\* DictData.Unmarshal: the length says whether there is an ID, and a value.
GetDict(b) ==
    LET length == Varint(b)
        id == Varint(length.rest)
        value == Copied(id.rest)
    IN CASE length.is # "ok" -> Outcome(length.is, <<>>, b)
         [] length.is = "ok" /\ length.val = 0 -> Outcome("ok", <<0>>, length.rest)
         [] length.is = "ok" /\ length.val > 0 /\ id.is # "ok" -> Outcome(id.is, <<>>, b)
         [] length.is = "ok" /\ length.val = 1 /\ id.is = "ok" -> Outcome("ok", <<id.val>>, id.rest)
         [] OTHER -> Outcome(value.is, <<id.val>> \o value.val, value.rest)

\* MapData.Unmarshal.
GetData(t, b) == IF IsDict(t) THEN GetDict(b) ELSE Varints(b, IF IsFreq(t) THEN 3 ELSE 1)

\* A data type of a definition, and the parameters of a rate.
AddType(o, t) ==
    LET delay == IF IsDelay(t) THEN Varints(o.rest, 2) ELSE Outcome("ok", <<0, 0>>, o.rest)
        x == [type |-> t, counter |-> delay.val[1], period |-> delay.val[2]]
    IN CASE o.is # "ok" -> o
         [] o.is = "ok" /\ t \notin DataTypes -> Outcome("error", o.val, o.rest)
         [] o.is = "ok" /\ t \in DataTypes /\ delay.is # "ok" -> Outcome(delay.is, o.val, o.rest)
         [] OTHER -> Outcome("ok", Append(o.val, x), delay.rest)

\* dataTypes >> i.
Shifted(field) == LET s[i \in Nat] == IF i = 0 THEN field ELSE s[i - 1] \div 2 IN s

\* The loop over the 64 bits of dataTypes.
TypesOf(field, b) ==
    LET read[i \in 0 .. 64] ==
            IF i = 0 THEN Outcome("ok", <<>>, b)
            ELSE IF Shifted(field)[i - 1] % 2 = 1 THEN AddType(read[i - 1], i - 1)
            ELSE read[i - 1]
    IN read[64]

\* Definition.Unmarshal.
GetDefinition(b) ==
    LET id == Varint(b)
        name == Copied(id.rest)
        v == Varints(name.rest, 4)
        types == TypesOf(v.val[3], v.rest)
    IN IF id.is = "ok" /\ name.is = "ok" /\ v.is = "ok" /\ types.is = "ok"
       THEN Outcome("ok",
               [id |-> id.val, name |-> name.val, keyType |-> v.val[1], keyLength |-> v.val[2],
                expiry |-> v.val[4], types |-> types.val], types.rest)
       ELSE Outcome("error", <<>>, b)

\* The data of an entry, for the data types of its table.
DataOf(types, b) ==
    LET read[i \in 0 .. Len(types)] ==
            IF i = 0 THEN Outcome("ok", <<>>, b)
            ELSE LET o == read[i - 1]
                     v == GetData(types[i].type, o.rest)
                 IN IF o.is = "ok" THEN Outcome(v.is, Append(o.val, v.val), v.rest) ELSE o
    IN read[Len(types)]

\* EntryUpdate.Unmarshal, for table d: the ID is the given one unless the message
\* has its own.
GetEntry(d, id, withID, timed, b) ==
    LET newID  == IF withID THEN Get32(b) ELSE Outcome("ok", id, b)
        expiry == IF timed THEN Get32(newID.rest) ELSE Outcome("ok", 0, newID.rest)
        key    == GetKey(d.keyType, d.keyLength, expiry.rest)
        data   == DataOf(d.types, key.rest)
    IN IF newID.is = "ok" /\ expiry.is = "ok" /\ key.is = "ok" /\ data.is = "ok"
       THEN Outcome("ok",
               [table |-> d, id |-> newID.val, timed |-> timed, expiry |-> expiry.val,
                key |-> key.val, data |-> data.val], data.rest)
       ELSE Outcome("error", <<>>, b)
===============================================================================
