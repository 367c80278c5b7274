---------------------------- MODULE MCNotifyAnswer ----------------------------
(* Small instances of NotifyAnswer for TLC. *)
EXTENDS NotifyAnswer

zeros(n) == [i \in 1 .. n |-> 0]

typed(t, flag, v) == [type |-> t, true |-> flag, val |-> v]

\* Typed data of every type; numbers and a length around the steps of a varint.
Lengths == {0, 239, 240, 255, 256, 2287, 2288, 264431}
SomeData ==
    {typed(Null, FALSE, <<>>), typed(Bool, TRUE, <<>>), typed(Bool, FALSE, <<>>),
     typed(IPV4, FALSE, <<127, 0, 0, 1>>), typed(IPV6, FALSE, zeros(15) \o <<1>>),
     typed(String, FALSE, <<>>), typed(String, FALSE, <<240, 255>>),
     typed(Binary, FALSE, zeros(240))}
    \cup {typed(2 + (n % 4), FALSE, <<n>>) : n \in Lengths}

entry(name, v) == [name |-> name, type |-> v.type, true |-> v.true, val |-> v.val]
SomeEntries == {entry(<<97>>, v) : v \in SomeData}

\* Entries to follow others, of the same name or another.
MoreEntries ==
    {entry(name, v) : name \in {<<97>>, <<98>>},
                      v \in {typed(Null, FALSE, <<>>), typed(Bool, TRUE, <<>>),
                             typed(IPV4, FALSE, <<10, 0, 0, 1>>), typed(String, TRUE, <<65>>),
                             typed(Int32, FALSE, <<2287>>)}}

message(es) == [name |-> <<109>>, entries |-> es]

\* Up to one message of up to two entries.
OneMessage ==
    {<<>>, <<message(<<>>)>>}
    \cup {<<message(<<a>>)>> : a \in SomeEntries}
    \cup {<<message(<<a, b>>)>> : a \in SomeEntries, b \in MoreEntries}

\* Two messages of up to one entry.
TwoMessages ==
    LET messages == {message(<<>>)} \cup {message(<<a>>) : a \in SomeEntries}
    IN {<<m, n>> : m, n \in messages}

\* A setter of each kind, a name and a string whose length takes two bytes, a
\* number on either side of a third, and an address that is none.
SomeCalls ==
    {Call(Unset, 2, <<117>>, NoValue),
     Call(Unset, 1, zeros(240), NoValue),
     Call(Set, 0, <<118>>, typed(Bool, TRUE, <<>>)),
     Call(Set, 4, <<118>>, typed(Invalid, FALSE, <<>>)),
     Call(Set, 4, <<118>>, typed(IPV4, FALSE, <<10, 0, 0, 1>>)),
     Call(Set, 3, <<118>>, typed(Binary, FALSE, zeros(240)))}
    \cup {Call(Set, 1, <<118>>, typed(Int64, FALSE, <<n>>)) : n \in {2287, 2288}}

\* Structs: all fields optional; none; two fields with one key, one that no data
\* fits and one without an entry; an optional field that cannot be set, between two
\* that can; and one that cannot be set and is not optional.
field(name, kind, pointer) == [key |-> name, kind |-> kind, pointer |-> pointer]
SomeTargets ==
    {<<field(<<97>>, "string", TRUE), field(<<98>>, "int32", TRUE)>>,
     <<field(<<98>>, "bool", FALSE), field(<<97>>, "bytes", FALSE)>>,
     <<field(<<97>>, "addr", TRUE), field(<<97>>, "bool", TRUE),
       field(<<98>>, "other", TRUE), field(<<99>>, "addr", TRUE)>>,
     <<field(<<97>>, "string", TRUE), field(<<98>>, "unsettable", TRUE),
       field(<<99>>, "int64", TRUE)>>,
     <<field(<<98>>, "unsettable", FALSE), field(<<97>>, "addr", TRUE)>>}
===============================================================================
