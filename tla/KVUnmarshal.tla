----------------------------- MODULE KVUnmarshal -----------------------------
(****************************************************************************)
(* KVScanner.Unmarshal (pkg/encoding/kvunmarshal.go): a handler has the     *)
(* entries of a message that are left put into a struct.                    *)
(*                                                                          *)
(* A struct type is the sequence of its fields that have a key, each with   *)
(* the kind of value it takes and whether it is a pointer to one.  The      *)
(* struct comes from a pool, so that every field holds an older message's   *)
(* value; one that is new is no other case.  Of reflection there is left    *)
(* that a field may have a type Unmarshal does not support, kind "other",   *)
(* or may be unexported and so cannot be set, kind "unsettable".            *)
(****************************************************************************)
EXTENDS MessageScan

CONSTANTS
    Targets,    \* the struct types a handler may use
    Old         \* a value from an older message

\* A field has the key of its tag.
Kinds == {"string", "bytes", "bool", "int32", "int64", "uint32", "uint64", "addr", "other",
          "unsettable"}
ASSUME TargetsAssumption == Targets \subseteq Seq([key : Seq(Byte), kind : Kinds, pointer : BOOLEAN])

VARIABLES
    target,     \* the type of the struct Unmarshal is or was given, or Nil
    fields,     \* the struct
    assigned,   \* setPointerFields, for fields of any kind
    result,     \* what Unmarshal returned: "none" yet, "ok" or "error"; or "panic"
    from        \* history: the message, and how many of its entries had been read

struct == <<target, fields, assigned, result, from>>

StructInit == target = Nil /\ fields = <<>> /\ assigned = {} /\ result = "none" /\ from = Nil

\* setValue: the types of data each kind of field takes.
Accepts == [string |-> {String}, bytes |-> {String, Binary}, bool |-> {Bool},
            int32 |-> {Int32}, int64 |-> {Int64}, uint32 |-> {UInt32}, uint64 |-> {UInt64},
            addr |-> {IPV4, IPV6}, other |-> {}, unsettable |-> {}]

\* setFieldValue: a pointer takes Null too, unless it cannot be set.
Takes(f, e) == \/ e.type \in Accepts[f.kind]
               \/ f.pointer /\ f.kind # "unsettable" /\ e.type = Null

\* The value of a bool is its flag.
ValueOf(e) == CASE e.type = Null -> Nil
                [] e.type = Bool -> [true |-> e.true, val |-> <<>>]
                [] OTHER -> [true |-> FALSE, val |-> e.val]

\* The first field with a key, or 0.
FieldOf(t, key) == SelectInSeq(t, LAMBDA f : f.key = key)

\* The handler calls Unmarshal, before or after reading entries itself.
HandlerUnmarshals ==
    /\ at = "handler" /\ result = "none"
    /\ at' = "unmarshal"
    /\ target' \in Targets
    /\ fields' = [i \in DOMAIN target' |-> Old]
    /\ from' = [message |-> Len(seen), read |-> Len(Last(seen).entries)]
    /\ UNCHANGED <<notify, buf, kv, seen, assigned, result>>

\* An entry is read and, if a field has its key, put there.  The first that the
\* field does not take, or that cannot be read, ends Unmarshal with the struct
\* half done.
UnmarshalNext ==
    /\ at = "unmarshal" /\ kv.buf # <<>>
    /\ \E e \in {Entry(kv.buf)} :
        LET i == IF e.is = "ok" THEN FieldOf(target, e.val.name) ELSE 0
            fits == i # 0 /\ Takes(target[i], e.val)
            wrong == e.is = "error" \/ (i # 0 /\ ~ fits)
        IN /\ Read(e)
           /\ fields' = IF fits THEN [fields EXCEPT ![i] = ValueOf(e.val)] ELSE fields
           /\ assigned' = IF fits THEN assigned \cup {i} ELSE assigned
           /\ result' = IF wrong THEN "error" ELSE result
           /\ at' = CASE e.is = "panic" -> "failed" [] wrong -> "handler" [] OTHER -> at
    /\ UNCHANGED <<notify, buf, target, from>>

\* Mutant: optional fields without an entry are left as they are.
UnmarshalEndsEarly ==
    /\ at = "unmarshal" /\ kv.buf = <<>>
    /\ at' = "handler"
    /\ result' = IF kv.failed THEN "error" ELSE "ok"
    /\ UNCHANGED <<notify, buf, kv, seen, target, fields, assigned, from>>

\* No entry is left: pointers that have not been set are cleared, unless the
\* scanner has failed.  The first that cannot be set panics, whatever the entries
\* were, and takes the handler and its NOTIFY with it (wrapPanic in the worker).
UnmarshalEnds ==
    /\ at = "unmarshal" /\ kv.buf = <<>>
    /\ LET cleared == {i \in DOMAIN target : target[i].pointer /\ i \notin assigned
                                                            /\ ~ kv.failed}
           stuck == {i \in cleared : target[i].kind = "unsettable"}
       IN /\ fields' = [i \in DOMAIN target |->
                           IF i \in cleared /\ (\A j \in stuck : i < j) THEN Nil ELSE fields[i]]
          /\ result' = CASE kv.failed -> "error" [] stuck # {} -> "panic" [] OTHER -> "ok"
          /\ at' = IF stuck = {} THEN "handler" ELSE "panicked"
    /\ UNCHANGED <<notify, buf, kv, seen, target, assigned, from>>

HandlerNext == \/ Next /\ UNCHANGED struct
               \/ HandlerUnmarshals \/ UnmarshalNext \/ UnmarshalEnds

-------------------------------------------------------------------------------
(* Properties *)

\* The entries Unmarshal was given, and those of them that are for field i.
Given == Drop(notify[from.message].entries, from.read)
For(i) == {j \in DOMAIN Given : FieldOf(target, Given[j].name) = i}

\* pkg/encoding/kvunmarshal.go:21 "pointer types for optional fields (nil if key
\* not found)", and :125 "important for pooled structs": after Unmarshal a field
\* holds what the message last said of its key, and nothing of an older message
\* is left in an optional one.  Unmarshal fails only for an entry that its field
\* does not take, wherever the handler had read to, and panics only when the
\* struct has an optional field that it cannot clear.
FieldsAreFresh ==
    /\ result = "ok" => \A i \in DOMAIN target :
           fields[i] = IF For(i) # {} THEN ValueOf(Given[Max(For(i))])
                       ELSE IF target[i].pointer THEN Nil ELSE Old
    /\ result = "error" => \E i \in DOMAIN target : \E j \in For(i) :
           ~ Takes(target[i], Given[j])
    /\ result = "panic" => \E i \in DOMAIN target :
           target[i].pointer /\ target[i].kind = "unsettable" /\ For(i) = {}
===============================================================================
