---------------------------- MODULE SchemaInputs -----------------------------
(***************************************************************************)
(* Inputs of PacketSchema for TLC, for ids of at most 3: a legal schema    *)
(* with one member wrong, and batches of files that clash.                 *)
(***************************************************************************)
EXTENDS JsonValue

LOCAL Member(k, v) == [key |-> k, value |-> v]
LOCAL Field(name, type) == Object(<<Member("name", Text(name)), Member("type", Text(type))>>)
LOCAL Packet(name, id, fields) ==
    <<Member("name", Text(name)), Member("id", Number(id)),
      Member("payloadVersion", Number(1)), Member("fields", Array(fields))>>
LOCAL Schema(members) ==
    Object(<<Member("schemaVersion", Number(1)), Member("packet", Object(members))>>)

LOCAL TwoFields == <<Field("x", "int16"), Field("y", "uint64")>>
LOCAL Plain == Packet("A", 1, TwoFields)
LOCAL Replaced(n, v) == Schema([Plain EXCEPT ![n].value = v])

\* One member of the packet replaced, left out, repeated or joined by another.
LOCAL Packets ==
    {Replaced(1, v) : v \in {Text(""), Number(1), Other}}
    \union {Replaced(2, v) : v \in {Number(-1), Number(0), Number(3), Number(4), Text("1"), Other}}
    \union {Replaced(3, v) : v \in {Number(0), Number(2), Number(5), Array(<<>>)}}
    \union {Replaced(4, v) : v \in {Other, Object(<<>>)}}
    \union {Schema(SubSeq(Plain, 1, 3)), Schema(Append(Plain, Member("id", Number(2)))),
            Schema(Append(Plain, Member("direction", Text("x"))))}

LOCAL Items ==
    {Other, Object(<<>>),
     Field("", "int8"), Field("x", "int8"), Field("z", "float32"), Field("z", "uint32"),
     Object(<<Member("name", Number(1)), Member("type", Text("int8"))>>),
     Object(<<Member("name", Text("z")), Member("type", Number(1))>>),
     Object(<<Member("name", Text("z")), Member("type", Text("int8")), Member("name", Text("w"))>>),
     Object(<<Member("name", Text("z")), Member("type", Text("int8")), Member("size", Number(1))>>)}
LOCAL FieldLists ==
    {<<>>} \union {<<Field("x", "int16"), i>> : i \in Items} \union {Append(TwoFields, i) : i \in Items}

LOCAL Roots ==
    {Other, Array(<<Schema(Plain)>>), Object(<<>>),
     Object(<<Member("schemaVersion", Number(2)), Member("packet", Object(<<>>))>>),
     Object(<<Member("schemaVersion", Number(5)), Member("packet", Object(<<>>))>>),
     Object(<<Member("schemaVersion", Number(1)), Member("packet", Array(<<>>))>>),
     Object(<<Member("schemaVersion", Text("1")), Member("packet", Object(Plain))>>),
     Object(<<Member("schemaVersion", Number(1)), Member("schemaVersion", Number(1)),
              Member("packet", Object(Plain))>>)}

\* Files that share an id, a name, or neither, and one that is not legal.
LOCAL Several ==
    {Schema(Packet(name, id, TwoFields)) : name \in {"A", "B"}, id \in {1, 2}} \union {Replaced(2, Number(-1))}

LOCAL Read(v) == File(TRUE, v, Whole)

SomeBatches ==
    {<<>>}
    \union {<<Read(v)>> : v \in Packets \union Roots \union {Replaced(4, Array(l)) : l \in FieldLists}}
    \union {<<File(FALSE, Schema(Plain), Whole)>>}
    \union {<<File(TRUE, v, n)>> :
                v \in {Schema(Plain), Schema(Append(Plain, Member("id", Number(2))))}, n \in {0, 5, 13}}
    \union {<<Read(u), Read(v)>> : u, v \in Several}
    \union {<<Read(u), Read(v), Read(u)>> : u, v \in Several}

LOCAL AndParts(S) == S \union UNION {{Parts(v)[n] : n \in DOMAIN Parts(v)} : v \in S}

\* The values of the files and all that is in them: they are nested five deep.
SomeValues ==
    AndParts(AndParts(AndParts(AndParts(
        UNION {{files[n].value : n \in DOMAIN files} : files \in SomeBatches}))))
=============================================================================
