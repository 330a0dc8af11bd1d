---------------------------- MODULE PacketSchema -----------------------------
(***************************************************************************)
(* PacketSchemaCompiler::Compile: a batch of JSON files, each read,        *)
(* scanned for duplicate keys as its events arrive (DuplicateKeyDetector), *)
(* parsed, compared with the packets before it, and laid out.  The first   *)
(* problem ends the compilation with one diagnostic.                       *)
(*                                                                         *)
(* A file is a JSON value (JsonValue), or the beginning of one.            *)
(*                                                                         *)
(* An operator commented "variant" is a wrong form of the definition after *)
(* it, kept to see that a property notices it.                             *)
(***************************************************************************)
EXTENDS JsonValue

CONSTANTS Values,           \* the JSON values there are
          Batches,          \* sequences of files of them, see File
          Max16,            \* 65535
          MaxSize           \* SIZE_MAX

InputsTyped ==
    /\ AreValues(Values)
    /\ \A b \in Batches : b \in Seq([readable : BOOLEAN, value : Values, events : Nat \union {Whole}])
    /\ Max16 \in Nat \ {0} /\ MaxSize \in Nat /\ MaxSize >= 2

SizeOf == [int8 |-> 1, uint8 |-> 1, int16 |-> 2, uint16 |-> 2,
           int32 |-> 4, uint32 |-> 4, int64 |-> 8, uint64 |-> 8]

VARIABLES
    batch, current,         \* the files, the index of the one at hand
    step,                   \* what is done next with it
    walk,                   \* external: where the library's parser is, see Inside
    event, stack,           \* of the scan: events consumed, open containers
    names,                  \* of the fields parsed so far
    packetIds, packetNames, \* of the batch
    packets,                \* the descriptors so far: [name, id, version, fields]
    diagnostics,            \* [id, file, path]
    result, out             \* "none" until the end; the caller's PacketDescriptorSet

vars == <<batch, current, step, walk, event, stack, names, packetIds, packetNames, packets,
          diagnostics, result, out>>

scanVars  == <<walk, event, stack>>
batchVars == <<batch, current, packetIds, packetNames, packets, out>>

Untouched == <<"untouched">>

Key(k)   == [key |-> k]             \* the parts of a logical path
Index(n) == [index |-> n]

Init ==
    /\ batch \in Batches
    /\ current = 1 /\ step = "read"
    /\ walk = <<>> /\ event = 0 /\ stack = <<>> /\ names = <<>>
    /\ packetIds = {} /\ packetNames = {} /\ packets = <<>>
    /\ diagnostics = <<>> /\ result = "none" /\ out = Untouched
-----------------------------------------------------------------------------
\* ReportFailure, and the return of its result.
Fail(id, path) ==
    /\ diagnostics' = Append(diagnostics, [id |-> id, file |-> current, path |-> path])
    /\ result' = IF id = "SourceReadFailed" THEN "io" ELSE "invalid data"
    /\ step' = "end"

\* A condition that must hold to go on.
Check(at, holds, id, path, next) ==
    /\ step = at
    /\ IF holds THEN step' = next /\ UNCHANGED <<diagnostics, result>> ELSE Fail(id, path)
    /\ UNCHANGED <<batchVars, scanVars, names>>

TheFile == batch[current]

ReadPacketSource ==
    /\ step = "read"
    /\ IF TheFile.readable
       THEN step' = "scan" /\ UNCHANGED <<diagnostics, result>>
       ELSE Fail("SourceReadFailed", <<>>)
    /\ walk' = <<>> /\ event' = 0 /\ stack' = <<>> /\ names' = <<>>
    /\ UNCHANGED batchVars

Root == TheFile.value

\* External: nlohmann's SAX parser goes through the text of a value.  For each container that is
\* open it has its value, how many of its parts have begun, and whether the key of the next one
\* has been read.
Inside   == walk[Len(walk)]
AllBegun == Inside.begun = Len(Parts(Inside.value))
InObject == Inside.value.kind = "object"
Coming   == IF walk = <<>> THEN Root ELSE Parts(Inside.value)[Inside.begun + 1]

Entered(v) == [value |-> v, begun |-> 0, named |-> FALSE]
Named      == [walk EXCEPT ![Len(walk)] = [Inside EXCEPT !.named = TRUE]]
Begun ==
    IF walk = <<>> THEN walk
    ELSE [walk EXCEPT ![Len(walk)] = [Inside EXCEPT !.begun = Inside.begun + 1, !.named = FALSE]]

Walked  == walk = <<>> /\ event > 0
Emits   == step = "scan" /\ event # TheFile.events
AtKey   == Emits /\ walk # <<>> /\ ~AllBegun /\ InObject /\ ~Inside.named
AtValue == Emits /\ IF walk = <<>> THEN event = 0 ELSE ~AllBegun /\ (InObject => Inside.named)
AtEnd   == Emits /\ walk # <<>> /\ AllBegun

\* The text breaks off, or there is more of it behind the value.
ParseError ==
    /\ step = "scan"
    /\ event = TheFile.events \/ (Walked /\ TheFile.events # Whole)
    /\ Fail("InvalidJson", <<>>)
    /\ UNCHANGED <<batchVars, scanVars, names>>

Scanned ==
    /\ step = "scan" /\ Walked /\ TheFile.events = Whole
    /\ step' = "root"
    /\ UNCHANGED <<batchVars, scanVars, names, diagnostics, result>>

Top == stack[Len(stack)]

\* TakeValuePath: the path of the value that comes, and the parent after it.
ValuePath ==
    IF stack = <<>> THEN <<>>
    ELSE Append(Top.path, IF Top.isObject THEN Key(Top.pendingKey) ELSE Index(Top.nextIndex))

AfterValue ==
    IF stack = <<>> THEN stack
    ELSE [stack EXCEPT ![Len(stack)] =
              IF Top.isObject THEN [Top EXCEPT !.pendingKey = ""]
                              ELSE [Top EXCEPT !.nextIndex = Top.nextIndex + 1]]

Container(isObject) ==
    [isObject |-> isObject, path |-> ValuePath, keys |-> {}, pendingKey |-> "", nextIndex |-> 0]

IsDuplicateAtRoot(k) == Len(stack) = 1 /\ k \in Top.keys        \* variant: objects inside not looked at
IsDuplicate(k)       == k \in Top.keys

Consume ==
    /\ event' = event + 1
    /\ UNCHANGED <<batchVars, step, names, diagnostics, result>>

\* key: the first repeated one stops the parser.
ScanKey ==
    LET k == Inside.value.members[Inside.begun + 1].key
    IN  /\ AtKey
        /\ \/ /\ IsDuplicate(k)
              /\ Fail("DuplicateKey", Append(Top.path, Key(k)))
              /\ UNCHANGED <<batchVars, scanVars, names>>
           \/ /\ ~IsDuplicate(k)
              /\ stack' = [stack EXCEPT ![Len(stack)] =
                              [Top EXCEPT !.keys = Top.keys \union {k}, !.pendingKey = k]]
              /\ walk' = Named
              /\ Consume

\* start_object, start_array.
ScanStart ==
    /\ AtValue /\ Coming.kind \in {"object", "array"}
    /\ stack' = Append(AfterValue, Container(Coming.kind = "object"))
    /\ walk' = Append(Begun, Entered(Coming))
    /\ Consume

\* null, boolean, number_..., string.
ScanScalar ==
    /\ AtValue /\ Coming.kind \notin {"object", "array"}
    /\ stack' = AfterValue
    /\ walk' = Begun
    /\ Consume

\* end_object, end_array.
ScanEnd ==
    /\ AtEnd
    /\ stack' = SubSeq(stack, 1, Len(stack) - 1)
    /\ walk' = SubSeq(walk, 1, Len(walk) - 1)
    /\ Consume
-----------------------------------------------------------------------------
\* The parsed value: an object is now a map, where a later member replaces an earlier one.
KeysOf(object)  == {object.members[n].key : n \in DOMAIN object.members}
Get(object, k)  ==
    LET n == CHOOSE n \in DOMAIN object.members :
                 /\ object.members[n].key = k
                 /\ \A m \in DOMAIN object.members : object.members[m].key = k => m <= n
    IN  object.members[n].value

\* ValidateProperties: none missing, none unknown.  The path leaves out which one.
HasProperties(object, required) == KeysOf(object) = required

IsUnsigned16Cast(v, minimum) == v.kind = "number" /\ v.number % (Max16 + 1) >= minimum  \* variant
IsUnsigned16(v, minimum)     == v.kind = "number" /\ v.number >= minimum /\ v.number <= Max16
Unsigned16(v) == v.number % (Max16 + 1)             \* static_cast<std::uint16_t>

IsName(v) == v.kind = "string" /\ v.string # ""

Packet == Get(Root, "packet")
Fields == Get(Packet, "fields").items
TheField == Fields[Len(names) + 1]
FieldPath == <<Key("packet"), Key("fields"), Index(Len(names))>>
InvalidField(id, k) == Fail(id, Append(FieldPath, Key(k)))

CheckRoot    == Check("root", Root.kind = "object", "InvalidSchema", <<>>, "root properties")
CheckMembers == Check("root properties", HasProperties(Root, {"schemaVersion", "packet"}),
                      "InvalidSchema", <<>>, "schema version")
CheckVersion == Check("schema version", IsUnsigned16(Get(Root, "schemaVersion"), 1),
                      "InvalidSchema", <<Key("schemaVersion")>>, "supported version")
CheckSupported == Check("supported version", Unsigned16(Get(Root, "schemaVersion")) = 1,
                        "UnsupportedSchemaVersion", <<Key("schemaVersion")>>, "packet")
CheckPacket == Check("packet", Packet.kind = "object", "InvalidSchema", <<Key("packet")>>, "packet properties")
CheckPacketMembers ==
    Check("packet properties", HasProperties(Packet, {"name", "id", "payloadVersion", "fields"}),
          "InvalidSchema", <<Key("packet")>>, "name")
CheckName == Check("name", IsName(Get(Packet, "name")), "InvalidSchema", <<Key("packet"), Key("name")>>, "id")
CheckId   == Check("id", IsUnsigned16(Get(Packet, "id"), 0), "InvalidSchema", <<Key("packet"), Key("id")>>,
                   "payload version")
CheckPayloadVersion ==
    Check("payload version", IsUnsigned16(Get(Packet, "payloadVersion"), 1),
          "InvalidSchema", <<Key("packet"), Key("payloadVersion")>>, "fields")
CheckFields == Check("fields", Get(Packet, "fields").kind = "array", "InvalidSchema",
                     <<Key("packet"), Key("fields")>>, "field")

NameOf(field) == Get(field, "name").string
TypeOf(field) == Get(field, "type").string

\* ParseField, and the uniqueness of its name in the packet.
ParseField ==
    /\ step = "field" /\ Len(names) < Len(Fields)
    /\ \/ /\ TheField.kind # "object"
          /\ Fail("InvalidSchema", FieldPath) /\ UNCHANGED names
       \/ /\ TheField.kind = "object"
          /\ IF ~HasProperties(TheField, {"name", "type"})
             THEN Fail("InvalidSchema", FieldPath) /\ UNCHANGED names
             ELSE IF ~IsName(Get(TheField, "name"))
             THEN InvalidField("InvalidSchema", "name") /\ UNCHANGED names
             ELSE IF Get(TheField, "type").kind # "string"
             THEN InvalidField("InvalidSchema", "type") /\ UNCHANGED names
             ELSE IF TypeOf(TheField) \notin DOMAIN SizeOf
             THEN InvalidField("UnknownFieldType", "type") /\ UNCHANGED names
             ELSE IF \E n \in DOMAIN names : names[n] = NameOf(TheField)
             THEN InvalidField("DuplicateFieldName", "name") /\ UNCHANGED names
             ELSE names' = Append(names, NameOf(TheField)) /\ UNCHANGED <<step, diagnostics, result>>
    /\ UNCHANGED <<batchVars, scanVars>>

FieldsParsed ==
    /\ step = "field" /\ Len(names) = Len(Fields)
    /\ step' = "batch"
    /\ UNCHANGED <<batchVars, scanVars, names, diagnostics, result>>

ThePacket ==
    [name |-> Get(Packet, "name").string, id |-> Unsigned16(Get(Packet, "id")),
     version |-> Unsigned16(Get(Packet, "payloadVersion")),
     fields |-> [n \in DOMAIN Fields |-> [name |-> NameOf(Fields[n]), type |-> TypeOf(Fields[n])]]]

IsNewIdOnly(packet) == packet.id \notin packetIds       \* variant: names not compared
IsNewName(packet)   == packet.name \notin packetNames

\* The id first, then the name; the sets keep the id when the name is refused.
ValidateBatchPacket ==
    /\ step = "batch"
    /\ packetIds' = packetIds \union {ThePacket.id}
    /\ IF ThePacket.id \in packetIds
       THEN Fail("DuplicatePacketId", <<Key("packet"), Key("id")>>) /\ UNCHANGED packetNames
       ELSE IF ~IsNewName(ThePacket)
       THEN Fail("DuplicatePacketName", <<Key("packet"), Key("name")>>) /\ UNCHANGED packetNames
       ELSE /\ packetNames' = packetNames \union {ThePacket.name}
            /\ step' = "build" /\ UNCHANGED <<diagnostics, result>>
    /\ UNCHANGED <<batch, current, scanVars, names, packets, out>>

\* The end of the n-th field behind the payload version of two bytes (PacketLayout).
EndOf(packet) ==
    LET end[n \in 0..Len(packet.fields)] ==
            IF n = 0 THEN 2 ELSE end[n - 1] + SizeOf[packet.fields[n].type]
    IN  end

Build ==
    /\ step = "build"
    /\ LET tooLong == {n \in DOMAIN ThePacket.fields : EndOf(ThePacket)[n] > MaxSize}
       IN  IF tooLong # {}
           THEN /\ Fail("LayoutOverflow", <<Key("packet"), Key("fields"),
                                            Index((CHOOSE n \in tooLong : \A m \in tooLong : n <= m) - 1)>>)
                /\ UNCHANGED <<current, packets, out>>
           ELSE /\ packets' = Append(packets, ThePacket)
                /\ UNCHANGED diagnostics
                /\ IF current < Len(batch)
                   THEN current' = current + 1 /\ step' = "read" /\ UNCHANGED <<result, out>>
                   ELSE step' = "end" /\ result' = "success" /\ out' = packets' /\ UNCHANGED current
    /\ UNCHANGED <<batch, packetIds, packetNames, scanVars, names>>

\* IsValidInput: no path, no compilation and no diagnostic.
RefuseEmpty ==
    /\ step = "read" /\ batch = <<>>
    /\ step' = "end" /\ result' = "invalid argument"
    /\ UNCHANGED <<batchVars, scanVars, names, diagnostics>>

Next ==
    \/ RefuseEmpty
    \/ /\ batch # <<>>
       /\ \/ ReadPacketSource \/ ParseError \/ ScanKey \/ ScanStart \/ ScanScalar \/ ScanEnd \/ Scanned
          \/ CheckRoot \/ CheckMembers \/ CheckVersion \/ CheckSupported
          \/ CheckPacket \/ CheckPacketMembers \/ CheckName \/ CheckId \/ CheckPayloadVersion
          \/ CheckFields \/ ParseField \/ FieldsParsed
          \/ ValidateBatchPacket \/ Build

Spec == Init /\ [][Next]_vars
-----------------------------------------------------------------------------
\* The same said of a whole value, without the order of the checks.

KeysUnique[v \in Values] ==
    /\ v.kind = "object" =>
          \A m, n \in DOMAIN v.members : v.members[m].key = v.members[n].key => m = n
    /\ \A n \in DOMAIN Parts(v) : KeysUnique[Parts(v)[n]]

IsField(v) ==
    /\ v.kind = "object" /\ KeysOf(v) = {"name", "type"}
    /\ Get(v, "name").kind = "string" /\ Get(v, "name") # Text("")
    /\ \E t \in DOMAIN SizeOf : Get(v, "type") = Text(t)

\* The bytes the first fields take.
UsedBy(items) ==
    LET used[n \in 0..Len(items)] ==
            IF n = 0 THEN 0 ELSE used[n - 1] + SizeOf[Get(items[n], "type").string]
    IN  used

IsPacket(v) ==
    /\ v.kind = "object" /\ KeysOf(v) = {"name", "id", "payloadVersion", "fields"}
    /\ Get(v, "name").kind = "string" /\ Get(v, "name") # Text("")
    /\ \E n \in 0..Max16 : Get(v, "id") = Number(n)
    /\ \E n \in 1..Max16 : Get(v, "payloadVersion") = Number(n)
    /\ Get(v, "fields").kind = "array"
    /\ LET items == Get(v, "fields").items
       IN  /\ \A n \in DOMAIN items : IsField(items[n])
           /\ \A m, n \in DOMAIN items : m # n => Get(items[m], "name") # Get(items[n], "name")
           /\ UsedBy(items)[Len(items)] <= MaxSize - 2

IsSchema(file) ==
    /\ file.readable /\ file.events = Whole
    /\ KeysUnique[file.value]
    /\ file.value.kind = "object" /\ KeysOf(file.value) = {"schemaVersion", "packet"}
    /\ Get(file.value, "schemaVersion") = Number(1)
    /\ IsPacket(Get(file.value, "packet"))

Clash(f, g) ==
    \E k \in {"name", "id"} : Get(Get(f.value, "packet"), k) = Get(Get(g.value, "packet"), k)

\* The files that cannot follow those before them.
Bad == {n \in DOMAIN batch : \/ ~IsSchema(batch[n])
                             \/ \E m \in 1..(n - 1) : /\ IsSchema(batch[m])
                                                      /\ Clash(batch[m], batch[n])}

\* The descriptors come out only if every file is a legal schema and no two packets of
\* the batch share an id or a name, and then they are those of the files in their order;
\* otherwise the caller's set is as it was and one diagnostic names the first bad file,
\* a duplicate key before anything that would be wrong with what the key stands for.
ParseMatches ==
    step = "end" =>
        /\ result = "success" <=> Bad = {} /\ batch # <<>>
        /\ out = IF result = "success" THEN packets ELSE Untouched
        /\ result = "success" =>
              /\ diagnostics = <<>> /\ Len(out) = Len(batch)
              /\ \A n \in DOMAIN out :
                    LET packet == Get(batch[n].value, "packet")
                        items  == Get(packet, "fields").items
                    IN  /\ Number(out[n].id) = Get(packet, "id") /\ Text(out[n].name) = Get(packet, "name")
                        /\ Number(out[n].version) = Get(packet, "payloadVersion")
                        /\ Len(out[n].fields) = Len(items)
                        /\ \A k \in DOMAIN items : /\ Text(out[n].fields[k].name) = Get(items[k], "name")
                                                   /\ Text(out[n].fields[k].type) = Get(items[k], "type")
        /\ Bad # {} =>
              /\ Len(diagnostics) = 1
              /\ diagnostics[1].file \in Bad /\ \A n \in Bad : diagnostics[1].file <= n
              /\ LET file == batch[diagnostics[1].file]
                 IN  file.readable /\ file.events = Whole =>
                        (diagnostics[1].id = "DuplicateKey" <=> ~KeysUnique[file.value])
=============================================================================
