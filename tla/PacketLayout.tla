---------------------------- MODULE PacketLayout -----------------------------
(***************************************************************************)
(* PacketDescriptorBuilder::Build: the offsets of the fields of a packet,  *)
(* one after another behind the payload version, and the check of the      *)
(* generators that every field lies in the payload.  Bytes are counted     *)
(* from 0, in std::size_t of at most MaxSize.                              *)
(*                                                                         *)
(* An operator commented "variant" is a wrong form of the definition after *)
(* it, kept to see that a property notices it.                             *)
(***************************************************************************)
EXTENDS Integers, Sequences

CONSTANTS Schemas,          \* sequences of primitive types, [size, signed]
          MaxSize           \* SIZE_MAX

PayloadVersionOffset == 0
PayloadVersionSize   == 2

ASSUME LayoutAssumption ==
    /\ MaxSize \in Nat /\ MaxSize >= PayloadVersionSize
    /\ \A schema \in Schemas :
          schema \in Seq([size : Nat \ {0}, signed : BOOLEAN])

VARIABLES
    schema,
    fields,                 \* descriptors so far: [type, offset, size]
    payloadBytes,
    status                  \* "building", "built", "refused" or "generated"

layoutVars == <<schema, fields, payloadBytes, status>>

LayoutInit ==
    /\ schema \in Schemas
    /\ fields = <<>> /\ payloadBytes = PayloadVersionSize
    /\ status = "building"

NextType == schema[Len(fields) + 1]

OverflowsWrapped(size) == (payloadBytes + size) % (MaxSize + 1) > MaxSize   \* variant: the sum wraps
Overflows(size)        == payloadBytes > MaxSize - size

PlacedBefore(offset) == offset - PayloadVersionSize         \* variant: the version not counted
PlacedAt(offset)     == offset

AddField ==
    /\ status = "building" /\ Len(fields) < Len(schema)
    /\ IF Overflows(NextType.size)
       THEN status' = "refused" /\ UNCHANGED <<fields, payloadBytes>>
       ELSE /\ fields' = Append(fields, [type |-> NextType, offset |-> PlacedAt(payloadBytes),
                                         size |-> NextType.size])
            /\ payloadBytes' = payloadBytes + NextType.size
            /\ UNCHANGED status
    /\ UNCHANGED schema

Finish ==
    /\ status = "building" /\ Len(fields) = Len(schema)
    /\ status' = "built"
    /\ UNCHANGED <<schema, fields, payloadBytes>>

FitsPayload(offset, size) ==
    size > 0 /\ offset <= payloadBytes /\ size <= payloadBytes - offset

HasValidDescriptorBounds ==
    /\ FitsPayload(PayloadVersionOffset, PayloadVersionSize)
    /\ \A n \in DOMAIN fields : FitsPayload(fields[n].offset, fields[n].size)

\* GenerateCppHeader and GenerateCSharpSource.
Generate ==
    /\ status = "built"
    /\ status' = IF HasValidDescriptorBounds THEN "generated" ELSE "refused"
    /\ UNCHANGED <<schema, fields, payloadBytes>>

LayoutNext == AddField \/ Finish \/ Generate

LayoutSpec == LayoutInit /\ [][LayoutNext]_layoutVars
-----------------------------------------------------------------------------
VersionBytes == PayloadVersionOffset .. (PayloadVersionOffset + PayloadVersionSize - 1)
FieldBytes(n) == fields[n].offset .. (fields[n].offset + fields[n].size - 1)

\* No byte of the payload belongs to two of the version and the fields.
NoOverlap ==
    /\ \A n \in DOMAIN fields : FieldBytes(n) \intersect VersionBytes = {}
    /\ \A m, n \in DOMAIN fields : m # n => FieldBytes(m) \intersect FieldBytes(n) = {}

\* Every byte belongs to one of them, and none of theirs is outside the payload.
NoGap ==
    VersionBytes \union UNION {FieldBytes(n) : n \in DOMAIN fields} = 0 .. (payloadBytes - 1)

\* The fields keep the order and the sizes of the schema.
FieldsOfSchema ==
    /\ Len(fields) <= Len(schema)
    /\ \A n \in DOMAIN fields : fields[n].type = schema[n] /\ fields[n].size = schema[n].size

\* The version and the fields tile the payload, so that encoding writes each byte once
\* and a decoder built from the same schema reads what was written there; and the
\* generators refuse no descriptor of the builder.
FieldsTile ==
    /\ NoOverlap /\ NoGap /\ FieldsOfSchema
    /\ payloadBytes <= MaxSize
    /\ status \in {"built", "generated"} => Len(fields) = Len(schema)
    /\ status = "refused" => /\ Len(fields) < Len(schema)
                             /\ payloadBytes + NextType.size > MaxSize
=============================================================================
