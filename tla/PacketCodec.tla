----------------------------- MODULE PacketCodec -----------------------------
(***************************************************************************)
(* The code the generators emit for a packet, on the support headers: a    *)
(* value encoded in C++ or C#, sent, and decoded in C++ or C# by a program *)
(* generated from a schema of the same fields, whose payload version may   *)
(* be another.  A byte has Byte values, and numbers are two's complement.  *)
(*                                                                         *)
(* An operator commented "variant" is a wrong form of the definition after *)
(* it, kept to see that a property notices it.                             *)
(***************************************************************************)
EXTENDS PacketLayout

CONSTANTS Byte,             \* 256
          Languages,        \* {"cpp", "csharp"}
          Versions          \* payload versions, of PayloadVersionSize bytes

ASSUME CodecAssumption ==
    /\ Byte \in Nat \ {0, 1} /\ Byte % 2 = 0
    /\ Versions \subseteq 0 .. (Byte * Byte - 1)

VARIABLES
    sender, receiver,       \* [language, version]
    stage,                  \* "encode", "decode", "end"
    value,                  \* of the fields, as the sender has them
    buffer,                 \* the bytes of the view
    encoded, decoded,       \* results: "none", "success" or an error
    target                  \* the receiver's fields

codecVars == <<sender, receiver, stage, value, buffer, encoded, decoded, target>>

Power[n \in Nat] == IF n = 0 THEN 1 ELSE Byte * Power[n - 1]

Values(type) ==
    IF type.signed THEN -(Power[type.size] \div 2) .. (Power[type.size] \div 2 - 1)
                   ELSE 0 .. (Power[type.size] - 1)

Old(type)     == IF type.signed THEN -1 ELSE 1      \* in the receiver's struct before Decode
Garbage(size) == [n \in 1..size |-> Byte - 1]       \* in the buffer before Encode
Defaults      == [n \in DOMAIN fields |-> 0]

\* The view has the bytes of the payload, one less, one more, or (0) null data.
ViewSizes == {0, payloadBytes - 1, payloadBytes, payloadBytes + 1}

CodecInit ==
    /\ LayoutInit
    /\ sender \in [language : Languages, version : Versions]
    /\ receiver \in [language : Languages, version : Versions]
    /\ stage = "encode"
    /\ value = <<>> /\ buffer = <<>> /\ target = <<>>
    /\ encoded = "none" /\ decoded = "none"
-----------------------------------------------------------------------------
ToUnsignedBits(v, size) == v % Power[size]

FromUnsignedBitsUnsigned(raw, type) == raw          \* variant: no sign
FromUnsignedBits(raw, type) ==
    IF type.signed /\ raw >= Power[type.size] \div 2 THEN raw - Power[type.size] ELSE raw

\* The k-th byte of a word of size bytes, from 0.
ByteOfBig(raw, k, size) == (raw \div Power[size - 1 - k]) % Byte    \* variant: big endian
ByteOf(raw, k, size)    == (raw \div Power[k]) % Byte

WriteLittleEndian(bytes, offset, v, size) ==
    [n \in DOMAIN bytes |->
        IF n - 1 \in offset .. (offset + size - 1)
        THEN ByteOf(ToUnsignedBits(v, size), n - 1 - offset, size) ELSE bytes[n]]

ReadLittleEndian(bytes, offset, type) ==
    LET raw[k \in 0..type.size] ==
            IF k = 0 THEN 0 ELSE raw[k - 1] + bytes[offset + k] * Power[k - 1]
    IN  FromUnsignedBits(raw[type.size], type)

\* The payload version, then the fields in their order.
Payload(bytes, version, values) ==
    LET after[n \in 0..Len(fields)] ==
            IF n = 0
            THEN WriteLittleEndian(bytes, PayloadVersionOffset, version, PayloadVersionSize)
            ELSE WriteLittleEndian(after[n - 1], fields[n].offset, values[n], fields[n].size)
    IN  after[Len(fields)]

\* C# answers no more than true or false.
ValidateEncodeView(size) ==
    IF size = payloadBytes THEN "success"
    ELSE IF sender.language = "csharp" THEN "false"
    ELSE IF size # 0 /\ size < payloadBytes THEN "too small" ELSE "invalid argument"

\* C++ fills an array of its own and copies it, C# writes to the output itself.
Encode ==
    /\ status = "generated" /\ stage = "encode"
    /\ stage' = "decode"
    /\ \E size \in ViewSizes, values \in [DOMAIN fields -> UNION {Values(schema[n]) : n \in DOMAIN schema}] :
          /\ \A n \in DOMAIN fields : values[n] \in Values(schema[n])
          /\ size # payloadBytes => values = Defaults       \* they are not looked at then
          /\ value' = values
          /\ encoded' = ValidateEncodeView(size)
          /\ buffer' = IF encoded' = "success"
                       THEN Payload(IF sender.language = "cpp" THEN [n \in 1..size |-> 0] ELSE Garbage(size),
                                    sender.version, values)
                       ELSE Garbage(size)
          /\ target' = [n \in DOMAIN fields |-> Old(schema[n])]
    /\ UNCHANGED <<layoutVars, sender, receiver, decoded>>

ValidateDecodeView(size) ==
    IF size = payloadBytes THEN "success"
    ELSE IF receiver.language = "csharp" THEN "false"
    ELSE IF size = 0 THEN "invalid argument" ELSE "invalid data"

VersionOf(bytes) ==
    ReadLittleEndian(bytes, PayloadVersionOffset, [size |-> PayloadVersionSize, signed |-> FALSE])

Refusal == IF receiver.language = "csharp" THEN "false" ELSE "invalid data"

DecodedFields(bytes) ==
    [n \in DOMAIN fields |-> ReadLittleEndian(bytes, fields[n].offset, fields[n].type)]

\* A C# out parameter is given its default first; a C++ object is assigned last.
Decode ==
    /\ stage = "decode"
    /\ stage' = "end"
    /\ LET view == ValidateDecodeView(Len(buffer))
       IN  decoded' = IF view # "success" THEN view
                      ELSE IF VersionOf(buffer) # receiver.version THEN Refusal
                      ELSE "success"
    /\ target' = IF decoded' = "success" THEN DecodedFields(buffer)
                 ELSE IF receiver.language = "csharp" THEN Defaults
                 ELSE target
    /\ UNCHANGED <<layoutVars, sender, receiver, value, buffer, encoded>>

CodecNext ==
    \/ LayoutNext /\ UNCHANGED codecVars
    \/ Encode \/ Decode

CodecSpec == CodecInit /\ [][CodecNext]_<<layoutVars, codecVars>>
-----------------------------------------------------------------------------
\* What one language encoded the other decodes to the same values, if their versions
\* agree; otherwise it is refused, and the receiver's object is as it was (C++) or blank
\* (C#).  A refused encoding leaves the buffer as it was.
CodecRoundTrip ==
    /\ stage \in {"decode", "end"} =>
          IF Len(buffer) = payloadBytes
          THEN encoded = "success" /\ \A n \in DOMAIN buffer : buffer[n] \in 0 .. (Byte - 1)
          ELSE encoded # "success" /\ buffer = Garbage(Len(buffer))
    /\ stage = "end" =>
          /\ decoded = "success" <=> encoded = "success" /\ sender.version = receiver.version
          /\ \A n \in DOMAIN fields :
                target[n] = IF decoded = "success" THEN value[n]
                            ELSE IF receiver.language = "csharp" THEN 0 ELSE Old(schema[n])
=============================================================================
