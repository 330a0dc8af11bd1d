----------------------- MODULE PacketCompiler_proofs ------------------------
(***************************************************************************)
(* Proofs about the packet compiler.  PacketLayout: the layout of a packet *)
(* tiles its payload, for every set of schemas and every bound of          *)
(* std::size_t.  PacketCodec: what is encoded is decoded, for every schema *)
(* and any size of a byte.  PacketTool with its committer, for any files,  *)
(* schemas, versions and parts, any number of paths and of changes, and    *)
(* runs that fail or are killed after any call: no file is ever partial,   *)
(* the first problem is the one that is reported, nothing is written       *)
(* unless all is legal, and a run that succeeds leaves every schema with   *)
(* its file.  PacketSchema: the front end accepts exactly the batches that *)
(* the rules of a schema accept, for every JSON value, and names the first *)
(* bad file of the others.                                                 *)
(***************************************************************************)
EXTENDS PacketCodec, PacketTool, PacketCompilation, FiniteSetTheorems, SequenceTheorems,
        WellFoundedInduction, TLAPS

(***************************************************************************)
(* PacketLayout: the layout of a packet                                    *)
(***************************************************************************)
Types == [size : Nat \ {0}, signed : BOOLEAN]
Descriptors == [type : Types, offset : Nat, size : Nat \ {0}]

LayoutTypeOK ==
    /\ schema \in Seq(Types)
    /\ fields \in Seq(Descriptors)
    /\ payloadBytes \in PayloadVersionSize .. MaxSize
    /\ status \in {"building", "built", "refused", "generated"}

EndOf(n) == fields[n].offset + fields[n].size

\* The fields lie behind the version, each behind those before it, up to payloadBytes.
InSequence ==
    /\ \A n \in DOMAIN fields : /\ fields[n].offset >= PayloadVersionSize
                                /\ EndOf(n) <= payloadBytes
    /\ \A m, n \in DOMAIN fields : m < n => EndOf(m) <= fields[n].offset

StatusInv ==
    /\ status \in {"built", "generated"} => Len(fields) = Len(schema)
    /\ status = "refused" => /\ Len(fields) < Len(schema)
                             /\ payloadBytes + NextType.size > MaxSize

LayoutInv == LayoutTypeOK /\ InSequence /\ NoGap /\ FieldsOfSchema /\ StatusInv
-----------------------------------------------------------------------------
LEMMA SizesAreNat == /\ MaxSize \in Nat /\ MaxSize >= PayloadVersionSize
                     /\ PayloadVersionSize = 2 /\ PayloadVersionOffset = 0
  BY LayoutAssumption DEF PayloadVersionSize, PayloadVersionOffset

LEMMA DescriptorTypes ==
    LayoutTypeOK => \A n \in DOMAIN fields : /\ fields[n] \in Descriptors
                                             /\ fields[n].offset \in Nat
                                             /\ fields[n].size \in Nat \ {0}
  <1> SUFFICES ASSUME LayoutTypeOK, NEW n \in DOMAIN fields
               PROVE  fields[n] \in Descriptors
    BY DEF Descriptors
  <1>1. fields \in Seq(Descriptors)
    BY DEF LayoutTypeOK
  <1> QED
    BY <1>1

LEMMA InSequenceIsApart == LayoutTypeOK /\ InSequence => NoOverlap
  <1> SUFFICES ASSUME LayoutTypeOK, InSequence PROVE NoOverlap
    OBVIOUS
  <1>1. \A n \in DOMAIN fields : fields[n].offset \in Nat /\ fields[n].size \in Nat
    BY DescriptorTypes
  <1>2. \A n \in DOMAIN fields : FieldBytes(n) \intersect VersionBytes = {}
    BY <1>1, SizesAreNat DEF InSequence, FieldBytes, VersionBytes
  <1>3. ASSUME NEW m \in DOMAIN fields, NEW n \in DOMAIN fields, m < n
        PROVE  FieldBytes(m) \intersect FieldBytes(n) = {}
    BY <1>1, <1>3 DEF InSequence, EndOf, FieldBytes
  <1>4. ASSUME NEW m \in DOMAIN fields, NEW n \in DOMAIN fields, m # n
        PROVE  FieldBytes(m) \intersect FieldBytes(n) = {}
    <2>1. m \in Int /\ n \in Int
      BY DEF LayoutTypeOK
    <2>2. CASE m < n
      BY <2>2, <1>3
    <2>3. CASE n < m
      BY <2>3, <1>3
    <2> QED
      BY <1>4, <2>1, <2>2, <2>3
  <1> QED
    BY <1>2, <1>4 DEF NoOverlap

LEMMA LayoutInitially == LayoutInit => LayoutInv
  <1> SUFFICES ASSUME LayoutInit PROVE LayoutInv
    OBVIOUS
  <1>1. LayoutTypeOK
    BY LayoutAssumption, SizesAreNat DEF LayoutInit, LayoutTypeOK, Types
  <1>2. DOMAIN fields = {} /\ Len(fields) = 0
    BY DEF LayoutInit
  <1>3. NoGap
    BY <1>2, SizesAreNat DEF LayoutInit, NoGap, VersionBytes
  <1>4. FieldsOfSchema
    BY <1>1, <1>2 DEF FieldsOfSchema, LayoutTypeOK
  <1> QED
    BY <1>1, <1>2, <1>3, <1>4 DEF LayoutInv, InSequence, StatusInv, LayoutInit

LEMMA AddFieldKeeps == LayoutInv /\ AddField => LayoutInv'
  <1> SUFFICES ASSUME LayoutInv, AddField PROVE LayoutInv'
    OBVIOUS
  <1> USE SizesAreNat
  <1>0. LayoutTypeOK /\ InSequence /\ NoGap /\ FieldsOfSchema /\ StatusInv
    BY DEF LayoutInv
  <1>1. /\ schema' = schema /\ status = "building"
        /\ Len(fields) \in Nat /\ Len(schema) \in Nat /\ Len(fields) < Len(schema)
        /\ NextType \in Types /\ NextType.size \in Nat \ {0}
    <2>1. schema \in Seq(Types) /\ fields \in Seq(Descriptors)
      BY <1>0 DEF LayoutTypeOK
    <2>2. schema' = schema /\ status = "building" /\ Len(fields) < Len(schema)
      BY DEF AddField
    <2>3. schema[Len(fields) + 1] \in Types
      BY <2>1, <2>2
    <2> QED
      BY <2>1, <2>2, <2>3 DEF NextType, Types
  <1>2. CASE Overflows(NextType.size)
    <2>1. status' = "refused" /\ fields' = fields /\ payloadBytes' = payloadBytes
      BY <1>2 DEF AddField
    <2>2. payloadBytes + NextType.size > MaxSize
      BY <1>0, <1>1, <1>2 DEF Overflows, LayoutTypeOK
    <2>3. NextType' = NextType
      BY <1>1, <2>1 DEF NextType
    <2>4. StatusInv'
      BY <1>1, <2>1, <2>2, <2>3 DEF StatusInv
    <2>5. LayoutTypeOK' /\ InSequence' /\ FieldsOfSchema'
      BY <1>0, <1>1, <2>1 DEF LayoutTypeOK, InSequence, EndOf, FieldsOfSchema
    <2>6. NoGap'
      BY <1>0, <2>1 DEF NoGap, FieldBytes, VersionBytes
    <2> QED
      BY <2>4, <2>5, <2>6 DEF LayoutInv
  <1>3. CASE ~Overflows(NextType.size)
    <2> DEFINE field == [type |-> NextType, offset |-> payloadBytes, size |-> NextType.size]
    <2>0. PICK last \in Nat : last = Len(fields) + 1
      BY <1>1
    <2>1. /\ fields' = Append(fields, field)
          /\ payloadBytes' = payloadBytes + NextType.size
          /\ status' = "building"
      BY <1>1, <1>3 DEF AddField, PlacedAt
    <2>2. payloadBytes \in Nat /\ payloadBytes' \in PayloadVersionSize .. MaxSize
          /\ payloadBytes' > payloadBytes
      BY <1>0, <1>1, <1>3, <2>1 DEF Overflows, LayoutTypeOK
    <2>3. field \in Descriptors /\ fields \in Seq(Descriptors)
      BY <1>0, <1>1, <2>2 DEF Descriptors, LayoutTypeOK
    <2>4. /\ fields' \in Seq(Descriptors) /\ Len(fields') = last
          /\ DOMAIN fields' = DOMAIN fields \union {last}
          /\ last \in Nat /\ last \notin DOMAIN fields
          /\ \A n \in DOMAIN fields : fields'[n] = fields[n] /\ n \in Nat /\ n < last
          /\ fields'[last] = field
      <3> HIDE DEF field
      <3> QED
        BY <2>0, <2>1, <2>3
    <2>5. /\ field.type = NextType /\ field.size = NextType.size /\ field.offset = payloadBytes
      OBVIOUS
    <2>6. \A n \in DOMAIN fields : fields[n].offset \in Nat /\ fields[n].size \in Nat
      BY <1>0, DescriptorTypes
    <2> HIDE DEF field
    <2>7. LayoutTypeOK'
      BY <1>0, <1>1, <2>1, <2>2, <2>4 DEF LayoutTypeOK
    <2>8. InSequence'
      <3>1. ASSUME NEW n \in DOMAIN fields'
            PROVE  fields'[n].offset >= PayloadVersionSize /\ EndOf(n)' <= payloadBytes'
        <4>1. CASE n = last
          <5>1. EndOf(n)' = payloadBytes' /\ fields'[n].offset = payloadBytes
            BY <4>1, <2>1, <2>2, <2>4, <2>5 DEF EndOf
          <5>2. payloadBytes \in Nat /\ payloadBytes >= PayloadVersionSize /\ payloadBytes' \in Nat
            BY <1>0, <1>1, <2>7 DEF LayoutTypeOK
          <5> QED
            BY <5>1, <5>2
        <4>2. CASE n \in DOMAIN fields
          BY <4>2, <1>0, <2>2, <2>4, <2>6 DEF EndOf, InSequence, LayoutTypeOK
        <4> QED
          BY <4>1, <4>2, <2>4
      <3>2. ASSUME NEW m \in DOMAIN fields', NEW n \in DOMAIN fields', m < n
            PROVE  EndOf(m)' <= fields'[n].offset
        <4>1. CASE n = last
          <5>1. m \in DOMAIN fields
            BY <3>2, <4>1, <2>4
          <5> QED
            BY <5>1, <4>1, <1>0, <2>4, <2>5 DEF EndOf, InSequence
        <4>2. CASE n \in DOMAIN fields
          <5>1. m \in DOMAIN fields
            BY <3>2, <4>2, <2>4
          <5> QED
            BY <3>2, <5>1, <4>2, <1>0, <2>4 DEF EndOf, InSequence
        <4> QED
          BY <4>1, <4>2, <2>4
      <3> QED
        BY <3>1, <3>2 DEF InSequence
    <2>9. NoGap'
      <3>1. \A n \in DOMAIN fields : FieldBytes(n)' = FieldBytes(n)
        BY <2>4 DEF FieldBytes
      <3>2. FieldBytes(last)' = payloadBytes .. (payloadBytes' - 1)
        <4>1. fields'[last].offset = payloadBytes /\ fields'[last].size = NextType.size
          BY <2>4, <2>5
        <4>2. FieldBytes(last)' = payloadBytes .. (payloadBytes + NextType.size - 1)
          BY <4>1 DEF FieldBytes
        <4>3. payloadBytes' - 1 = payloadBytes + NextType.size - 1
          BY <1>1, <2>1, <2>2
        <4> QED
          BY <4>2, <4>3, Zenon
      <3>3. VersionBytes' = VersionBytes
        BY DEF VersionBytes
      <3>4. UNION {FieldBytes(n)' : n \in DOMAIN fields'}
              = (UNION {FieldBytes(n) : n \in DOMAIN fields}) \union FieldBytes(last)'
        BY <2>4, <3>1
      <3>5. 0 .. (payloadBytes' - 1)
              = (0 .. (payloadBytes - 1)) \union (payloadBytes .. (payloadBytes' - 1))
        BY <2>2
      <3> QED
        BY <1>0, <3>2, <3>3, <3>4, <3>5 DEF NoGap
    <2>10. FieldsOfSchema'
      <3>1. schema[last] = NextType
        BY <2>0 DEF NextType
      <3>2. Len(fields') <= Len(schema')
        BY <1>1, <2>0, <2>4
      <3> QED
        BY <1>0, <1>1, <2>4, <2>5, <3>1, <3>2 DEF FieldsOfSchema
    <2>11. StatusInv'
      BY <2>1 DEF StatusInv
    <2> QED
      BY <2>7, <2>8, <2>9, <2>10, <2>11 DEF LayoutInv
  <1> QED
    BY <1>2, <1>3

\* The generators refuse no descriptor the builder makes.
LEMMA BoundsHold == LayoutInv => HasValidDescriptorBounds
  <1> SUFFICES ASSUME LayoutInv PROVE HasValidDescriptorBounds
    OBVIOUS
  <1>1. payloadBytes \in Nat /\ payloadBytes >= PayloadVersionSize
    BY SizesAreNat DEF LayoutInv, LayoutTypeOK
  <1>2. ASSUME NEW n \in DOMAIN fields
        PROVE  FitsPayload(fields[n].offset, fields[n].size)
    <2>1. fields[n].offset \in Nat /\ fields[n].size \in Nat \ {0}
      BY DescriptorTypes DEF LayoutInv
    <2>2. fields[n].offset + fields[n].size <= payloadBytes
      BY DEF LayoutInv, InSequence, EndOf
    <2> QED
      BY <1>1, <2>1, <2>2 DEF FitsPayload
  <1> QED
    BY <1>1, <1>2, SizesAreNat DEF HasValidDescriptorBounds, FitsPayload

LEMMA RestKeeps == LayoutInv /\ (Finish \/ Generate \/ UNCHANGED layoutVars) => LayoutInv'
  <1> SUFFICES ASSUME LayoutInv, Finish \/ Generate \/ UNCHANGED layoutVars PROVE LayoutInv'
    OBVIOUS
  <1>1. schema' = schema /\ fields' = fields /\ payloadBytes' = payloadBytes
    BY DEF Finish, Generate, layoutVars
  <1>2. /\ status' \in {"building", "built", "refused", "generated"}
        /\ StatusInv'
    <2>1. NextType' = NextType
      BY <1>1 DEF NextType
    <2>2. CASE Finish
      BY <2>2, <1>1 DEF Finish, StatusInv
    <2>3. CASE Generate
      BY <2>3, <1>1, BoundsHold DEF Generate, StatusInv, LayoutInv
    <2>4. CASE UNCHANGED layoutVars
      BY <2>4, <2>1, <1>1 DEF layoutVars, StatusInv, LayoutInv, LayoutTypeOK
    <2> QED
      BY <2>2, <2>3, <2>4
  <1>3. LayoutTypeOK' /\ InSequence' /\ FieldsOfSchema'
    BY <1>1, <1>2 DEF LayoutInv, LayoutTypeOK, InSequence, EndOf, FieldsOfSchema
  <1>4. NoGap'
    BY <1>1 DEF LayoutInv, NoGap, FieldBytes, VersionBytes
  <1> QED
    BY <1>2, <1>3, <1>4 DEF LayoutInv

\* What PacketDescriptorBuilder::Build makes of a schema tiles the payload, a refusal by
\* Build means that the next field would pass SIZE_MAX, and the bounds check of the
\* generators passes: for every set of schemas and every SIZE_MAX.
THEOREM LayoutTiles == LayoutSpec => []FieldsTile
  <1>1. LayoutInv /\ [LayoutNext]_layoutVars => LayoutInv'
    BY AddFieldKeeps, RestKeeps DEF LayoutNext
  <1>2. LayoutInv => FieldsTile
    <2> SUFFICES ASSUME LayoutInv PROVE FieldsTile
      OBVIOUS
    <2>1. NoOverlap
      BY InSequenceIsApart DEF LayoutInv
    <2>2. payloadBytes <= MaxSize
      BY SizesAreNat DEF LayoutInv, LayoutTypeOK
    <2> QED
      BY <2>1, <2>2 DEF FieldsTile, LayoutInv, StatusInv
  <1> QED
    BY LayoutInitially, <1>1, <1>2, PTL DEF LayoutSpec
-----------------------------------------------------------------------------
\* A set of numbers with 0 in it that goes on from each of them has all.
LEMMA AllNumbers ==
  ASSUME NEW T, 0 \in T, \A n \in Nat : n \in T => n + 1 \in T
  PROVE  \A n \in Nat : n \in T
  <1>1. PICK U : U = {n \in Nat : n \notin T}
    OBVIOUS
  <1>2. ASSUME U # {} PROVE FALSE
    <2>1. PICK x \in U : \A y \in U : ~(<<y, x>> \in OpToRel(<, Nat))
      BY <1>1, <1>2, NatLessThanWellFounded, WFMin
    <2>2. x \in Nat /\ x # 0 /\ x \notin T
      BY <1>1
    <2>3. x - 1 \in Nat /\ x - 1 < x /\ (x - 1) + 1 = x
      BY <2>2
    <2>4. x - 1 \notin T
      BY <2>2, <2>3
    <2>5. x - 1 \in U /\ <<x - 1, x>> \in OpToRel(<, Nat)
      BY <1>1, <2>2, <2>3, <2>4 DEF OpToRel
    <2> QED
      BY <2>1, <2>5
  <1> QED
    BY <1>1, <1>2

(***************************************************************************)
(* PacketCodec: what is encoded is decoded                                 *)
(***************************************************************************)
\* A function on 0..n whose values follow from the one before by the function rule.
Follows(f, first, rule, n) ==
    /\ f = [p \in 0..n |-> f[p]] /\ f[0] = first
    /\ \A p \in 1..n : f[p] = rule[<<p, f[p - 1]>>]

LEMMA RecursionDefined ==
  ASSUME NEW first, NEW rule
  PROVE  \A n \in Nat : \E f : Follows(f, first, rule, n)
  <1>1. PICK T : T = {n \in Nat : \E f : Follows(f, first, rule, n)}
    OBVIOUS
  <1>2. 0 \in T
    <2>1. PICK f : f = [p \in 0..0 |-> first]
      OBVIOUS
    <2>2. Follows(f, first, rule, 0)
      BY <2>1 DEF Follows
    <2> QED
      BY <1>1, <2>2
  <1>3. ASSUME NEW n \in Nat, n \in T PROVE n + 1 \in T
    <2>1. PICK f : Follows(f, first, rule, n)
      BY <1>1, <1>3
    <2>2. PICK last : last = rule[<<n + 1, f[n]>>]
      OBVIOUS
    <2>3. PICK g : g = [p \in 0..(n + 1) |-> IF p = n + 1 THEN last ELSE f[p]]
      OBVIOUS
    <2>4. g = [p \in 0..(n + 1) |-> g[p]] /\ g[0] = first
      BY <2>1, <2>3 DEF Follows
    <2>5. ASSUME NEW p \in 1..(n + 1) PROVE g[p] = rule[<<p, g[p - 1]>>]
      <3>1. p \in 0..(n + 1) /\ p - 1 \in 0..(n + 1) /\ p - 1 # n + 1
        OBVIOUS
      <3>2. g[p - 1] = f[p - 1]
        BY <2>3, <3>1
      <3>3. CASE p = n + 1
        <4>1. g[p] = last /\ p - 1 = n
          BY <2>3, <3>1, <3>3
        <4> QED
          BY <2>2, <3>2, <3>3, <4>1
      <3>4. CASE p # n + 1
        <4>1. p \in 1..n
          BY <3>4
        <4> QED
          BY <2>1, <2>3, <3>1, <3>2, <3>4, <4>1 DEF Follows
      <3> QED
        BY <3>3, <3>4
    <2>6. Follows(g, first, rule, n + 1)
      BY <2>4, <2>5 DEF Follows
    <2> QED
      BY <1>1, <2>6
  <1> QED
    BY <1>1, <1>2, <1>3, AllNumbers

LEMMA RecursionUnique ==
  ASSUME NEW first, NEW rule, NEW m \in Nat, NEW n \in Nat, m <= n,
         NEW f, Follows(f, first, rule, m), NEW g, Follows(g, first, rule, n)
  PROVE  \A p \in 0..m : f[p] = g[p]
  <1>1. PICK T : T = {p \in Nat : p <= m => f[p] = g[p]}
    OBVIOUS
  <1>2. 0 \in T
    BY <1>1 DEF Follows
  <1>3. ASSUME NEW p \in Nat, p \in T PROVE p + 1 \in T
    <2>1. CASE p + 1 <= m
      <3>1. p + 1 \in 1..m /\ p + 1 \in 1..n /\ (p + 1) - 1 = p /\ p <= m
        BY <2>1
      <3>2. f[p] = g[p]
        BY <1>1, <1>3, <3>1
      <3>3. f[p + 1] = rule[<<p + 1, f[p]>>] /\ g[p + 1] = rule[<<p + 1, g[p]>>]
        BY <3>1 DEF Follows
      <3> QED
        BY <1>1, <3>2, <3>3
    <2>2. CASE ~(p + 1 <= m)
      BY <1>1, <2>2
    <2> QED
      BY <2>1, <2>2
  <1>4. \A p \in Nat : p \in T
    BY <1>2, <1>3, AllNumbers
  <1>5. \A p \in 0..m : p \in Nat /\ p <= m
    OBVIOUS
  <1> QED
    BY <1>1, <1>4, <1>5

\* The powers of Byte are those of the recursion.
LEMMA PowerUnrolled ==
  /\ Power[0] = 1
  /\ \A n \in Nat : Power[n + 1] = Byte * Power[n]
  /\ \A n \in Nat : Power[n] \in Nat \ {0}
  <1>1. PICK rule : rule = [x \in Nat \X Nat |-> Byte * x[2]]
    OBVIOUS
  <1>2. Byte \in Nat \ {0} /\ \A n, x \in Nat : rule[<<n + 1, x>>] = Byte * x
    <2>1. Byte \in Nat \ {0}
      BY CodecAssumption
    <2>2. ASSUME NEW n \in Nat, NEW x \in Nat PROVE rule[<<n + 1, x>>] = Byte * x
      <3>1. PICK y : y = <<n + 1, x>>
        OBVIOUS
      <3>2. y \in Nat \X Nat /\ y[2] = x
        BY <3>1
      <3> QED
        BY <1>1, <3>1, <3>2
    <2> QED
      BY <2>1, <2>2
  <1>3. PICK G : G = [n \in Nat |-> CHOOSE f : Follows(f, 1, rule, n)]
    OBVIOUS
  <1>4. \A n \in Nat : Follows(G[n], 1, rule, n)
    BY <1>3, RecursionDefined
  <1>5. PICK P : P = [n \in Nat |-> G[n][n]]
    OBVIOUS
  <1>6. P[0] = 1
    BY <1>4, <1>5 DEF Follows
  <1>7. \A n \in Nat : P[n + 1] = rule[<<n + 1, P[n]>>]
    <2>1. SUFFICES ASSUME NEW n \in Nat PROVE P[n + 1] = rule[<<n + 1, P[n]>>]
      OBVIOUS
    <2>2. n + 1 \in Nat /\ n <= n + 1 /\ n \in 0..n /\ n + 1 \in 1..(n + 1) /\ (n + 1) - 1 = n
      OBVIOUS
    <2>3. Follows(G[n], 1, rule, n) /\ Follows(G[n + 1], 1, rule, n + 1)
      BY <1>4, <2>2
    <2>4. G[n][n] = G[n + 1][n]
      <3>1. PICK f, g : f = G[n] /\ g = G[n + 1]
        OBVIOUS
      <3>2. Follows(f, 1, rule, n) /\ Follows(g, 1, rule, n + 1)
        BY <2>3, <3>1
      <3>3. \A p \in 0..n : f[p] = g[p]
        BY <2>2, <3>2, RecursionUnique
      <3> QED
        BY <2>2, <3>1, <3>3
    <2>5. G[n + 1][n + 1] = rule[<<n + 1, G[n + 1][n]>>]
      BY <2>2, <2>3 DEF Follows
    <2> QED
      BY <1>5, <2>2, <2>4, <2>5
  <1>8. \A n \in Nat : P[n] \in Nat \ {0}
    <2>1. PICK T : T = {n \in Nat : P[n] \in Nat \ {0}}
      OBVIOUS
    <2>2. 0 \in T
      BY <1>6, <2>1
    <2>3. ASSUME NEW n \in Nat, n \in T PROVE n + 1 \in T
      <3>1. P[n] \in Nat \ {0}
        BY <2>1, <2>3
      <3>2. P[n + 1] = Byte * P[n]
        BY <1>2, <1>7, <3>1
      <3>3. PICK a \in Nat \ {0}, b \in Nat \ {0} : a = Byte /\ b = P[n]
        BY <1>2, <3>1
      <3>4. a * b \in Nat \ {0}
        BY <3>3
      <3> QED
        BY <2>1, <3>2, <3>3, <3>4
    <2> QED
      BY <2>1, <2>2, <2>3, AllNumbers
  <1>9. \A n \in Nat : P[n + 1] = Byte * P[n]
    BY <1>2, <1>7, <1>8
  <1>10. P = [n \in Nat |-> IF n = 0 THEN 1 ELSE Byte * P[n - 1]]
    <2>1. ASSUME NEW n \in Nat PROVE P[n] = IF n = 0 THEN 1 ELSE Byte * P[n - 1]
      <3>1. CASE n = 0
        BY <1>6, <3>1
      <3>2. CASE n # 0
        <4>1. n - 1 \in Nat /\ (n - 1) + 1 = n
          BY <3>2
        <4>2. P[n] = Byte * P[n - 1]
          BY <1>9, <4>1
        <4> QED
          BY <3>2, <4>2
      <3> QED
        BY <3>1, <3>2
    <2>2. P = [n \in Nat |-> P[n]]
      BY <1>5
    <2> QED
      BY <2>1, <2>2
  <1>11. Power = CHOOSE Q : Q = [n \in Nat |-> IF n = 0 THEN 1 ELSE Byte * Q[n - 1]]
    BY DEF Power
  <1>12. Power = [n \in Nat |-> IF n = 0 THEN 1 ELSE Byte * Power[n - 1]]
    BY Zenon, <1>10, <1>11
  <1>13. Power[0] = 1
    BY <1>12
  <1>14. \A n \in Nat : Power[n + 1] = Byte * Power[n]
    <2>1. \A n \in Nat : n + 1 \in Nat /\ n + 1 # 0 /\ (n + 1) - 1 = n
      OBVIOUS
    <2> QED
      BY <1>12, <2>1
  <1>15. \A n \in Nat : Power[n] = P[n]
    <2>1. PICK T : T = {n \in Nat : Power[n] = P[n]}
      OBVIOUS
    <2>2. 0 \in T
      BY <1>6, <1>13, <2>1
    <2>3. ASSUME NEW n \in Nat, n \in T PROVE n + 1 \in T
      BY <1>9, <1>14, <2>1, <2>3
    <2> QED
      BY <2>1, <2>2, <2>3, AllNumbers
  <1> QED
    BY <1>8, <1>13, <1>14, <1>15

\* A quotient and a remainder are the only ones.
LEMMA DivisionIs ==
  ASSUME NEW n \in Nat \ {0}, NEW q \in Int, NEW r \in 0..(n - 1), NEW x \in Int, x = n * q + r
  PROVE  x % n = r /\ x \div n = q
  OBVIOUS

\* Dividing by a product: by one factor, then what came out by the other.
LEMMA RemainderOfProduct ==
  ASSUME NEW u \in Nat, NEW m \in Nat \ {0}, NEW b \in Nat \ {0}
  PROVE  u % (b * m) = (u % m) + ((u \div m) % b) * m
  <1>1. PICK q, r : q = u \div m /\ r = u % m
    OBVIOUS
  <1>2. q \in Nat /\ r \in 0..(m - 1) /\ u = m * q + r
    BY <1>1
  <1>3. PICK c, d : c = q \div b /\ d = q % b
    OBVIOUS
  <1>4. c \in Nat /\ d \in 0..(b - 1) /\ q = b * c + d
    BY <1>2, <1>3
  <1>5. d * m + r \in 0..(b * m - 1) /\ b * m \in Nat \ {0}
    <2>1. d \in Nat /\ d + 1 <= b /\ r \in Nat /\ r + 1 <= m /\ d * m \in Nat /\ b * m \in Nat
      BY <1>2, <1>4
    <2>2. (d + 1) * m <= b * m /\ (d + 1) * m = d * m + m
      BY <2>1
    <2> QED
      BY <2>1, <2>2
  <1>6. u = (b * m) * c + (d * m + r)
    <2>1. u = m * (b * c + d) + r
      BY <1>2, <1>4
    <2>2. m * (b * c + d) = (b * m) * c + d * m
      BY <1>2, <1>4
    <2> QED
      BY <1>2, <1>4, <2>1, <2>2
  <1>7. u % (b * m) = d * m + r
    <2>1. PICK n, e : n = b * m /\ e = d * m + r
      OBVIOUS
    <2>2. n \in Nat \ {0} /\ e \in 0..(n - 1) /\ c \in Int /\ u \in Int /\ u = n * c + e
      BY <1>4, <1>5, <1>6, <2>1
    <2>3. u % n = e
      BY <2>2, DivisionIs
    <2> QED
      BY <2>1, <2>3
  <1> QED
    BY <1>1, <1>2, <1>3, <1>4, <1>7

\* The bytes of the word raw stand from an offset on, the lowest first.
Holds(bytes, offset, raw, size) ==
    \A k \in 0..(size - 1) : bytes[offset + 1 + k] = ByteOf(raw, k, size)

LEMMA ByteOfIsByte ==
  ASSUME NEW raw \in Nat, NEW k \in Nat, NEW size
  PROVE  ByteOf(raw, k, size) \in 0..(Byte - 1)
  <1>1. PICK m \in Nat \ {0}, b \in Nat \ {0} : m = Power[k] /\ b = Byte
    BY CodecAssumption, PowerUnrolled
  <1>2. raw \div m \in Nat
    OBVIOUS
  <1>3. (raw \div m) % b \in 0..(b - 1)
    BY <1>2
  <1> QED
    BY <1>1, <1>3 DEF ByteOf

\* What the loop of the reader has gathered is known by the number of bytes it has read.
LEMMA ReadUnrolled ==
  ASSUME NEW bytes, bytes \in Seq(0..(Byte - 1)), NEW offset \in Nat, NEW type, type.size \in Nat,
         offset + type.size <= Len(bytes)
  PROVE  \E f : /\ ReadLittleEndian(bytes, offset, type) = FromUnsignedBits(f[type.size], type)
                /\ f[0] = 0
                /\ \A k \in 1..type.size : f[k] = f[k - 1] + bytes[offset + k] * Power[k - 1]
  <1>1. PICK n \in Nat : n = type.size
    OBVIOUS
  <1>2. ASSUME NEW k \in 1..n
        PROVE  bytes[offset + k] \in Int /\ Power[k - 1] \in Int /\ k - 1 \in 0..n
    <2>1. offset + k \in 1..Len(bytes) /\ k - 1 \in Nat /\ k - 1 \in 0..n
      BY <1>1
    <2>2. bytes[offset + k] \in 0..(Byte - 1) /\ Byte \in Nat
      BY <2>1, CodecAssumption
    <2>3. bytes[offset + k] \in Int
      BY <2>2
    <2>4. Power[k - 1] \in Int
      <3>1. PICK j \in Nat : j = k - 1
        BY <2>1
      <3>2. Power[j] \in Nat \ {0}
        BY PowerUnrolled
      <3> QED
        BY <3>1, <3>2
    <2> QED
      BY <2>1, <2>3, <2>4
  <1>3. PICK rule : rule = [x \in (1..n) \X Int |-> x[2] + bytes[offset + x[1]] * Power[x[1] - 1]]
    OBVIOUS
  <1>4. ASSUME NEW k \in 1..n, NEW i \in Int
        PROVE  rule[<<k, i>>] = i + bytes[offset + k] * Power[k - 1] /\ rule[<<k, i>>] \in Int
    <2>1. PICK x : x = <<k, i>>
      OBVIOUS
    <2>2. x \in (1..n) \X Int /\ x[1] = k /\ x[2] = i
      BY <2>1
    <2>3. rule[x] = i + bytes[offset + k] * Power[k - 1]
      BY <1>3, <2>2
    <2>4. PICK a \in Int, b \in Int : a = bytes[offset + k] /\ b = Power[k - 1]
      BY <1>2
    <2>5. i + a * b \in Int
      OBVIOUS
    <2> QED
      BY <2>1, <2>3, <2>4, <2>5
  <1>5. PICK g : Follows(g, 0, rule, n)
    BY RecursionDefined
  <1>6. \A k \in Nat : k <= n => g[k] \in Int
    <2>1. PICK T : T = {k \in Nat : k <= n => g[k] \in Int}
      OBVIOUS
    <2>2. 0 \in T
      BY <1>5, <2>1 DEF Follows
    <2>3. ASSUME NEW k \in Nat, k \in T PROVE k + 1 \in T
      <3>1. CASE k + 1 <= n
        <4>1. k + 1 \in 1..n /\ (k + 1) - 1 = k /\ k <= n
          BY <3>1
        <4>2. g[k] \in Int
          BY <2>1, <2>3, <4>1
        <4>3. g[k + 1] = rule[<<k + 1, g[k]>>]
          BY <1>5, <4>1 DEF Follows
        <4>4. rule[<<k + 1, g[k]>>] \in Int
          BY <1>4, <4>1, <4>2
        <4> QED
          BY <2>1, <4>3, <4>4
      <3>2. CASE ~(k + 1 <= n)
        BY <2>1, <3>2
      <3> QED
        BY <3>1, <3>2
    <2> QED
      BY <2>1, <2>2, <2>3, AllNumbers
  <1>7. ASSUME NEW k \in 1..n PROVE g[k] = g[k - 1] + bytes[offset + k] * Power[k - 1]
    <2>1. k - 1 \in Nat /\ k - 1 <= n
      OBVIOUS
    <2>2. g[k - 1] \in Int
      BY <1>6, <2>1
    <2> QED
      BY <1>4, <1>5, <2>2 DEF Follows
  <1>8. g = [k \in 0..n |-> IF k = 0 THEN 0 ELSE g[k - 1] + bytes[offset + k] * Power[k - 1]]
    <2>1. ASSUME NEW k \in 0..n
          PROVE  g[k] = IF k = 0 THEN 0 ELSE g[k - 1] + bytes[offset + k] * Power[k - 1]
      <3>1. CASE k = 0
        BY <1>5, <3>1 DEF Follows
      <3>2. CASE k # 0
        <4>1. k \in 1..n
          BY <3>2
        <4> QED
          BY <1>7, <3>2, <4>1
      <3> QED
        BY <3>1, <3>2
    <2>2. g = [k \in 0..n |-> g[k]]
      BY <1>5 DEF Follows
    <2> QED
      BY <2>1, <2>2
  <1>9. PICK f : f = CHOOSE h : h = [k \in 0..n |->
                        IF k = 0 THEN 0 ELSE h[k - 1] + bytes[offset + k] * Power[k - 1]]
    OBVIOUS
  <1>10. f = [k \in 0..n |-> IF k = 0 THEN 0 ELSE f[k - 1] + bytes[offset + k] * Power[k - 1]]
    BY Zenon, <1>8, <1>9
  <1>11. f[0] = 0 /\ \A k \in 1..n : f[k] = f[k - 1] + bytes[offset + k] * Power[k - 1]
    <2>1. 0 \in 0..n /\ \A k \in 1..n : k \in 0..n /\ k # 0
      OBVIOUS
    <2> QED
      BY <1>10, <2>1
  <1>12. ReadLittleEndian(bytes, offset, type) = FromUnsignedBits(f[type.size], type)
    BY <1>1, <1>9 DEF ReadLittleEndian
  <1> QED
    BY <1>1, <1>11, <1>12

\* The bytes of a word give its remainders by the powers of Byte, and the word in the end.
LEMMA BytesGiveWord ==
  ASSUME NEW bytes, NEW offset \in Nat, NEW size \in Nat, NEW raw \in 0..(Power[size] - 1),
         Holds(bytes, offset, raw, size), NEW f, f[0] = 0,
         \A k \in 1..size : f[k] = f[k - 1] + bytes[offset + k] * Power[k - 1]
  PROVE  f[size] = raw
  <1>1. PICK b \in Nat \ {0} : b = Byte
    BY CodecAssumption
  <1>2. \A n \in Nat : Power[n] \in Nat \ {0} /\ Power[n + 1] = b * Power[n]
    BY <1>1, PowerUnrolled
  <1>3. raw \in Nat
    BY <1>2
  <1>4. PICK T : T = {k \in Nat : k <= size => f[k] = raw % Power[k]}
    OBVIOUS
  <1>5. 0 \in T
    <2>1. Power[0] = 1 /\ raw % 1 = 0
      BY <1>3, PowerUnrolled
    <2> QED
      BY <1>4, <2>1
  <1>6. ASSUME NEW k \in Nat, k \in T PROVE k + 1 \in T
    <2>1. CASE k + 1 <= size
      <3>1. k + 1 \in 1..size /\ (k + 1) - 1 = k /\ k <= size /\ k \in 0..(size - 1) /\ offset + (k + 1) = offset + 1 + k
        BY <2>1
      <3>2. PICK m \in Nat \ {0} : m = Power[k]
        BY <1>2
      <3>3. f[k] = raw % m
        BY <1>4, <1>6, <3>1, <3>2
      <3>4. bytes[offset + (k + 1)] = (raw \div m) % b
        BY <1>1, <3>1, <3>2 DEF Holds, ByteOf
      <3>5. f[k + 1] = f[k] + bytes[offset + (k + 1)] * m
        BY <3>1, <3>2
      <3>6. raw % (b * m) = (raw % m) + ((raw \div m) % b) * m
        BY <1>3, RemainderOfProduct
      <3>7. Power[k + 1] = b * m
        BY <1>2, <3>2
      <3>8. f[k + 1] = raw % Power[k + 1]
        BY <3>3, <3>4, <3>5, <3>6, <3>7
      <3> QED
        BY <1>4, <3>8
    <2>2. CASE ~(k + 1 <= size)
      BY <1>4, <2>2
    <2> QED
      BY <2>1, <2>2
  <1>7. size \in T
    BY <1>5, <1>6, AllNumbers
  <1>8. PICK p \in Nat \ {0} : p = Power[size]
    BY <1>2
  <1>9. raw % p = raw
    BY <1>3, <1>8
  <1> QED
    BY <1>4, <1>7, <1>8, <1>9

\* Two's complement: the bits of a value of a type are those of no other.
LEMMA BitsGiveValue ==
  ASSUME NEW type \in Types, NEW v \in Values(type)
  PROVE  /\ v \in Int
         /\ ToUnsignedBits(v, type.size) \in 0..(Power[type.size] - 1)
         /\ FromUnsignedBits(ToUnsignedBits(v, type.size), type) = v
  <1>1. type.size \in Nat /\ type.signed \in BOOLEAN
    BY DEF Types
  <1>2. PICK p \in Nat \ {0} : p = Power[type.size]
    BY <1>1, PowerUnrolled
  <1>3. PICK half \in Nat : half = p \div 2
    OBVIOUS
  <1>4. 2 * half <= p
    BY <1>3
  <1>5. PICK u : u = v % p
    OBVIOUS
  <1>6. ToUnsignedBits(v, type.size) = u
    BY <1>2, <1>5 DEF ToUnsignedBits
  <1>7. CASE ~type.signed
    <2>1. v \in 0..(p - 1)
      BY <1>2, <1>7 DEF Values
    <2>2. u = v
      BY <1>5, <2>1
    <2> QED
      BY <1>2, <1>6, <1>7, <2>1, <2>2 DEF FromUnsignedBits
  <1>8. CASE type.signed
    <2>1. v \in (-half)..(half - 1)
      BY <1>2, <1>3, <1>8 DEF Values
    <2>2. CASE v >= 0
      <3>1. v \in 0..(p - 1) /\ v < half
        BY <1>4, <2>1, <2>2
      <3>2. u = v
        BY <1>5, <3>1
      <3>3. ~(u >= half)
        BY <3>1, <3>2
      <3> QED
        BY <1>2, <1>3, <1>6, <3>1, <3>2, <3>3 DEF FromUnsignedBits
    <2>3. CASE v < 0
      <3>1. v + p \in 0..(p - 1) /\ v + p >= half /\ v \in Int
        BY <1>4, <2>1, <2>3
      <3>2. v = p * (-1) + (v + p)
        BY <3>1
      <3>3. u = v + p
        <4>1. PICK x, y : x = v + p /\ y = -1
          OBVIOUS
        <4>2. x \in 0..(p - 1) /\ y \in Int /\ v \in Int /\ v = p * y + x
          BY <3>1, <3>2, <4>1
        <4>3. v % p = x
          BY <4>2, DivisionIs
        <4> QED
          BY <1>5, <4>1, <4>3
      <3>4. FromUnsignedBits(u, type) = u - p
        BY <1>2, <1>3, <1>8, <3>1, <3>3 DEF FromUnsignedBits
      <3> QED
        BY <1>2, <1>6, <3>1, <3>3, <3>4
    <2> QED
      BY <2>1, <2>2, <2>3
  <1> QED
    BY <1>1, <1>7, <1>8

LEMMA ReadBack ==
  ASSUME NEW bytes, bytes \in Seq(0..(Byte - 1)), NEW offset \in Nat, NEW type \in Types,
         offset + type.size <= Len(bytes), NEW v \in Values(type),
         Holds(bytes, offset, ToUnsignedBits(v, type.size), type.size)
  PROVE  ReadLittleEndian(bytes, offset, type) = v
  <1>1. PICK size \in Nat : size = type.size
    BY DEF Types
  <1>2. PICK raw : raw = ToUnsignedBits(v, type.size)
    OBVIOUS
  <1>3. raw \in 0..(Power[size] - 1) /\ FromUnsignedBits(raw, type) = v
    BY <1>1, <1>2, BitsGiveValue
  <1>4. PICK f : /\ ReadLittleEndian(bytes, offset, type) = FromUnsignedBits(f[size], type)
                 /\ f[0] = 0
                 /\ \A k \in 1..size : f[k] = f[k - 1] + bytes[offset + k] * Power[k - 1]
    BY <1>1, ReadUnrolled
  <1>5. f[size] = raw
    <2>1. Holds(bytes, offset, raw, size)
      BY <1>1, <1>2
    <2>2. raw \in 0..(Power[size] - 1)
      BY <1>3
    <2>3. f[0] = 0 /\ \A k \in 1..size : f[k] = f[k - 1] + bytes[offset + k] * Power[k - 1]
      BY <1>4
    <2> QED
      BY <2>1, <2>2, <2>3, BytesGiveWord
  <1> QED
    BY <1>3, <1>4, <1>5

\* A write puts the bytes of the word in their place and leaves the others.
Bytes(n) == [1..n -> 0..(Byte - 1)]

LEMMA WriteWrites ==
  ASSUME NEW n \in Nat, NEW bytes \in Bytes(n), NEW offset \in Nat, NEW size \in Nat, NEW v \in Int,
         NEW w, w = WriteLittleEndian(bytes, offset, v, size)
  PROVE  /\ w \in Bytes(n)
         /\ \A p \in 1..n : p <= offset => w[p] = bytes[p]
         /\ offset + size <= n => Holds(w, offset, ToUnsignedBits(v, size), size)
  <1>1. PICK raw : raw = ToUnsignedBits(v, size)
    OBVIOUS
  <1>2. raw \in Nat
    <2>1. PICK m \in Nat \ {0} : m = Power[size]
      BY PowerUnrolled
    <2>2. v % m \in Nat
      BY <2>1
    <2> QED
      BY <1>1, <2>1, <2>2 DEF ToUnsignedBits
  <1>3. w = [p \in 1..n |-> IF p - 1 \in offset .. (offset + size - 1)
                            THEN ByteOf(raw, p - 1 - offset, size) ELSE bytes[p]]
    BY <1>1 DEF WriteLittleEndian, Bytes
  <1>4. ASSUME NEW p \in 1..n
        PROVE  w[p] \in 0..(Byte - 1)
    <2>1. CASE p - 1 \in offset .. (offset + size - 1)
      <3>1. p - 1 - offset \in Nat
        BY <2>1
      <3> QED
        BY <1>2, <1>3, <2>1, <3>1, ByteOfIsByte
    <2>2. CASE ~(p - 1 \in offset .. (offset + size - 1))
      BY <1>3, <2>2 DEF Bytes
    <2> QED
      BY <2>1, <2>2
  <1>5. w \in Bytes(n)
    BY <1>3, <1>4 DEF Bytes
  <1>6. ASSUME NEW p \in 1..n, p <= offset PROVE w[p] = bytes[p]
    <2>1. ~(p - 1 \in offset .. (offset + size - 1))
      BY <1>6
    <2> QED
      BY <1>3, <2>1
  <1>7. ASSUME offset + size <= n PROVE Holds(w, offset, raw, size)
    <2>1. ASSUME NEW k \in 0..(size - 1) PROVE w[offset + 1 + k] = ByteOf(raw, k, size)
      <3>1. PICK p : p = offset + 1 + k
        OBVIOUS
      <3>2. p \in 1..n /\ p - 1 \in offset .. (offset + size - 1) /\ p - 1 - offset = k
        BY <1>7, <3>1
      <3> QED
        BY <1>3, <3>1, <3>2
    <2> QED
      BY <2>1 DEF Holds
  <1> QED
    BY <1>1, <1>5, <1>6, <1>7

\* What the writer has made is known by the number of fields it has written.
PayloadStep(bytes, version, values, f, k) ==
    IF k = 0 THEN WriteLittleEndian(bytes, PayloadVersionOffset, version, PayloadVersionSize)
    ELSE WriteLittleEndian(f[k - 1], fields[k].offset, values[k], fields[k].size)

\* The values are ones of the fields' types.
Fitting(values) == \A n \in DOMAIN fields : values[n] \in Values(schema[n])

FieldTypes == \A n \in 1..Len(fields) :
    /\ schema[n] \in Types /\ fields[n].type = schema[n] /\ fields[n].size = schema[n].size
    /\ fields[n].offset \in Nat /\ fields[n].size \in Nat
    /\ fields[n].offset >= PayloadVersionSize /\ EndOf(n) <= payloadBytes

LEMMA FieldsAreTyped == LayoutInv => FieldTypes /\ Len(fields) \in Nat /\ DOMAIN fields = 1..Len(fields)
  <1> SUFFICES ASSUME LayoutInv PROVE FieldTypes /\ Len(fields) \in Nat /\ DOMAIN fields = 1..Len(fields)
    OBVIOUS
  <1>1. fields \in Seq(Descriptors) /\ schema \in Seq(Types) /\ Len(fields) <= Len(schema)
    BY DEF LayoutInv, LayoutTypeOK, FieldsOfSchema
  <1>2. Len(fields) \in Nat /\ DOMAIN fields = 1..Len(fields) /\ Len(schema) \in Nat
    BY <1>1
  <1>3. ASSUME NEW n \in 1..Len(fields)
        PROVE  /\ schema[n] \in Types /\ fields[n].type = schema[n] /\ fields[n].size = schema[n].size
               /\ fields[n].offset \in Nat /\ fields[n].size \in Nat
               /\ fields[n].offset >= PayloadVersionSize /\ EndOf(n) <= payloadBytes
    <2>1. n \in 1..Len(schema)
      BY <1>1, <1>2
    <2>2. schema[n] \in Types
      BY <1>1, <2>1
    <2>3. fields[n].type = schema[n] /\ fields[n].size = schema[n].size
      BY <1>2 DEF LayoutInv, FieldsOfSchema
    <2>4. fields[n].offset \in Nat /\ fields[n].size \in Nat
      BY <1>2, DescriptorTypes DEF LayoutInv
    <2>5. fields[n].offset >= PayloadVersionSize /\ EndOf(n) <= payloadBytes
      BY <1>2 DEF LayoutInv, InSequence
    <2> QED
      BY <2>2, <2>3, <2>4, <2>5
  <1> QED
    BY <1>2, <1>3 DEF FieldTypes

LEMMA PayloadUnrolled ==
  ASSUME LayoutInv, NEW size \in Nat, NEW bytes \in Bytes(size), NEW version \in Int,
         NEW values, Fitting(values)
  PROVE  \E f : /\ Payload(bytes, version, values) = f[Len(fields)]
                /\ \A k \in 0..Len(fields) : f[k] \in Bytes(size)
                /\ f[0] = WriteLittleEndian(bytes, PayloadVersionOffset, version, PayloadVersionSize)
                /\ \A k \in 1..Len(fields) :
                      f[k] = WriteLittleEndian(f[k - 1], fields[k].offset, values[k], fields[k].size)
  <1>1. PICK n \in Nat : n = Len(fields)
    BY FieldsAreTyped
  <1>2. PICK first : first = WriteLittleEndian(bytes, PayloadVersionOffset, version, PayloadVersionSize)
    OBVIOUS
  <1>3. first \in Bytes(size)
    <2>1. PICK o \in Nat, s \in Nat : o = PayloadVersionOffset /\ s = PayloadVersionSize
      BY SizesAreNat
    <2> QED
      BY <1>2, <2>1, WriteWrites
  <1>4. PICK rule : rule = [x \in (1..n) \X Bytes(size) |->
                     WriteLittleEndian(x[2], fields[x[1]].offset, values[x[1]], fields[x[1]].size)]
    OBVIOUS
  <1>5. ASSUME NEW k \in 1..n, NEW b \in Bytes(size)
        PROVE  /\ rule[<<k, b>>] = WriteLittleEndian(b, fields[k].offset, values[k], fields[k].size)
               /\ rule[<<k, b>>] \in Bytes(size)
    <2>1. PICK x : x = <<k, b>>
      OBVIOUS
    <2>2. x \in (1..n) \X Bytes(size) /\ x[1] = k /\ x[2] = b
      BY <2>1
    <2>3. rule[x] = WriteLittleEndian(b, fields[k].offset, values[k], fields[k].size)
      BY <1>4, <2>2
    <2>4. PICK o \in Nat, s \in Nat, v \in Int : o = fields[k].offset /\ s = fields[k].size /\ v = values[k]
      <3>1. fields[k].offset \in Nat /\ fields[k].size \in Nat /\ schema[k] \in Types
        BY <1>1, FieldsAreTyped DEF FieldTypes
      <3>2. values[k] \in Values(schema[k])
        BY <1>1, FieldsAreTyped DEF Fitting
      <3> QED
        BY <3>1, <3>2, BitsGiveValue
    <2>5. rule[x] \in Bytes(size)
      <3>1. PICK w : w = WriteLittleEndian(b, fields[k].offset, values[k], fields[k].size)
        OBVIOUS
      <3>2. w \in Bytes(size)
        BY <2>4, <3>1, WriteWrites
      <3> QED
        BY <2>3, <3>1, <3>2
    <2> QED
      BY <2>1, <2>3, <2>5
  <1>6. PICK g : Follows(g, first, rule, n)
    BY RecursionDefined
  <1>7. \A k \in Nat : k <= n => g[k] \in Bytes(size)
    <2>1. PICK T : T = {k \in Nat : k <= n => g[k] \in Bytes(size)}
      OBVIOUS
    <2>2. 0 \in T
      BY <1>3, <1>6, <2>1 DEF Follows
    <2>3. ASSUME NEW k \in Nat, k \in T PROVE k + 1 \in T
      <3>1. CASE k + 1 <= n
        <4>1. k + 1 \in 1..n /\ (k + 1) - 1 = k /\ k <= n
          BY <3>1
        <4>2. g[k] \in Bytes(size)
          BY <2>1, <2>3, <4>1
        <4>3. g[k + 1] = rule[<<k + 1, g[k]>>]
          BY <1>6, <4>1 DEF Follows
        <4>4. rule[<<k + 1, g[k]>>] \in Bytes(size)
          BY <1>5, <4>1, <4>2
        <4> QED
          BY <2>1, <4>3, <4>4
      <3>2. CASE ~(k + 1 <= n)
        BY <2>1, <3>2
      <3> QED
        BY <3>1, <3>2
    <2> QED
      BY <2>1, <2>2, <2>3, AllNumbers
  <1>8. ASSUME NEW k \in 1..n
        PROVE  g[k] = WriteLittleEndian(g[k - 1], fields[k].offset, values[k], fields[k].size)
    <2>1. k - 1 \in Nat /\ k - 1 <= n
      OBVIOUS
    <2>2. g[k - 1] \in Bytes(size)
      BY <1>7, <2>1
    <2>3. g[k] = rule[<<k, g[k - 1]>>]
      BY <1>6 DEF Follows
    <2> QED
      BY <1>5, <2>2, <2>3
  <1>9. g = [k \in 0..n |->
                IF k = 0 THEN WriteLittleEndian(bytes, PayloadVersionOffset, version, PayloadVersionSize)
                ELSE WriteLittleEndian(g[k - 1], fields[k].offset, values[k], fields[k].size)]
    <2>1. ASSUME NEW k \in 0..n
          PROVE  g[k] = IF k = 0 THEN first
                        ELSE WriteLittleEndian(g[k - 1], fields[k].offset, values[k], fields[k].size)
      <3>1. CASE k = 0
        BY <1>6, <3>1 DEF Follows
      <3>2. CASE k # 0
        <4>1. k \in 1..n
          BY <3>2
        <4> QED
          BY <1>8, <3>2, <4>1
      <3> QED
        BY <3>1, <3>2
    <2>2. g = [k \in 0..n |-> g[k]]
      BY <1>6 DEF Follows
    <2> QED
      BY <1>2, <2>1, <2>2
  <1>10. PICK f : f = CHOOSE h : h = [k \in 0..n |->
                IF k = 0 THEN WriteLittleEndian(bytes, PayloadVersionOffset, version, PayloadVersionSize)
                ELSE WriteLittleEndian(h[k - 1], fields[k].offset, values[k], fields[k].size)]
    OBVIOUS
  <1>11. f = [k \in 0..n |->
                IF k = 0 THEN WriteLittleEndian(bytes, PayloadVersionOffset, version, PayloadVersionSize)
                ELSE WriteLittleEndian(f[k - 1], fields[k].offset, values[k], fields[k].size)]
    BY Zenon, <1>9, <1>10
  <1>12. Payload(bytes, version, values) = f[Len(fields)]
    BY <1>1, <1>10 DEF Payload
  <1>13. /\ f[0] = first
         /\ \A k \in 1..n : f[k] = WriteLittleEndian(f[k - 1], fields[k].offset, values[k], fields[k].size)
    <2>1. 0 \in 0..n /\ \A k \in 1..n : k \in 0..n /\ k # 0
      OBVIOUS
    <2> QED
      BY <1>2, <1>11, <2>1
  <1>14. \A k \in Nat : k <= n => f[k] = g[k]
    <2>1. PICK T : T = {k \in Nat : k <= n => f[k] = g[k]}
      OBVIOUS
    <2>2. 0 \in T
      BY <1>6, <1>13, <2>1 DEF Follows
    <2>3. ASSUME NEW k \in Nat, k \in T PROVE k + 1 \in T
      <3>1. CASE k + 1 <= n
        <4>1. k + 1 \in 1..n /\ (k + 1) - 1 = k /\ k <= n
          BY <3>1
        <4>2. f[k] = g[k]
          BY <2>1, <2>3, <4>1
        <4>3. f[k + 1] = g[k + 1]
          BY <1>8, <1>13, <4>1, <4>2
        <4> QED
          BY <2>1, <4>3
      <3>2. CASE ~(k + 1 <= n)
        BY <2>1, <3>2
      <3> QED
        BY <3>1, <3>2
    <2> QED
      BY <2>1, <2>2, <2>3, AllNumbers
  <1>15. \A k \in 0..n : f[k] \in Bytes(size)
    <2>1. \A k \in 0..n : k \in Nat /\ k <= n
      OBVIOUS
    <2> QED
      BY <1>7, <1>14, <2>1
  <1> QED
    BY <1>1, <1>2, <1>12, <1>13, <1>15

LEMMA HoldsStays ==
  ASSUME NEW n \in Nat, NEW b, NEW w, NEW bound \in 0..n, \A p \in 1..n : p <= bound => w[p] = b[p],
         NEW offset \in Nat, NEW size \in Nat, offset + size <= bound, NEW raw, Holds(b, offset, raw, size)
  PROVE  Holds(w, offset, raw, size)
  <1>1. ASSUME NEW k \in 0..(size - 1) PROVE w[offset + 1 + k] = ByteOf(raw, k, size)
    <2>1. offset + 1 + k \in 1..n /\ offset + 1 + k <= bound
      OBVIOUS
    <2> QED
      BY <2>1 DEF Holds
  <1> QED
    BY <1>1 DEF Holds

\* The version and the first k fields stand in the payload.
Written(b, version, values, k) ==
    /\ Holds(b, PayloadVersionOffset, ToUnsignedBits(version, PayloadVersionSize), PayloadVersionSize)
    /\ \A m \in 1..k : Holds(b, fields[m].offset, ToUnsignedBits(values[m], fields[m].size), fields[m].size)

LEMMA PayloadIsWritten ==
  ASSUME LayoutInv, NEW bytes \in Bytes(payloadBytes), NEW version \in Int, NEW values, Fitting(values),
         NEW w, w = Payload(bytes, version, values)
  PROVE  w \in Bytes(payloadBytes) /\ Written(w, version, values, Len(fields))
  <1>1. PICK n \in Nat, size \in Nat : n = Len(fields) /\ size = payloadBytes /\ size >= PayloadVersionSize
    BY FieldsAreTyped, SizesAreNat DEF LayoutInv, LayoutTypeOK
  <1>2. PICK f : /\ w = f[n]
                 /\ \A k \in 0..n : f[k] \in Bytes(size)
                 /\ f[0] = WriteLittleEndian(bytes, PayloadVersionOffset, version, PayloadVersionSize)
                 /\ \A k \in 1..n :
                       f[k] = WriteLittleEndian(f[k - 1], fields[k].offset, values[k], fields[k].size)
    BY <1>1, PayloadUnrolled
  <1>3. PICK T : T = {k \in Nat : k <= n => Written(f[k], version, values, k)}
    OBVIOUS
  <1>4. 0 \in T
    <2>1. PICK o \in Nat, s \in Nat : o = PayloadVersionOffset /\ s = PayloadVersionSize /\ o = 0
      BY SizesAreNat
    <2> PICK b : b = f[0]
      OBVIOUS
    <2>2. b = WriteLittleEndian(bytes, o, version, s) /\ o + s <= size
      BY <1>1, <1>2, <2>1
    <2>3. Holds(b, o, ToUnsignedBits(version, s), s)
      BY <1>1, <2>2, WriteWrites
    <2>4. Written(b, version, values, 0)
      BY <2>1, <2>3 DEF Written
    <2> QED
      BY <1>3, <2>4
  <1>5. ASSUME NEW k \in Nat, k \in T PROVE k + 1 \in T
    <2>1. CASE k + 1 <= n
      <3>1. k + 1 \in 1..n /\ k \in 0..n /\ (k + 1) - 1 = k /\ k <= n
        BY <2>1
      <3>2. Written(f[k], version, values, k)
        BY <1>3, <1>5, <3>1
      <3>3. PICK o \in Nat, s \in Nat, v \in Int :
                /\ o = fields[k + 1].offset /\ s = fields[k + 1].size /\ v = values[k + 1]
                /\ o >= PayloadVersionSize /\ o + s <= size
        <4>1. /\ fields[k + 1].offset \in Nat /\ fields[k + 1].size \in Nat /\ schema[k + 1] \in Types
              /\ fields[k + 1].offset >= PayloadVersionSize /\ EndOf(k + 1) <= payloadBytes
          BY <1>1, <3>1, FieldsAreTyped DEF FieldTypes
        <4>2. values[k + 1] \in Values(schema[k + 1])
          BY <1>1, <3>1, FieldsAreTyped DEF Fitting
        <4>3. values[k + 1] \in Int
          BY <4>1, <4>2, BitsGiveValue
        <4> QED
          BY <1>1, <4>1, <4>3 DEF EndOf
      <3>4. PICK b, c : b = f[k] /\ c = f[k + 1]
        OBVIOUS
      <3>5. b \in Bytes(size) /\ c = WriteLittleEndian(b, o, v, s) /\ o \in 0..size
        BY <1>2, <3>1, <3>3, <3>4
      <3>6. /\ \A p \in 1..size : p <= o => c[p] = b[p]
            /\ Holds(c, o, ToUnsignedBits(v, s), s)
        <4>1. ASSUME NEW p \in 1..size, p <= o PROVE c[p] = b[p]
          <5>1. p \in DOMAIN b /\ ~(p - 1 \in o .. (o + s - 1))
            BY <3>5, <4>1 DEF Bytes
          <5> QED
            BY <3>5, <5>1 DEF WriteLittleEndian
        <4>2. o + s <= size => Holds(c, o, ToUnsignedBits(v, s), s)
          BY <3>5, WriteWrites
        <4> QED
          BY <3>3, <4>1, <4>2
      <3>7. Holds(c, PayloadVersionOffset, ToUnsignedBits(version, PayloadVersionSize), PayloadVersionSize)
        <4> PICK raw : raw = ToUnsignedBits(version, PayloadVersionSize)
          OBVIOUS
        <4>1. PICK x \in Nat, y \in Nat : /\ x = PayloadVersionOffset /\ y = PayloadVersionSize
                                          /\ raw = ToUnsignedBits(version, PayloadVersionSize)
                                          /\ x + y <= o
          BY <3>3, SizesAreNat
        <4>2. Holds(b, x, raw, y)
          BY <3>2, <3>4, <4>1 DEF Written
        <4>3. Holds(c, x, raw, y)
          BY <3>5, <3>6, <4>1, <4>2, HoldsStays
        <4> QED
          BY <4>1, <4>3
      <3>8. ASSUME NEW m \in 1..(k + 1)
            PROVE  Holds(c, fields[m].offset, ToUnsignedBits(values[m], fields[m].size), fields[m].size)
        <4>1. CASE m = k + 1
          BY <3>3, <3>6, <4>1
        <4>2. CASE m # k + 1
          <5>1. m \in 1..k /\ m \in 1..n /\ m < k + 1
            BY <3>1, <4>2
          <5> PICK raw : raw = ToUnsignedBits(values[m], fields[m].size)
            OBVIOUS
          <5>2. PICK x \in Nat, y \in Nat : /\ x = fields[m].offset /\ y = fields[m].size
                                            /\ raw = ToUnsignedBits(values[m], fields[m].size)
            BY <1>1, <5>1, FieldsAreTyped DEF FieldTypes
          <5>3. m \in DOMAIN fields /\ k + 1 \in DOMAIN fields
            BY <1>1, <3>1, <5>1, FieldsAreTyped
          <5>4. EndOf(m) <= fields[k + 1].offset
            BY <5>1, <5>3 DEF LayoutInv, InSequence
          <5>5. x + y <= o
            BY <3>3, <5>2, <5>4 DEF EndOf
          <5>6. Holds(b, x, raw, y)
            BY <3>2, <3>4, <5>1, <5>2 DEF Written
          <5>7. Holds(c, x, raw, y)
            BY <3>5, <3>6, <5>5, <5>6, HoldsStays
          <5> QED
            BY <5>2, <5>7
        <4> QED
          BY <4>1, <4>2
      <3>9. Written(c, version, values, k + 1)
        BY <3>7, <3>8 DEF Written
      <3> QED
        BY <1>3, <3>4, <3>9
    <2>2. CASE ~(k + 1 <= n)
      BY <1>3, <2>2
    <2> QED
      BY <2>1, <2>2
  <1>6. n \in T /\ n \in 0..n
    BY <1>4, <1>5, AllNumbers
  <1> QED
    BY <1>1, <1>2, <1>3, <1>6

LEMMA FunctionIsSeq ==
  ASSUME NEW n \in Nat, NEW S, NEW w \in [1..n -> S]
  PROVE  w \in Seq(S) /\ Len(w) = n
  OBVIOUS

\* A payload as it is encoded, as the receiver reads it.
Carries(bytes, version, values) ==
    /\ VersionOf(bytes) = version
    /\ \A n \in DOMAIN fields : DecodedFields(bytes)[n] = values[n]

LEMMA PayloadCarries ==
  ASSUME LayoutInv, NEW bytes \in Bytes(payloadBytes), NEW version \in Versions, NEW values, Fitting(values)
  PROVE  /\ Payload(bytes, version, values) \in Bytes(payloadBytes)
         /\ Carries(Payload(bytes, version, values), version, values)
  <1>1. PICK w : w = Payload(bytes, version, values)
    OBVIOUS
  <1>2. version \in 0..(Byte * Byte - 1) /\ version \in Int /\ Byte \in Nat
    BY CodecAssumption
  <1>3. w \in Bytes(payloadBytes) /\ Written(w, version, values, Len(fields))
    BY <1>1, <1>2, PayloadIsWritten
  <1>4. PICK size \in Nat : size = payloadBytes /\ size >= PayloadVersionSize
    BY SizesAreNat DEF LayoutInv, LayoutTypeOK
  <1>5. w \in Seq(0..(Byte - 1)) /\ Len(w) = size
    BY <1>3, <1>4, FunctionIsSeq DEF Bytes
  <1>6. VersionOf(w) = version
    <2>1. PICK type : type = [size |-> PayloadVersionSize, signed |-> FALSE]
      OBVIOUS
    <2>2. type \in Types /\ type.size = PayloadVersionSize /\ ~type.signed
      BY <2>1, SizesAreNat DEF Types
    <2>3. Power[2] = Byte * Byte
      <3>1. Power[0] = 1 /\ Power[0 + 1] = Byte * Power[0] /\ Power[1 + 1] = Byte * Power[1]
        BY PowerUnrolled
      <3> QED
        BY <1>2, <3>1
    <2>4. version \in Values(type)
      BY <1>2, <2>2, <2>3, SizesAreNat DEF Values
    <2>5. Holds(w, PayloadVersionOffset, ToUnsignedBits(version, type.size), type.size)
      BY <1>3, <2>2 DEF Written
    <2>6. PICK o \in Nat : o = PayloadVersionOffset /\ o + type.size <= Len(w)
      BY <1>4, <1>5, <2>2, SizesAreNat
    <2>7. ReadLittleEndian(w, o, type) = version
      BY <1>5, <2>2, <2>4, <2>5, <2>6, ReadBack
    <2> QED
      BY <2>1, <2>6, <2>7 DEF VersionOf
  <1>7. ASSUME NEW n \in DOMAIN fields PROVE DecodedFields(w)[n] = values[n]
    <2>1. n \in 1..Len(fields)
      BY FieldsAreTyped
    <2>2. /\ schema[n] \in Types /\ fields[n].type = schema[n] /\ fields[n].size = schema[n].size
          /\ fields[n].offset \in Nat /\ fields[n].size \in Nat /\ EndOf(n) <= payloadBytes
      BY <2>1, FieldsAreTyped DEF FieldTypes
    <2>3. PICK type \in Types, o \in Nat : type = fields[n].type /\ o = fields[n].offset
      BY <2>2
    <2>4. values[n] \in Values(type) /\ o + type.size <= Len(w)
      BY <1>4, <1>5, <2>2, <2>3 DEF Fitting, EndOf
    <2>5. Holds(w, o, ToUnsignedBits(values[n], type.size), type.size)
      BY <1>3, <2>1, <2>2, <2>3 DEF Written
    <2>6. ReadLittleEndian(w, o, type) = values[n]
      BY <1>5, <2>4, <2>5, ReadBack
    <2> QED
      BY <2>3, <2>6 DEF DecodedFields
  <1> QED
    BY <1>1, <1>3, <1>6, <1>7 DEF Carries

\* What is encoded and not yet decoded.
EncodedInv ==
    stage = "decode" =>
        /\ Fitting(value)
        /\ target = [n \in DOMAIN fields |-> Old(schema[n])]
        /\ IF Len(buffer) = payloadBytes
           THEN /\ encoded = "success" /\ buffer \in Bytes(payloadBytes)
                /\ Carries(buffer, sender.version, value)
           ELSE encoded # "success" /\ buffer = Garbage(Len(buffer))

CodecInv ==
    /\ LayoutInv
    /\ stage \in {"encode", "decode", "end"}
    /\ stage # "encode" => status = "generated"
    /\ sender \in [language : Languages, version : Versions]
    /\ EncodedInv /\ CodecRoundTrip

LEMMA CodecInitially == CodecInit => CodecInv
  BY LayoutInitially DEF CodecInit, CodecInv, EncodedInv, CodecRoundTrip

LEMMA GarbageIsBytes ==
  ASSUME NEW size \in Nat
  PROVE  /\ Garbage(size) \in Bytes(size) /\ [n \in 1..size |-> 0] \in Bytes(size)
         /\ Len(Garbage(size)) = size
  <1>1. Byte - 1 \in 0..(Byte - 1) /\ 0 \in 0..(Byte - 1)
    BY CodecAssumption
  <1>2. Garbage(size) \in Bytes(size) /\ [n \in 1..size |-> 0] \in Bytes(size)
    BY <1>1 DEF Garbage, Bytes
  <1> QED
    BY <1>2, FunctionIsSeq DEF Bytes

LEMMA EncodeKeeps == CodecInv /\ Encode => CodecInv'
  <1> SUFFICES ASSUME CodecInv, Encode PROVE CodecInv'
    OBVIOUS
  <1>1. /\ schema' = schema /\ fields' = fields /\ payloadBytes' = payloadBytes /\ status' = status
        /\ sender' = sender /\ receiver' = receiver
        /\ stage = "encode" /\ stage' = "decode" /\ status = "generated"
    BY DEF Encode, layoutVars
  <1>2. LayoutInv'
    BY <1>1, RestKeeps DEF CodecInv, layoutVars
  <1>3. PICK size \in ViewSizes, values \in [DOMAIN fields -> UNION {Values(schema[n]) : n \in DOMAIN schema}] :
            /\ \A n \in DOMAIN fields : values[n] \in Values(schema[n])
            /\ value' = values
            /\ encoded' = ValidateEncodeView(size)
            /\ buffer' = IF encoded' = "success"
                         THEN Payload(IF sender.language = "cpp" THEN [n \in 1..size |-> 0] ELSE Garbage(size),
                                      sender.version, values)
                         ELSE Garbage(size)
            /\ target' = [n \in DOMAIN fields |-> Old(schema[n])]
    BY DEF Encode
  <1>4. size \in Nat /\ payloadBytes \in Nat
    BY SizesAreNat DEF ViewSizes, CodecInv, LayoutInv, LayoutTypeOK
  <1>5. Fitting(values) /\ sender.version \in Versions
    BY <1>3 DEF Fitting, CodecInv
  <1>6. encoded' = "success" <=> size = payloadBytes
    BY <1>3 DEF ValidateEncodeView
  <1>7. PICK blank : blank = IF sender.language = "cpp" THEN [n \in 1..size |-> 0] ELSE Garbage(size)
    OBVIOUS
  <1>8. blank \in Bytes(size)
    BY <1>4, <1>7, GarbageIsBytes
  <1>9. CASE size = payloadBytes
    <2>1. encoded' = "success" /\ buffer' = Payload(blank, sender.version, values)
      BY <1>3, <1>6, <1>7, <1>9
    <2>2. buffer' \in Bytes(payloadBytes) /\ Carries(buffer', sender.version, values)
      BY <1>5, <1>8, <1>9, <2>1, PayloadCarries DEF CodecInv
    <2>3. Len(buffer') = payloadBytes /\ DOMAIN buffer' = 1..payloadBytes
      BY <1>4, <2>2, FunctionIsSeq DEF Bytes
    <2>4. \A n \in DOMAIN buffer' : buffer'[n] \in 0..(Byte - 1)
      BY <2>2, <2>3 DEF Bytes
    <2>5. Carries(buffer, sender.version, value)'
      BY <1>1, <1>3, <2>2 DEF Carries, DecodedFields, VersionOf
    <2>6. EncodedInv'
      BY <1>1, <1>3, <1>5, <2>1, <2>2, <2>3, <2>5 DEF EncodedInv, Fitting, Bytes
    <2>7. CodecRoundTrip'
      BY <1>1, <2>1, <2>3, <2>4 DEF CodecRoundTrip
    <2> QED
      BY <1>1, <1>2, <2>6, <2>7 DEF CodecInv
  <1>10. CASE size # payloadBytes
    <2>1. encoded' # "success" /\ buffer' = Garbage(size) /\ Len(buffer') = size
      BY <1>3, <1>4, <1>6, <1>10, GarbageIsBytes
    <2>2. EncodedInv'
      BY <1>1, <1>3, <1>5, <1>10, <2>1 DEF EncodedInv, Fitting
    <2>3. CodecRoundTrip'
      BY <1>1, <1>10, <2>1 DEF CodecRoundTrip
    <2> QED
      BY <1>1, <1>2, <2>2, <2>3 DEF CodecInv
  <1> QED
    BY <1>9, <1>10

LEMMA DecodeKeeps == CodecInv /\ Decode => CodecInv'
  <1> SUFFICES ASSUME CodecInv, Decode PROVE CodecInv'
    OBVIOUS
  <1>1. /\ schema' = schema /\ fields' = fields /\ payloadBytes' = payloadBytes /\ status' = status
        /\ sender' = sender /\ receiver' = receiver /\ value' = value /\ buffer' = buffer /\ encoded' = encoded
        /\ stage = "decode" /\ stage' = "end" /\ status = "generated"
    BY DEF Decode, layoutVars, CodecInv
  <1>2. LayoutInv'
    BY <1>1, RestKeeps DEF CodecInv, layoutVars
  <1>3. EncodedInv'
    BY <1>1 DEF EncodedInv
  <1>4. PICK view : view = ValidateDecodeView(Len(buffer))
    OBVIOUS
  <1>5. view = "success" <=> Len(buffer) = payloadBytes
    BY <1>4 DEF ValidateDecodeView
  <1>6. /\ decoded' = IF view # "success" THEN view
                      ELSE IF VersionOf(buffer) # receiver.version THEN Refusal ELSE "success"
        /\ target' = IF decoded' = "success" THEN DecodedFields(buffer)
                     ELSE IF receiver.language = "csharp" THEN Defaults ELSE target
    BY <1>4 DEF Decode
  <1>7. encoded = "success" <=> Len(buffer) = payloadBytes
    BY <1>1 DEF CodecInv, EncodedInv
  <1>8. Len(buffer) = payloadBytes => Carries(buffer, sender.version, value)
    BY <1>1 DEF CodecInv, EncodedInv
  <1>9. decoded' = "success" <=> encoded = "success" /\ sender.version = receiver.version
    BY <1>5, <1>6, <1>7, <1>8 DEF Carries, Refusal
  <1>10. ASSUME NEW n \in DOMAIN fields
         PROVE  target'[n] = IF decoded' = "success" THEN value[n]
                             ELSE IF receiver.language = "csharp" THEN 0 ELSE Old(schema[n])
    <2>1. CASE decoded' = "success"
      BY <1>6, <1>7, <1>8, <1>9, <2>1 DEF Carries
    <2>2. CASE decoded' # "success"
      <3>1. CASE receiver.language = "csharp"
        BY <1>6, <2>2, <3>1 DEF Defaults
      <3>2. CASE receiver.language # "csharp"
        <4>1. target = [m \in DOMAIN fields |-> Old(schema[m])]
          BY <1>1 DEF CodecInv, EncodedInv
        <4> QED
          BY <1>6, <2>2, <3>2, <4>1
      <3> QED
        BY <3>1, <3>2
    <2> QED
      BY <2>1, <2>2
  <1>11. IF Len(buffer) = payloadBytes
         THEN encoded = "success" /\ \A n \in DOMAIN buffer : buffer[n] \in 0 .. (Byte - 1)
         ELSE encoded # "success" /\ buffer = Garbage(Len(buffer))
    BY <1>1 DEF CodecInv, CodecRoundTrip
  <1>12. CodecRoundTrip'
    <2>1. \A n \in DOMAIN fields' :
             target'[n] = IF decoded' = "success" THEN value'[n]
                          ELSE IF receiver'.language = "csharp" THEN 0 ELSE Old(schema'[n])
      BY <1>1, <1>10
    <2> QED
      BY <1>1, <1>9, <1>11, <2>1 DEF CodecRoundTrip, Garbage, Old
  <1> QED
    BY <1>1, <1>2, <1>3, <1>12 DEF CodecInv

LEMMA LayoutStepKeeps == CodecInv /\ LayoutNext /\ UNCHANGED codecVars => CodecInv'
  <1> SUFFICES ASSUME CodecInv, LayoutNext, UNCHANGED codecVars PROVE CodecInv'
    OBVIOUS
  <1>1. LayoutInv'
    BY AddFieldKeeps, RestKeeps DEF CodecInv, LayoutNext
  <1>2. status # "generated"
    BY DEF LayoutNext, AddField, Finish, Generate
  <1>3. stage = "encode" /\ stage' = "encode" /\ sender' = sender
    BY <1>2 DEF CodecInv, codecVars
  <1> QED
    BY <1>1, <1>3 DEF CodecInv, EncodedInv, CodecRoundTrip

LEMMA CodecStutters == CodecInv /\ UNCHANGED <<layoutVars, codecVars>> => CodecInv'
  <1> SUFFICES ASSUME CodecInv, UNCHANGED <<layoutVars, codecVars>> PROVE CodecInv'
    OBVIOUS
  <1>1. /\ schema' = schema /\ fields' = fields /\ payloadBytes' = payloadBytes /\ status' = status
        /\ sender' = sender /\ receiver' = receiver /\ stage' = stage /\ value' = value
        /\ buffer' = buffer /\ encoded' = encoded /\ decoded' = decoded /\ target' = target
    BY DEF layoutVars, codecVars
  <1>2. LayoutInv'
    BY <1>1, RestKeeps DEF CodecInv, layoutVars
  <1>3. EncodedInv'
    BY <1>1 DEF CodecInv, EncodedInv, Fitting, Carries, VersionOf, DecodedFields
  <1>4. CodecRoundTrip'
    BY <1>1 DEF CodecInv, CodecRoundTrip
  <1> QED
    BY <1>1, <1>2, <1>3, <1>4 DEF CodecInv

\* What one language encoded the other decodes to the same values, whatever the schema, the values and
\* what the buffer held before, if the versions agree; if they do not, or the view has another size,
\* the receiver's object is as it was (C++) or blank (C#) (the generated Encode and Decode on the
\* little-endian helpers).
THEOREM RoundTripHolds == CodecSpec => []CodecRoundTrip
  <1>1. CodecInv /\ [CodecNext]_<<layoutVars, codecVars>> => CodecInv'
    BY LayoutStepKeeps, EncodeKeeps, DecodeKeeps, CodecStutters DEF CodecNext
  <1>2. CodecInv => CodecRoundTrip
    BY DEF CodecInv
  <1> QED
    BY CodecInitially, <1>1, <1>2, PTL DEF CodecSpec
-----------------------------------------------------------------------------
(***************************************************************************)
(* PacketTool: what is looked at                                           *)
(***************************************************************************)
Order == [file : File, version : Version]

Steps == {"idle", "configure", "collect", "directory", "compile",
          "inspect", "open", "write", "replace", "cleanup"}

Committing == pc[Tool] \in {"inspect", "open", "write", "replace", "cleanup"}
Listed     == Committing \/ pc[Tool] \in {"directory", "compile"}

(***************************************************************************)
(* The file system                                                         *)
(***************************************************************************)
FileType ==
    /\ final \in [File -> Inode \union {NoInode}]
    /\ temporary \in [File -> Inode \union {NoInode}]
    /\ data \in [Inode -> [1..Chunks -> Version \union {Absent}]]
    /\ pc \in [{Tool} -> Steps]
    /\ batch \in [{Tool} -> Seq(Order)]
    /\ next \in [{Tool} -> Nat \ {0}]
    /\ open \in [{Tool} -> Inode \union {NoInode}]
    /\ written \in [{Tool} -> 0..Chunks]
    /\ result \in [{Tool} -> {"none", "success", "failure", "killed"}]
    /\ Committing => next[Tool] \in 1..Len(batch[Tool])

\* No inode has two names.
NamesApart ==
    /\ \A f, g \in File : final[f] # NoInode /\ final[f] = final[g] => f = g
    /\ \A f, g \in File : temporary[f] # NoInode /\ temporary[f] = temporary[g] => f = g
    /\ \A f, g \in File : final[f] # NoInode => final[f] # temporary[g]

\* The run writes to the temporary file of its target, and replaces with a whole one.
WriteInv ==
    /\ pc[Tool] = "write" =>
          /\ open[Tool] = temporary[Target(Tool)] /\ open[Tool] # NoInode
          /\ \A k \in 1..written[Tool] : data[open[Tool]][k] = Contents(Tool)
    /\ pc[Tool] # "write" => open[Tool] = NoInode
    /\ pc[Tool] = "replace" => /\ temporary[Target(Tool)] # NoInode
                               /\ data[temporary[Target(Tool)]] = Whole(Contents(Tool))

FileInv == FileType /\ NamesApart /\ NeverPartial /\ WriteInv

(***************************************************************************)
(* The schemas                                                             *)
(***************************************************************************)
Source == Schema \union {Missing, Invalid}

ToolType ==
    /\ sources \in [Path -> Source]
    /\ start \in [Path -> Source]
    /\ directory \in BOOLEAN /\ changed \in BOOLEAN
    /\ paths \in Seq(Path)
    /\ schemas \in Seq(Schema)
    /\ diagnostic \in Path \union {0}
    /\ (~changed => sources = start)

\* Each path is listed once; from the sorting on all of them are there, in order.
ListInv ==
    /\ \A m, n \in 1..Len(paths) : paths[m] = paths[n] => m = n
    /\ ~changed => \A n \in 1..Len(paths) : paths[n] \in Existing
    /\ Listed => \A m, n \in 1..Len(paths) : m < n => paths[m] < paths[n]
    /\ Listed => paths # << >>
    /\ Listed /\ ~changed => \A path \in Existing : \E n \in 1..Len(paths) : paths[n] = path

\* What has been compiled is legal and as it was at the launch; nothing is committed before all is.
SchemaInv ==
    /\ Len(schemas) <= Len(paths)
    /\ \A m, n \in 1..Len(schemas) :
          m # n => schemas[m].name # schemas[n].name /\ schemas[m].id # schemas[n].id
    /\ ~changed => \A n \in 1..Len(schemas) : schemas[n] = start[paths[n]]
    /\ pc[Tool] \in {"configure", "collect", "directory"} => schemas = << >>
    /\ pc[Tool] = "compile" => directory
    /\ Committing => /\ directory /\ Len(schemas) = Len(paths)
                     /\ batch[Tool] = [n \in DOMAIN schemas |-> [file |-> schemas[n].name,
                                                                 version |-> schemas[n].id]]

ReportInv ==
    /\ diagnostic # 0 => pc[Tool] = "idle" /\ result[Tool] = "failure"
    /\ pc[Tool] # "idle" => result[Tool] = "none"
    /\ FirstProblemReported

(***************************************************************************)
(* What has been done                                                      *)
(***************************************************************************)
\* The files before the one at hand are as they should be.
DoneInv ==
    Committing => \A k \in 1..(next[Tool] - 1) :
                     IsCurrent(batch[Tool][k].file, batch[Tool][k].version)

Inv == FileInv /\ ToolType /\ ListInv /\ SchemaInv /\ ReportInv /\ DoneInv /\ SuccessMeansGenerated
-----------------------------------------------------------------------------
LEMMA Constants ==
  /\ Process = {Tool} /\ Tool \in Process /\ Batches = {}
  /\ Path \subseteq Nat /\ 0 \notin Path
  /\ Chunks \in Nat /\ Chunks # 0 /\ NoInode \notin Inode /\ Absent \notin Version
  /\ Missing # Invalid /\ Missing \notin Schema /\ Invalid \notin Schema
  BY ToolAssumption, CommitterAssumption DEF Absent

\* The order of which the run is at work.
LEMMA OrderAtHand ==
  ASSUME FileType, Committing
  PROVE  /\ batch[Tool][next[Tool]] \in Order
         /\ Target(Tool) \in File /\ Contents(Tool) \in Version
         /\ next[Tool] \in Nat /\ next[Tool] >= 1 /\ next[Tool] <= Len(batch[Tool])
         /\ Len(batch[Tool]) \in Nat
  <1>1. /\ batch[Tool] \in Seq(Order) /\ next[Tool] \in 1..Len(batch[Tool])
        /\ Len(batch[Tool]) \in Nat
    BY DEF FileType
  <1>2. batch[Tool][next[Tool]] \in Order
    BY <1>1
  <1> QED
    BY <1>1, <1>2 DEF Order, Target, Contents

(***************************************************************************)
(* Types                                                                   *)
(***************************************************************************)
\* What is needed of a step that goes on with the same batch.
LEMMA FileTypeSame ==
  ASSUME FileType,
         NEW step \in Steps, pc' = [pc EXCEPT ![Tool] = step],
         final' \in [File -> Inode \union {NoInode}],
         temporary' \in [File -> Inode \union {NoInode}],
         data' \in [Inode -> [1..Chunks -> Version \union {Absent}]],
         open' \in [{Tool} -> Inode \union {NoInode}],
         written' \in [{Tool} -> 0..Chunks],
         result' \in [{Tool} -> {"none", "success", "failure", "killed"}],
         UNCHANGED <<batch, next>>,
         step \in {"inspect", "open", "write", "replace", "cleanup"} => Committing
  PROVE  FileType'
  <1>1. pc' \in [{Tool} -> Steps] /\ pc'[Tool] = step
    BY DEF FileType
  <1>2. Committing' => next'[Tool] \in 1..Len(batch'[Tool])
    BY <1>1 DEF FileType, Committing
  <1> QED
    BY <1>1, <1>2 DEF FileType

LEMMA ProceedType ==
  ASSUME FileType, Committing, Proceed(Tool),
         final' \in [File -> Inode \union {NoInode}],
         temporary' \in [File -> Inode \union {NoInode}],
         UNCHANGED <<data, batch, open, written>>
  PROVE  FileType'
  <1>1. CASE next[Tool] < Len(batch[Tool])
    <2>1. /\ next' = [next EXCEPT ![Tool] = @ + 1]
          /\ pc' = [pc EXCEPT ![Tool] = "inspect"] /\ result' = result
      BY <1>1 DEF Proceed
    <2>2. next'[Tool] = next[Tool] + 1 /\ next' \in [{Tool} -> Nat \ {0}]
      BY <2>1 DEF FileType
    <2>3. next'[Tool] \in 1..Len(batch'[Tool])
      BY <1>1, <2>2, OrderAtHand
    <2>4. pc' \in [{Tool} -> Steps]
      BY <2>1 DEF FileType, Steps
    <2> QED
      BY <2>1, <2>2, <2>3, <2>4 DEF FileType
  <1>2. CASE ~(next[Tool] < Len(batch[Tool]))
    <2>1. /\ pc' = [pc EXCEPT ![Tool] = "idle"]
          /\ result' = [result EXCEPT ![Tool] = "success"] /\ next' = next
      BY <1>2 DEF Proceed
    <2>2. pc' \in [{Tool} -> Steps] /\ pc'[Tool] = "idle"
      BY <2>1 DEF FileType, Steps
    <2>3. result' \in [{Tool} -> {"none", "success", "failure", "killed"}]
      BY <2>1 DEF FileType
    <2>4. ~Committing'
      BY <2>2 DEF Committing
    <2> QED
      BY <2>1, <2>2, <2>3, <2>4 DEF FileType
  <1> QED
    BY <1>1, <1>2

LEMMA RunStepType ==
  ASSUME FileType, WriteInv, RunStep(Tool)
  PROVE  FileType'
  <1> USE DEF files, local
  <1>0. Committing
    BY DEF RunStep, InspectCurrent, InspectOther, InspectFails, OpenTemporary, OpenFails, Write,
           WriteFails, Close, ReplaceFile, ReplaceFails, RemoveTemporaryFile, Committing
  <1>1. CASE InspectCurrent(Tool)
    BY <1>0, <1>1, ProceedType DEF InspectCurrent, FileType
  <1>2. CASE InspectOther(Tool)
    BY <1>0, <1>2, FileTypeSame DEF InspectOther, FileType, Steps
  <1>3. CASE InspectFails(Tool) \/ OpenFails(Tool) \/ ReplaceFails(Tool)
    <2>1. Fails(Tool)
      BY <1>3 DEF InspectFails, OpenFails, ReplaceFails
    <2> QED
      BY <1>0, <2>1, FileTypeSame DEF Fails, FileType, Steps
  <1>4. ASSUME NEW i \in Inode, OpenTemporary(Tool, i) PROVE FileType'
    <2>1. /\ data' = [data EXCEPT ![i] = Nothing] /\ open' = [open EXCEPT ![Tool] = i]
          /\ written' = [written EXCEPT ![Tool] = 0] /\ pc' = [pc EXCEPT ![Tool] = "write"]
          /\ temporary' = [temporary EXCEPT ![Target(Tool)] = i]
          /\ UNCHANGED <<final, batch, next, result>>
      BY <1>4 DEF OpenTemporary, Opened
    <2>2. Nothing \in [1..Chunks -> Version \union {Absent}]
      BY DEF Nothing, Whole
    <2>3. /\ data' \in [Inode -> [1..Chunks -> Version \union {Absent}]]
          /\ temporary' \in [File -> Inode \union {NoInode}]
      BY <2>1, <2>2 DEF FileType
    <2>4. /\ open' \in [{Tool} -> Inode \union {NoInode}] /\ written' \in [{Tool} -> 0..Chunks]
      BY <2>1, Constants DEF FileType
    <2> QED
      BY <1>0, <2>1, <2>3, <2>4, FileTypeSame DEF FileType, Steps
  <1>5. CASE Write(Tool)
    <2>1. /\ data' = [data EXCEPT ![open[Tool]][written[Tool] + 1] = Contents(Tool)]
          /\ written' = [written EXCEPT ![Tool] = @ + 1]
          /\ written[Tool] < Chunks /\ pc[Tool] = "write"
          /\ UNCHANGED <<final, temporary, pc, batch, next, open, result>>
      BY <1>5 DEF Write
    <2>2. open[Tool] \in Inode /\ Contents(Tool) \in Version
      BY <1>0, <2>1, OrderAtHand DEF WriteInv, FileType
    <2>3. data' \in [Inode -> [1..Chunks -> Version \union {Absent}]]
      BY <2>1, <2>2 DEF FileType
    <2>4. written' \in [{Tool} -> 0..Chunks]
      BY <2>1, Constants DEF FileType
    <2>5. Committing' => next'[Tool] \in 1..Len(batch'[Tool])
      BY <1>0, <2>1 DEF FileType
    <2> QED
      BY <2>1, <2>3, <2>4, <2>5 DEF FileType
  <1>6. CASE WriteFails(Tool) \/ Close(Tool)
    <2>1. PICK step \in {"cleanup", "replace"} : pc' = [pc EXCEPT ![Tool] = step]
      BY <1>6 DEF WriteFails, Close
    <2>2. /\ open' = [open EXCEPT ![Tool] = NoInode]
          /\ UNCHANGED <<files, batch, next, written, result>>
      BY <1>6 DEF WriteFails, Close
    <2>3. open' \in [{Tool} -> Inode \union {NoInode}]
      BY <2>2 DEF FileType
    <2>4. step \in Steps
      BY DEF Steps
    <2> QED
      BY <1>0, <2>1, <2>2, <2>3, <2>4, FileTypeSame DEF FileType
  <1>7. CASE ReplaceFile(Tool)
    <2>1. /\ final' = [final EXCEPT ![Target(Tool)] = temporary[Target(Tool)]]
          /\ temporary' = [temporary EXCEPT ![Target(Tool)] = NoInode]
          /\ Proceed(Tool) /\ UNCHANGED <<data, batch, open, written>>
      BY <1>7 DEF ReplaceFile
    <2>2. /\ final' \in [File -> Inode \union {NoInode}]
          /\ temporary' \in [File -> Inode \union {NoInode}]
      BY <1>0, <2>1, OrderAtHand DEF FileType
    <2> QED
      BY <1>0, <2>1, <2>2, ProceedType
  <1>8. CASE RemoveTemporaryFile(Tool)
    <2>1. /\ temporary' \in {temporary, [temporary EXCEPT ![Target(Tool)] = NoInode]}
          /\ pc' = [pc EXCEPT ![Tool] = "idle"]
          /\ result' = [result EXCEPT ![Tool] = "failure"]
          /\ UNCHANGED <<final, data, local>>
      BY <1>8 DEF RemoveTemporaryFile
    <2>2. temporary' \in [File -> Inode \union {NoInode}]
      BY <2>1 DEF FileType
    <2>3. result' \in [{Tool} -> {"none", "success", "failure", "killed"}]
      BY <2>1 DEF FileType
    <2> QED
      BY <2>1, <2>2, <2>3, FileTypeSame DEF FileType, Steps
  <1> QED
    BY <1>1, <1>2, <1>3, <1>4, <1>5, <1>6, <1>7, <1>8 DEF RunStep

(***************************************************************************)
(* The files                                                               *)
(***************************************************************************)
\* A step that does not touch the files, and after which the run does not write.
LEMMA FilesLeft ==
  ASSUME FileInv, FileType', UNCHANGED files,
         open'[Tool] = NoInode, pc'[Tool] \notin {"write", "replace"}
  PROVE  FileInv'
  <1>1. NamesApart'
    BY DEF FileInv, NamesApart, files
  <1>2. NeverPartial'
    BY DEF FileInv, NeverPartial, files
  <1>3. WriteInv'
    BY DEF WriteInv
  <1> QED
    BY <1>1, <1>2, <1>3 DEF FileInv

LEMMA OpenTemporaryInv ==
  ASSUME FileInv, NEW i \in Inode, OpenTemporary(Tool, i), FileType'
  PROVE  FileInv'
  <1> DEFINE f == Target(Tool)
  <1>1. /\ Committing /\ f \in File /\ f' = f /\ Contents(Tool)' = Contents(Tool)
        /\ pc'[Tool] = "write"
    BY OrderAtHand DEF FileInv, FileType, OpenTemporary, Opened, Committing, Target, Contents
  <1>2. /\ IF temporary[f] = NoInode THEN ~InUse(i) ELSE i = temporary[f]
        /\ data' = [data EXCEPT ![i] = Nothing]
        /\ open' = [open EXCEPT ![Tool] = i] /\ written' = [written EXCEPT ![Tool] = 0]
        /\ temporary' = [temporary EXCEPT ![f] = i] /\ final' = final
    BY DEF OpenTemporary, Opened
  <1>3. \A g \in File : final[g] # i
    BY <1>1, <1>2, Constants DEF FileInv, NamesApart, InUse
  <1>4. \A g \in File : temporary[g] = i => g = f
    BY <1>1, <1>2, Constants DEF FileInv, NamesApart, InUse
  <1>5. \A g \in File : temporary'[g] = IF g = f THEN i ELSE temporary[g]
    BY <1>1, <1>2 DEF FileInv, FileType
  <1>6. NamesApart'
    BY <1>1, <1>2, <1>3, <1>4, <1>5 DEF FileInv, NamesApart
  <1>7. NeverPartial'
    BY <1>2, <1>3 DEF FileInv, FileType, NeverPartial
  <1>8. WriteInv'
    <2>1. open'[Tool] = i /\ written'[Tool] = 0 /\ temporary'[f] = i /\ i # NoInode
      BY <1>1, <1>2, <1>5, Constants DEF FileInv, FileType
    <2> QED
      BY <1>1, <2>1 DEF WriteInv
  <1> QED
    BY <1>6, <1>7, <1>8 DEF FileInv

LEMMA WriteKeeps ==
  ASSUME FileInv, Write(Tool), FileType'
  PROVE  FileInv'
  <1> DEFINE f == Target(Tool)
             i == open[Tool]
             v == Contents(Tool)
  <1>1. /\ pc[Tool] = "write" /\ Committing /\ f \in File /\ v \in Version
        /\ f' = f /\ v' = v
    BY OrderAtHand DEF FileInv, Write, Committing, Target, Contents
  <1>2. /\ data' = [data EXCEPT ![i][written[Tool] + 1] = v]
        /\ written' = [written EXCEPT ![Tool] = @ + 1] /\ written[Tool] < Chunks
        /\ UNCHANGED <<final, temporary, pc, open>>
    BY DEF Write
  <1>3. i = temporary[f] /\ i \in Inode /\ i # NoInode
    BY <1>1, Constants DEF FileInv, FileType, WriteInv
  <1>4. \A g \in File : final[g] # i
    BY <1>1, <1>3 DEF FileInv, NamesApart
  <1>5. NamesApart'
    BY <1>2 DEF FileInv, NamesApart
  <1>6. NeverPartial'
    BY <1>2, <1>4 DEF FileInv, FileType, NeverPartial
  <1>7. \A k \in 1..written'[Tool] : data'[i][k] = v
    <2>1. written[Tool] \in 0..Chunks /\ written'[Tool] = written[Tool] + 1 /\ Chunks \in Nat
      BY <1>2, Constants DEF FileInv, FileType
    <2>2. data[i] \in [1..Chunks -> Version \union {Absent}]
      BY <1>3 DEF FileInv, FileType
    <2>3. data'[i] = [data[i] EXCEPT ![written[Tool] + 1] = v]
      BY <1>2, <1>3 DEF FileInv, FileType
    <2>4. \A k \in 1..written[Tool] : data[i][k] = v
      BY <1>1 DEF FileInv, WriteInv
    <2> QED
      BY <1>2, <2>1, <2>2, <2>3, <2>4
  <1>8. WriteInv'
    BY <1>1, <1>2, <1>3, <1>7 DEF WriteInv
  <1> QED
    BY <1>5, <1>6, <1>8 DEF FileInv

LEMMA CloseInv ==
  ASSUME FileInv, Close(Tool), FileType'
  PROVE  FileInv'
  <1> DEFINE f == Target(Tool)
             i == open[Tool]
             v == Contents(Tool)
  <1>1. /\ pc[Tool] = "write" /\ written[Tool] = Chunks /\ f' = f /\ v' = v
        /\ pc'[Tool] = "replace" /\ open'[Tool] = NoInode /\ UNCHANGED files
    BY DEF FileInv, FileType, Close, Target, Contents
  <1>2. i = temporary[f] /\ i \in Inode /\ \A k \in 1..Chunks : data[i][k] = v
    BY <1>1, Constants DEF FileInv, FileType, WriteInv
  <1>3. data[i] = Whole(v)
    <2>1. data[i] \in [1..Chunks -> Version \union {Absent}]
      BY <1>2 DEF FileInv, FileType
    <2> QED
      BY <1>2, <2>1 DEF Whole
  <1>4. NamesApart' /\ NeverPartial'
    BY <1>1 DEF FileInv, NamesApart, NeverPartial, files
  <1>5. WriteInv'
    <2>1. Whole(v)' = Whole(v)
      BY <1>1 DEF Whole
    <2> QED
      BY <1>1, <1>2, <1>3, <2>1, Constants DEF WriteInv, files
  <1> QED
    BY <1>4, <1>5 DEF FileInv

\* Proceed says where the run goes, or that it is over.
LEMMA ProceedGoes ==
  ASSUME FileType, Proceed(Tool)
  PROVE  /\ pc'[Tool] \in {"inspect", "idle"}
         /\ pc'[Tool] = "inspect" => /\ next[Tool] < Len(batch[Tool])
                                     /\ next'[Tool] = next[Tool] + 1
                                     /\ result' = result
         /\ pc'[Tool] = "idle" => /\ ~(next[Tool] < Len(batch[Tool]))
                                  /\ result'[Tool] = "success"
  BY DEF Proceed, FileType

LEMMA ReplaceInv ==
  ASSUME FileInv, ReplaceFile(Tool), FileType'
  PROVE  FileInv'
  <1> DEFINE f == Target(Tool)
             i == temporary[Target(Tool)]
             v == Contents(Tool)
  <1>1. /\ pc[Tool] = "replace" /\ Committing /\ f \in File /\ v \in Version
    BY OrderAtHand DEF FileInv, ReplaceFile, Committing
  <1>2. /\ i # NoInode /\ i \in Inode /\ data[i] = Whole(v)
    BY <1>1 DEF FileInv, FileType, WriteInv
  <1>3. /\ final' = [final EXCEPT ![f] = i]
        /\ temporary' = [temporary EXCEPT ![f] = NoInode]
        /\ data' = data /\ open' = open
    BY DEF ReplaceFile
  <1>4. /\ \A g \in File : final'[g] = IF g = f THEN i ELSE final[g]
        /\ \A g \in File : temporary'[g] = IF g = f THEN NoInode ELSE temporary[g]
    BY <1>1, <1>3 DEF FileInv, FileType
  <1>5. NamesApart'
    BY <1>1, <1>2, <1>4 DEF FileInv, NamesApart
  <1>6. NeverPartial'
    <2>1. ASSUME NEW g \in File, final'[g] # NoInode
          PROVE  \E w \in Version : data[final'[g]] = Whole(w)
      BY <1>1, <1>2, <1>4, <2>1 DEF FileInv, NeverPartial
    <2> QED
      BY <1>3, <2>1 DEF NeverPartial, Whole
  <1>7. WriteInv'
    <2>1. pc'[Tool] \in {"inspect", "idle"} /\ open'[Tool] = NoInode
      BY <1>1, <1>3, ProceedGoes DEF FileInv, WriteInv, ReplaceFile
    <2> QED
      BY <2>1 DEF WriteInv
  <1> QED
    BY <1>5, <1>6, <1>7 DEF FileInv

LEMMA RemoveInv ==
  ASSUME FileInv, RemoveTemporaryFile(Tool), FileType'
  PROVE  FileInv'
  <1>1. /\ temporary' \in {temporary, [temporary EXCEPT ![Target(Tool)] = NoInode]}
        /\ final' = final /\ data' = data /\ pc'[Tool] = "idle" /\ open'[Tool] = NoInode
    BY DEF FileInv, FileType, WriteInv, RemoveTemporaryFile, local
  <1>2. \A g \in File : temporary'[g] \in {temporary[g], NoInode}
    BY <1>1 DEF FileInv, FileType
  <1>3. NamesApart'
    BY <1>1, <1>2 DEF FileInv, NamesApart
  <1>4. NeverPartial' /\ WriteInv'
    BY <1>1 DEF FileInv, NeverPartial, WriteInv
  <1> QED
    BY <1>3, <1>4 DEF FileInv

LEMMA RunStepInv ==
  ASSUME FileInv, RunStep(Tool)
  PROVE  FileInv'
  <1>0. FileType'
    BY RunStepType DEF FileInv
  <1>1. CASE InspectCurrent(Tool)
    BY <1>0, <1>1, ProceedGoes, FilesLeft DEF InspectCurrent, FileInv, WriteInv
  <1>2. CASE \/ InspectOther(Tool) \/ InspectFails(Tool) \/ OpenFails(Tool)
             \/ ReplaceFails(Tool) \/ WriteFails(Tool)
    <2>1. UNCHANGED files /\ pc'[Tool] \in {"open", "cleanup"} /\ open'[Tool] = NoInode
      BY <1>2 DEF InspectOther, InspectFails, OpenFails, ReplaceFails, WriteFails, Fails,
                  local, FileInv, FileType, WriteInv
    <2> QED
      BY <1>0, <2>1, FilesLeft
  <1> QED
    BY <1>0, <1>1, <1>2, OpenTemporaryInv, WriteKeeps, CloseInv, ReplaceInv, RemoveInv
    DEF RunStep

LEMMA KillInv ==
  ASSUME FileInv, Kill(Tool)
  PROVE  FileInv'
  <1>1. /\ UNCHANGED <<files, batch, next, written>>
        /\ pc' = [pc EXCEPT ![Tool] = "idle"]
        /\ open' = [open EXCEPT ![Tool] = NoInode]
        /\ result' = [result EXCEPT ![Tool] = "killed"]
    BY DEF Kill
  <1>2. /\ open' \in [{Tool} -> Inode \union {NoInode}]
        /\ result' \in [{Tool} -> {"none", "success", "failure", "killed"}]
        /\ open'[Tool] = NoInode /\ pc'[Tool] = "idle"
    BY <1>1 DEF FileInv, FileType
  <1>3. FileType'
    BY <1>1, <1>2, FileTypeSame DEF FileInv, FileType, files, Steps
  <1> QED
    BY <1>1, <1>2, <1>3, FilesLeft

(***************************************************************************)
(* The steps of the tool                                                   *)
(***************************************************************************)
\* A step of the commit, or the end of the process, leaves the rest alone.
LEMMA CommitSteps ==
  ASSUME FileType, Commit \/ Killed
  PROVE  /\ UNCHANGED <<directory, toolVars, sourceVars, historyVars, batch>>
         /\ Committing' => Committing /\ result' = result
         /\ pc'[Tool] \in {"idle", "inspect", "open", "write", "replace", "cleanup"}
  <1>1. CASE Commit
    <2>1. Committing /\ UNCHANGED <<directory, toolVars, sourceVars, historyVars, batch>>
      BY <1>1 DEF Commit, RunStep, InspectCurrent, InspectOther, InspectFails, OpenTemporary, Opened,
           OpenFails, Write, WriteFails, Close, ReplaceFile, ReplaceFails, RemoveTemporaryFile,
           Fails, local, Committing
    <2>2. CASE InspectCurrent(Tool) \/ ReplaceFile(Tool)
      BY <2>1, <2>2, ProceedGoes DEF InspectCurrent, ReplaceFile, Committing
    <2>3. CASE \/ InspectOther(Tool) \/ InspectFails(Tool) \/ OpenFails(Tool)
               \/ ReplaceFails(Tool) \/ WriteFails(Tool) \/ Close(Tool) \/ Write(Tool)
               \/ \E i \in Inode : OpenTemporary(Tool, i)
      BY <2>1, <2>3 DEF InspectOther, InspectFails, OpenFails, ReplaceFails, WriteFails, Close,
                        Write, OpenTemporary, Opened, Fails, FileType, Committing
    <2>4. CASE RemoveTemporaryFile(Tool)
      BY <2>1, <2>4 DEF RemoveTemporaryFile, FileType, Committing
    <2> QED
      BY <1>1, <2>2, <2>3, <2>4 DEF Commit, RunStep
  <1>2. CASE Killed
    BY <1>2 DEF Killed, Kill, FileType, Committing
  <1> QED
    BY <1>1, <1>2

\* A file that is not read ends the run, with its path as the diagnostic.
LEMMA ReadFailsIs ==
  ASSUME ToolType, FileType, ReadFails
  PROVE  /\ pc[Tool] = "compile" /\ pc'[Tool] = "idle" /\ result'[Tool] = "failure"
         /\ Len(schemas) \in Nat /\ Len(paths) \in Nat /\ Len(schemas) < Len(paths)
         /\ diagnostic' = paths[Len(schemas) + 1] /\ diagnostic' \in Path /\ readFailed' = TRUE
         /\ UNCHANGED <<files, local, directory, paths, schemas, sources, start, changed>>
  <1>1. /\ Len(schemas) \in Nat /\ Len(paths) \in Nat /\ Len(schemas) < Len(paths)
        /\ diagnostic' = paths[Len(schemas) + 1]
    BY DEF ReadFails, ToolType
  <1>2. diagnostic' \in Path
    BY <1>1 DEF ToolType
  <1>3. pc[Tool] = "compile" /\ pc'[Tool] = "idle" /\ result'[Tool] = "failure"
    BY DEF ReadFails, Stop, At, GoTo, FileType
  <1> QED
    BY <1>1, <1>2, <1>3 DEF ReadFails, sourceVars

\* The other steps of a run: which step they are at, and where they lead.
LEMMA RunGoesOn ==
  ASSUME FileType, NEW from \in Steps, NEW to \in Steps, At(from), GoTo(to)
  PROVE  pc[Tool] = from /\ pc'[Tool] = to
  BY DEF FileType, At, GoTo

LEMMA FileStep ==
  ASSUME Inv, [ToolNext]_allVars
  PROVE  FileInv'
  <1> USE DEF Inv
  <1>0. FileType /\ FileInv
    BY DEF FileInv
  <1>1. CASE UNCHANGED vars
    BY <1>0, <1>1 DEF FileInv, FileType, NamesApart, NeverPartial, WriteInv, Committing, Target, Contents,
                      vars, files, local
  <1>2. ASSUME NEW step \in Steps \ {"inspect", "open", "write", "replace", "cleanup"}, GoTo(step),
               pc[Tool] # "write", UNCHANGED <<files, local>>,
               result' = result \/ result' = [result EXCEPT ![Tool] = "failure"]
        PROVE  FileInv'
    <2>1. /\ result' \in [{Tool} -> {"none", "success", "failure", "killed"}]
          /\ pc'[Tool] = step /\ open' = open /\ open'[Tool] = NoInode
      BY <1>0, <1>2 DEF FileType, FileInv, WriteInv, GoTo, local
    <2>2. FileType'
      BY <1>0, <1>2, <2>1, FileTypeSame DEF FileType, files, local, GoTo
    <2> QED
      BY <1>0, <1>2, <2>1, <2>2, FilesLeft
  <1>3. CASE LoadConfiguration \/ CollectInputPaths \/ EnsureOutputDirectory
    <2>1. PICK step \in {"collect", "directory", "compile"} : GoTo(step)
      BY <1>3 DEF LoadConfiguration, CollectInputPaths, EnsureOutputDirectory
    <2>2. pc[Tool] # "write" /\ UNCHANGED <<files, local, result>>
      BY <1>3 DEF LoadConfiguration, CollectInputPaths, EnsureOutputDirectory, At
    <2> QED
      BY <1>2, <2>1, <2>2 DEF Steps
  <1>4. CASE StepFails \/ ReadFails
    <2>1. Stop /\ UNCHANGED <<files, local>> /\ pc[Tool] # "write"
      BY <1>4 DEF StepFails, ReadFails, At
    <2> QED
      BY <1>2, <2>1 DEF Stop, Steps
  <1>5. CASE CompileSchema
    <2>1. \/ Stop /\ UNCHANGED <<files, local>>
          \/ UNCHANGED vars
      BY <1>5 DEF CompileSchema, vars
    <2>2. pc[Tool] = "compile"
      BY <1>5 DEF CompileSchema, At
    <2> QED
      BY <1>1, <1>2, <2>1, <2>2 DEF Stop, Steps
  <1>6. CASE Launch
    <2>1. /\ pc[Tool] = "idle" /\ pc'[Tool] = "configure"
          /\ pc' \in [{Tool} -> Steps]
          /\ batch' \in [{Tool} -> Seq(Order)]
          /\ next' \in [{Tool} -> Nat \ {0}] /\ written' \in [{Tool} -> 0..Chunks]
          /\ result' \in [{Tool} -> {"none", "success", "failure", "killed"}]
      BY <1>0, <1>6, Constants DEF FileType, Launch, At, GoTo, Steps
    <2>2. UNCHANGED <<files, open>> /\ open'[Tool] = NoInode
      BY <1>6, <2>1 DEF Launch, FileInv, WriteInv
    <2>3. FileType'
      BY <1>0, <2>1, <2>2 DEF FileType, files, Committing
    <2> QED
      BY <1>0, <2>1, <2>2, <2>3, FilesLeft
  <1>7. CASE GenerateFiles
    <2>1. /\ pc[Tool] = "compile" /\ pc'[Tool] = "inspect"
          /\ pc' \in [{Tool} -> Steps]
          /\ next' \in [{Tool} -> Nat \ {0}] /\ next'[Tool] = 1
      BY <1>0, <1>7 DEF FileType, GenerateFiles, At, GoTo, Steps
    <2> DEFINE b == [n \in DOMAIN schemas |-> [file |-> schemas[n].name, version |-> schemas[n].id]]
    <2>2. b \in Seq(Order) /\ Len(b) = Len(schemas)
      <3>1. /\ schemas \in Seq(Schema) /\ DOMAIN schemas = 1..Len(schemas)
            /\ Len(schemas) \in Nat
        BY DEF ToolType
      <3>2. \A n \in 1..Len(schemas) : [file |-> schemas[n].name, version |-> schemas[n].id] \in Order
        <4>1. ASSUME NEW n \in 1..Len(schemas) PROVE schemas[n].name \in File /\ schemas[n].id \in Version
          <5>1. schemas[n] \in Schema
            BY <3>1
          <5> QED
            BY <5>1 DEF Schema
        <4> QED
          BY <4>1 DEF Order
      <3> QED
        BY <3>1, <3>2
    <2>3. Len(schemas) \in Nat /\ Len(schemas) >= 1
      <3>1. Len(paths) = Len(schemas) /\ paths # << >> /\ paths \in Seq(Path)
        BY <1>7, <2>1 DEF GenerateFiles, AllCompiled, ListInv, Listed, ToolType
      <3> QED
        BY <3>1
    <2>4. batch' = [batch EXCEPT ![Tool] = b]
      BY <1>7 DEF GenerateFiles
    <2> HIDE DEF b
    <2>5. /\ batch' \in [{Tool} -> Seq(Order)] /\ batch'[Tool] = b
      BY <1>0, <2>2, <2>4 DEF FileType
    <2>6. next'[Tool] \in 1..Len(batch'[Tool])
      BY <2>1, <2>2, <2>3, <2>5
    <2>7. UNCHANGED <<files, open, written, result>> /\ open'[Tool] = NoInode
      BY <1>7, <2>1 DEF GenerateFiles, FileInv, WriteInv
    <2>8. FileType'
      BY <1>0, <2>1, <2>5, <2>6, <2>7 DEF FileType, files
    <2> QED
      BY <1>0, <2>1, <2>7, <2>8, FilesLeft
  <1>8. CASE Commit \/ Killed
    BY <1>0, <1>8, RunStepInv, KillInv DEF Commit, Killed
  <1>9. CASE \/ \E path \in Path : Visit(path)
             \/ \E path \in Path, source \in Schema \union {Missing, Invalid} : ChangeSource(path, source)
             \/ UNCHANGED allVars
    BY <1>1, <1>9 DEF Visit, ChangeSource, allVars, vars
  <1> QED
    BY <1>3, <1>4, <1>5, <1>6, <1>7, <1>8, <1>9 DEF ToolNext

(***************************************************************************)
(* The list of paths                                                       *)
(***************************************************************************)
\* The sorted list is strictly increasing and has the elements of the one that was collected.
LEMMA SortedList ==
  ASSUME NEW s \in Seq(Path), NEW q \in InOrder(s)
  PROVE  /\ q \in Seq(Path)
         /\ \A m, n \in 1..Len(q) : m < n => q[m] < q[n]
         /\ \A n \in 1..Len(q) : \E m \in 1..Len(s) : q[n] = s[m]
         /\ \A m \in 1..Len(s) : \E n \in 1..Len(q) : q[n] = s[m]
  <1> DEFINE S == ToSet(s)
             D == 1..Cardinality(S)
  <1>1. Len(s) \in Nat /\ DOMAIN s = 1..Len(s) /\ S = {s[i] : i \in 1..Len(s)} /\ S \subseteq Path
    BY DEF ToSet
  <1>2. s \in Surjection(1..Len(s), S)
    <2>1. s \in [1..Len(s) -> S]
      BY <1>1
    <2> HIDE DEF S
    <2> QED
      BY <1>1, <2>1 DEF Surjection
  <1>3. IsFiniteSet(1..Len(s)) /\ IsFiniteSet(D)
    <2>1. IsFiniteSet(1..Len(s))
      BY <1>1, FS_Interval
    <2>2. IsFiniteSet(S)
      BY <1>2, <2>1, FS_Surjection
    <2>3. Cardinality(S) \in Nat
      BY <2>2, FS_CardinalityType
    <2> QED
      BY <2>1, <2>3, FS_Interval
  <1>4. IsFiniteSet(S)
    BY <1>2, <1>3, FS_Surjection
  <1>5. Cardinality(S) \in Nat /\ Cardinality(D) = Cardinality(S)
    <2>1. Cardinality(S) \in Nat
      BY <1>4, FS_CardinalityType
    <2>2. \A n \in Nat : Cardinality(1..n) = n
      BY FS_Interval
    <2> HIDE DEF S
    <2> QED
      BY <2>1, <2>2
  <1>6. /\ q \in [D -> S] /\ \A i, j \in D : i # j => q[i] # q[j]
        /\ \A m, n \in DOMAIN q : m < n => q[m] < q[n]
    BY DEF InOrder, SetToSeqs
  <1> HIDE DEF S
  <1>7. q \in Seq(Path) /\ Len(q) = Cardinality(S) /\ D = 1..Len(q) /\ DOMAIN q = D
    BY <1>1, <1>5, <1>6
  <1>8. q \in Surjection(D, S)
    <2>1. q \in Injection(D, S)
      BY <1>6 DEF Injection, IsInjective
    <2> HIDE DEF D
    <2> QED
      BY <1>4, <1>5, <2>1, FS_Injection
  <1>9. \A n \in 1..Len(q) : \E m \in 1..Len(s) : q[n] = s[m]
    BY <1>1, <1>6, <1>7
  <1>10. \A m \in 1..Len(s) : \E n \in 1..Len(q) : q[n] = s[m]
    BY <1>1, <1>7, <1>8 DEF Surjection
  <1> QED
    BY <1>6, <1>7, <1>9, <1>10

\* What Visit adds was not there.
LEMMA VisitAdds ==
  ASSUME ToolType, NEW path \in Path, Visit(path)
  PROVE  /\ paths' \in Seq(Path) /\ Len(paths') = Len(paths) + 1 /\ Len(paths) \in Nat
         /\ paths'[Len(paths) + 1] = path
         /\ \A n \in 1..Len(paths) : paths'[n] = paths[n] /\ paths[n] # path
         /\ sources[path] # Missing
  <1>1. paths' = Append(paths, path) /\ paths \in Seq(Path) /\ path \notin ToSet(paths)
        /\ sources[path] # Missing
    BY DEF Visit, ToolType
  <1>2. \A n \in 1..Len(paths) : paths[n] # path
    BY <1>1 DEF ToSet
  <1> QED
    BY <1>1, <1>2

LEMMA ToolTypeStep ==
  ASSUME Inv, [ToolNext]_allVars
  PROVE  ToolType'
  <1> USE DEF Inv
  <1>0. ToolType /\ FileType
    BY DEF FileInv
  <1>1. CASE Launch
    <2>1. /\ paths' = << >> /\ schemas' = << >> /\ diagnostic' = 0
          /\ start' = sources /\ changed' = FALSE /\ UNCHANGED <<directory, sources>>
      BY <1>1 DEF Launch, sourceVars
    <2>2. << >> \in Seq(Path) /\ << >> \in Seq(Schema)
      OBVIOUS
    <2> QED
      BY <1>0, <2>1, <2>2 DEF ToolType
  <1>2. CASE \/ LoadConfiguration \/ EnsureOutputDirectory \/ StepFails \/ GenerateFiles
             \/ UNCHANGED allVars
    BY <1>0, <1>2 DEF LoadConfiguration, EnsureOutputDirectory, StepFails, GenerateFiles, allVars, toolVars,
                      sourceVars, historyVars, ToolType
  <1>3. ASSUME NEW path \in Path, Visit(path) PROVE ToolType'
    <2>1. paths' \in Seq(Path)
      BY <1>0, <1>3, VisitAdds
    <2> QED
      BY <1>0, <1>3, <2>1 DEF Visit, ToolType, sourceVars, historyVars
  <1>4. CASE CollectInputPaths
    <2>1. paths' \in Seq(Path)
      BY <1>0, <1>4, SortedList DEF CollectInputPaths, ToolType
    <2> QED
      BY <1>0, <1>4, <2>1 DEF CollectInputPaths, ToolType, sourceVars, historyVars
  <1>5. CASE CompileSchema
    <2> DEFINE path   == paths[Len(schemas) + 1]
               source == sources[path]
    <2>1. /\ Len(schemas) \in Nat /\ Len(paths) \in Nat /\ Len(schemas) < Len(paths)
          /\ schemas \in Seq(Schema)
      BY <1>0, <1>5 DEF CompileSchema, ToolType
    <2>2. path \in Path
      BY <1>0, <2>1 DEF ToolType
    <2>3. UNCHANGED <<directory, paths, sourceVars, historyVars>>
      BY <1>5 DEF CompileSchema
    <2>4. CASE Refused(source, ToSet(schemas))
      BY <1>0, <1>5, <2>2, <2>3, <2>4 DEF CompileSchema, ToolType, sourceVars, historyVars
    <2>5. CASE ~Refused(source, ToSet(schemas))
      <3>1. source \in Schema
        BY <1>0, <2>2, <2>5 DEF ToolType, Source, Refused
      <3>2. schemas' = Append(schemas, source) /\ diagnostic' = diagnostic
        BY <1>5, <2>5 DEF CompileSchema
      <3>3. schemas' \in Seq(Schema)
        BY <2>1, <3>1, <3>2
      <3> QED
        BY <1>0, <2>3, <3>2, <3>3 DEF ToolType, sourceVars, historyVars
    <2> QED
      BY <2>4, <2>5
  <1>6. CASE Commit \/ Killed
    BY <1>0, <1>6, CommitSteps DEF toolVars, sourceVars, historyVars, ToolType
  <1>7. ASSUME NEW path \in Path, NEW source \in Source, ChangeSource(path, source) PROVE ToolType'
    BY <1>0, <1>7 DEF ChangeSource, toolVars, ToolType
  <1>8. CASE ReadFails
    BY <1>0, <1>8, ReadFailsIs DEF ToolType
  <1> QED
    BY <1>1, <1>2, <1>3, <1>4, <1>5, <1>6, <1>7, <1>8 DEF ToolNext, Source

LEMMA SameList ==
  ASSUME ListInv, UNCHANGED <<paths, start>>, Listed' => Listed, ~changed' => ~changed
  PROVE  ListInv'
  BY DEF ListInv, Existing

LEMMA ListStep ==
  ASSUME Inv, [ToolNext]_allVars
  PROVE  ListInv'
  <1> USE DEF Inv
  <1>0. ToolType /\ FileType /\ ListInv
    BY DEF FileInv
  <1>1. CASE Launch
    <2>1. paths' = << >> /\ ~Listed'
      BY <1>0, <1>1 DEF Launch, GoTo, FileType, Listed, Committing
    <2> QED
      BY <2>1 DEF ListInv
  <1>2. CASE LoadConfiguration \/ EnsureOutputDirectory \/ StepFails \/ GenerateFiles \/ CompileSchema
    <2>1. UNCHANGED <<paths, start, changed>>
      BY <1>2 DEF LoadConfiguration, EnsureOutputDirectory, StepFails, GenerateFiles, CompileSchema,
                  toolVars, historyVars
    <2>2. Listed' => Listed
      BY <1>0, <1>2 DEF LoadConfiguration, EnsureOutputDirectory, StepFails, GenerateFiles, CompileSchema,
                        Stop, At, GoTo, FileType, Listed, Committing
    <2> QED
      BY <1>0, <2>1, <2>2, SameList
  <1>3. ASSUME NEW path \in Path, Visit(path) PROVE ListInv'
    <2>1. ~Listed' /\ UNCHANGED <<start, changed>>
      BY <1>0, <1>3 DEF Visit, At, FileType, Listed, Committing, historyVars
    <2>2. \A m, n \in 1..Len(paths') : paths'[m] = paths'[n] => m = n
      BY <1>0, <1>3, VisitAdds DEF ListInv
    <2>3. ~changed => path \in Existing
      BY <1>0, <1>3, VisitAdds DEF Existing, ToolType
    <2>4. ~changed => \A n \in 1..Len(paths') : paths'[n] \in Existing
      BY <1>0, <1>3, <2>3, VisitAdds DEF ListInv
    <2> QED
      BY <2>1, <2>2, <2>4 DEF ListInv, Existing
  <1>4. CASE CollectInputPaths
    <2>1. /\ paths \in Seq(Path) /\ paths' \in InOrder(paths) /\ paths # << >>
          /\ \A path \in Path : start[path] # Missing /\ sources[path] # Missing => path \in ToSet(paths)
          /\ UNCHANGED <<start, changed>>
      BY <1>0, <1>4 DEF CollectInputPaths, ToolType, historyVars
    <2>2. /\ paths' \in Seq(Path)
          /\ \A m, n \in 1..Len(paths') : m < n => paths'[m] < paths'[n]
          /\ \A n \in 1..Len(paths') : \E m \in 1..Len(paths) : paths'[n] = paths[m]
          /\ \A m \in 1..Len(paths) : \E n \in 1..Len(paths') : paths'[n] = paths[m]
      BY <2>1, SortedList
    <2>3. \A m, n \in 1..Len(paths') : paths'[m] = paths'[n] => m = n
      <3>1. ASSUME NEW n \in 1..Len(paths') PROVE paths'[n] \in Nat
        <4>1. paths'[n] \in Path
          BY <2>2
        <4> QED
          BY <4>1, Constants
      <3>2. ASSUME NEW m \in 1..Len(paths'), NEW n \in 1..Len(paths'), m < n PROVE paths'[m] # paths'[n]
        <4>1. paths'[m] < paths'[n]
          BY <2>2, <3>2
        <4> QED
          BY <3>1, <4>1
      <3>3. \A m, n \in 1..Len(paths') : m < n \/ n < m \/ m = n
        BY <2>2
      <3> QED
        BY <3>2, <3>3
    <2>4. paths' # << >>
      <3>1. 1 \in 1..Len(paths)
        BY <2>1
      <3> QED
        BY <2>2, <3>1
    <2>5. ~changed => \A n \in 1..Len(paths') : paths'[n] \in Existing
      BY <1>0, <2>2 DEF ListInv
    <2>6. ~changed => \A path \in Existing : \E n \in 1..Len(paths') : paths'[n] = path
      <3>1. ASSUME NEW path \in ToSet(paths) PROVE \E n \in 1..Len(paths') : paths'[n] = path
        <4>1. PICK m \in 1..Len(paths) : path = paths[m]
          BY <2>1 DEF ToSet
        <4> QED
          BY <2>2, <4>1
      <3> QED
        BY <1>0, <2>1, <3>1 DEF ToolType, Existing
    <2> QED
      BY <2>1, <2>2, <2>3, <2>4, <2>5, <2>6 DEF ListInv, Existing
  <1>5. CASE Commit \/ Killed
    <2>1. UNCHANGED <<paths, start, changed>> /\ (Listed' => Listed)
      BY <1>0, <1>5, CommitSteps DEF toolVars, historyVars, Listed, Committing
    <2> QED
      BY <1>0, <2>1, SameList
  <1>6. CASE \E path \in Path, source \in Schema \union {Missing, Invalid} : ChangeSource(path, source)
    <2>1. UNCHANGED <<paths, start, pc>> /\ changed'
      BY <1>6 DEF ChangeSource, vars, toolVars
    <2> QED
      BY <1>0, <2>1, SameList DEF Listed, Committing
  <1>7. CASE UNCHANGED allVars
    BY <1>0, <1>7, SameList DEF allVars, vars, toolVars, historyVars, Listed, Committing
  <1>8. CASE ReadFails
    <2>1. UNCHANGED <<paths, start, changed>> /\ ~Listed'
      BY <1>0, <1>8, ReadFailsIs DEF Listed, Committing
    <2> QED
      BY <1>0, <2>1, SameList
  <1> QED
    BY <1>1, <1>2, <1>3, <1>4, <1>5, <1>6, <1>7, <1>8 DEF ToolNext

(***************************************************************************)
(* The schemas that were compiled                                          *)
(***************************************************************************)
LEMMA SameSchemas ==
  ASSUME SchemaInv, UNCHANGED <<paths, schemas, start, directory, batch>>,
         ~changed' => ~changed, Committing' => Committing,
         pc'[Tool] \in {"configure", "collect", "directory", "compile"} => pc'[Tool] = pc[Tool]
  PROVE  SchemaInv'
  BY DEF SchemaInv

\* A schema that is not refused, and what it is compared with.
LEMMA NotRefused ==
  ASSUME ToolType, NEW source \in Source, ~Refused(source, ToSet(schemas))
  PROVE  /\ source \in Schema
         /\ \A n \in 1..Len(schemas) : schemas[n].name # source.name /\ schemas[n].id # source.id
  <1>1. source \in Schema
    BY DEF Source, Refused
  <1>2. \A n \in 1..Len(schemas) : schemas[n] \in ToSet(schemas)
    BY DEF ToolType, ToSet
  <1> QED
    BY <1>1, <1>2 DEF Refused

LEMMA SchemaStep ==
  ASSUME Inv, [ToolNext]_allVars
  PROVE  SchemaInv'
  <1> USE DEF Inv
  <1>0. ToolType /\ FileType /\ ListInv /\ SchemaInv
    BY DEF FileInv
  <1>1. CASE Launch
    <2>1. paths' = << >> /\ schemas' = << >> /\ pc'[Tool] = "configure"
      BY <1>0, <1>1 DEF Launch, GoTo, FileType
    <2> QED
      BY <2>1 DEF SchemaInv, Committing
  <1>2. CASE LoadConfiguration \/ EnsureOutputDirectory
    <2>1. /\ UNCHANGED <<paths, schemas, start, changed>> /\ schemas = << >>
          /\ pc'[Tool] \in {"collect", "compile"} /\ (pc'[Tool] = "compile" => directory')
      BY <1>0, <1>2 DEF LoadConfiguration, EnsureOutputDirectory, At, GoTo, FileType, SchemaInv, toolVars, historyVars
    <2> QED
      BY <1>0, <2>1 DEF SchemaInv, Committing
  <1>3. CASE CollectInputPaths \/ \E path \in Path : Visit(path)
    <2>1. /\ UNCHANGED schemas /\ schemas = << >>
          /\ pc'[Tool] \in {"collect", "directory"}
      BY <1>0, <1>3 DEF CollectInputPaths, Visit, At, GoTo, FileType, SchemaInv
    <2>2. paths' \in Seq(Path)
      BY <1>3, ToolTypeStep DEF ToolType, ToolNext
    <2> QED
      BY <2>1, <2>2 DEF SchemaInv, Committing
  <1>4. CASE StepFails
    <2>1. UNCHANGED <<paths, schemas, start, directory, batch, changed>> /\ pc'[Tool] = "idle"
      BY <1>0, <1>4 DEF StepFails, Stop, GoTo, FileType, local, toolVars, historyVars
    <2> QED
      BY <1>0, <2>1, SameSchemas DEF Committing
  <1>5. CASE CompileSchema
    <2> DEFINE path   == paths[Len(schemas) + 1]
               source == sources[path]
    <2>1. /\ Len(schemas) \in Nat /\ Len(paths) \in Nat /\ Len(schemas) < Len(paths)
          /\ schemas \in Seq(Schema)
          /\ UNCHANGED <<directory, paths, start, changed, batch>> /\ pc[Tool] = "compile"
      BY <1>0, <1>5 DEF CompileSchema, At, ToolType, historyVars, local
    <2>2. path \in Path /\ source \in Source
      BY <1>0, <2>1 DEF ToolType
    <2>3. CASE Refused(source, ToSet(schemas))
      <3>1. UNCHANGED schemas /\ pc'[Tool] = "idle"
        BY <1>0, <1>5, <2>3 DEF CompileSchema, Stop, GoTo, FileType
      <3> QED
        BY <1>0, <2>1, <3>1, SameSchemas DEF Committing
    <2>4. CASE ~Refused(source, ToSet(schemas))
      <3>1. schemas' = Append(schemas, source) /\ pc' = pc
        BY <1>5, <2>4 DEF CompileSchema
      <3>2. source \in Schema
            /\ \A n \in 1..Len(schemas) : schemas[n].name # source.name /\ schemas[n].id # source.id
        BY <1>0, <2>2, <2>4, NotRefused
      <3>3. /\ Len(schemas') = Len(schemas) + 1
            /\ schemas'[Len(schemas) + 1] = source
            /\ \A n \in 1..Len(schemas) : schemas'[n] = schemas[n]
        BY <2>1, <3>1, <3>2
      <3>4. ~changed => source = start[path]
        BY <1>0 DEF ToolType
      <3>5. \A m, n \in 1..Len(schemas') :
               m # n => schemas'[m].name # schemas'[n].name /\ schemas'[m].id # schemas'[n].id
        <4>1. \A n \in 1..Len(schemas') : n \in 1..Len(schemas) \/ n = Len(schemas) + 1
          BY <2>1, <3>3
        <4>2. ASSUME NEW m \in 1..Len(schemas), NEW n \in 1..Len(schemas), m # n
              PROVE  schemas'[m].name # schemas'[n].name /\ schemas'[m].id # schemas'[n].id
          BY <1>0, <3>3, <4>2 DEF SchemaInv
        <4>3. ASSUME NEW m \in 1..Len(schemas)
              PROVE  /\ schemas'[m].name # schemas'[Len(schemas) + 1].name
                     /\ schemas'[m].id # schemas'[Len(schemas) + 1].id
          BY <3>2, <3>3
        <4> QED
          BY <4>1, <4>2, <4>3
      <3>6. ~changed => \A n \in 1..Len(schemas') : schemas'[n] = start[paths[n]]
        BY <1>0, <2>1, <3>3, <3>4 DEF SchemaInv
      <3> QED
        BY <1>0, <2>1, <3>1, <3>3, <3>5, <3>6 DEF SchemaInv, Committing
    <2> QED
      BY <2>3, <2>4
  <1>6. CASE GenerateFiles
    <2>1. /\ UNCHANGED <<paths, schemas, start, changed, directory>>
          /\ pc[Tool] = "compile" /\ pc'[Tool] = "inspect" /\ Len(schemas) = Len(paths)
      BY <1>0, <1>6 DEF GenerateFiles, AllCompiled, At, GoTo, FileType, toolVars, historyVars
    <2>2. batch'[Tool] = [n \in DOMAIN schemas |-> [file |-> schemas[n].name, version |-> schemas[n].id]]
      BY <1>0, <1>6 DEF GenerateFiles, FileType
    <2> QED
      BY <1>0, <2>1, <2>2 DEF SchemaInv, Committing
  <1>7. CASE Commit \/ Killed
    <2>1. /\ UNCHANGED <<paths, schemas, start, changed, directory, batch>> /\ (Committing' => Committing)
          /\ pc'[Tool] \in {"idle", "inspect", "open", "write", "replace", "cleanup"}
      BY <1>0, <1>7, CommitSteps DEF toolVars, historyVars
    <2> QED
      BY <1>0, <2>1, SameSchemas
  <1>8. CASE \/ \E path \in Path, source \in Schema \union {Missing, Invalid} : ChangeSource(path, source)
             \/ UNCHANGED allVars
    <2>1. UNCHANGED <<paths, schemas, start, pc, directory, batch>> /\ (~changed' => ~changed)
      BY <1>8 DEF ChangeSource, allVars, vars, local, toolVars, historyVars
    <2> QED
      BY <1>0, <2>1, SameSchemas DEF Committing
  <1>9. CASE ReadFails
    BY <1>0, <1>9, ReadFailsIs, SameSchemas DEF local, Committing
  <1> QED
    BY <1>1, <1>2, <1>3, <1>4, <1>5, <1>6, <1>7, <1>8, <1>9 DEF ToolNext

(***************************************************************************)
(* The diagnostic                                                          *)
(***************************************************************************)
\* The list and the schemas compiled from it, when nobody has changed the sources.
LEMMA Compiled ==
  ASSUME ToolType, ListInv, SchemaInv, Listed, ~changed
  PROVE  /\ Len(schemas) \in Nat /\ Len(paths) \in Nat /\ Len(schemas) <= Len(paths)
         /\ sources = start
         /\ \A n \in 1..Len(paths) : paths[n] \in Nat /\ paths[n] \in Existing
         /\ \A m, n \in 1..Len(paths) : m < n => paths[m] < paths[n]
         /\ \A p \in Existing : \E n \in 1..Len(paths) : paths[n] = p
         /\ \A n \in 1..Len(schemas) : /\ n \in 1..Len(paths) /\ schemas[n] \in Schema
                                       /\ schemas[n] = start[paths[n]]
                                       /\ schemas[n] \in ToSet(schemas)
  <1>1. /\ Len(schemas) \in Nat /\ Len(paths) \in Nat /\ schemas \in Seq(Schema)
        /\ paths \in Seq(Path) /\ sources = start
    BY DEF ToolType
  <1>2. \A n \in 1..Len(paths) : paths[n] \in Nat
    <2>1. \A n \in 1..Len(paths) : paths[n] \in Path
      BY <1>1
    <2> QED
      BY <2>1, Constants
  <1>3. Len(schemas) <= Len(paths) /\ \A n \in 1..Len(schemas) : schemas[n] = start[paths[n]]
    BY DEF SchemaInv
  <1>4. \A n \in 1..Len(schemas) : schemas[n] \in Schema /\ schemas[n] \in ToSet(schemas)
    BY <1>1 DEF ToSet
  <1>5. \A n \in 1..Len(schemas) : n \in 1..Len(paths)
    BY <1>1, <1>3
  <1>6. /\ \A n \in 1..Len(paths) : paths[n] \in Existing
        /\ \A m, n \in 1..Len(paths) : m < n => paths[m] < paths[n]
        /\ \A p \in Existing : \E n \in 1..Len(paths) : paths[n] = p
    BY DEF ListInv
  <1> QED
    BY <1>1, <1>2, <1>3, <1>4, <1>5, <1>6

\* What has been compiled was legal and did not clash.
LEMMA CompiledNotBad ==
  ASSUME ToolType, ListInv, SchemaInv, Listed, ~changed, NEW n \in 1..Len(schemas)
  PROVE  paths[n] \notin Bad
  <1> DEFINE p == paths[n]
  <1>1. SUFFICES ASSUME p \in Bad PROVE FALSE
    OBVIOUS
  <1>2. start[p] = schemas[n] /\ start[p] \notin {Missing, Invalid} /\ n \in 1..Len(paths)
    BY Compiled, Constants
  <1>3. PICK r \in Existing : /\ r < p /\ start[r] # Invalid
                              /\ start[r].name = start[p].name \/ start[r].id = start[p].id
    BY <1>1, <1>2 DEF Bad, Refused
  <1>4. PICK m \in 1..Len(paths) : paths[m] = r
    BY Compiled
  <1>5. m < n
    <2>1. m \in Nat /\ n \in Nat /\ paths[m] \in Nat /\ paths[n] \in Nat
      BY <1>2, <1>4, Compiled
    <2>2. ~(n < m)
      BY <1>2, <1>3, <1>4, <2>1, Compiled
    <2>3. m # n
      BY <1>3, <1>4, <2>1
    <2> QED
      BY <2>1, <2>2, <2>3
  <1>6. m \in 1..Len(schemas)
    BY <1>2, <1>4, <1>5, Compiled
  <1>7. start[r] = schemas[m]
    BY <1>4, <1>6, Compiled
  <1> QED
    BY <1>2, <1>3, <1>5, <1>6, <1>7 DEF SchemaInv

\* The file at hand is there, and no later than the first problem.
LEMMA NextIsNoLater ==
  ASSUME ToolType, ListInv, SchemaInv, Listed, ~changed, Len(schemas) < Len(paths),
         NEW path, path = paths[Len(schemas) + 1]
  PROVE  path \in Existing /\ \A p \in Bad : path <= p
  <1> DEFINE L == Len(schemas)
  <1>1. L \in Nat /\ L + 1 \in 1..Len(paths)
    BY Compiled
  <1>2. path \in Existing
    BY <1>1, Compiled
  <1>3. ASSUME NEW p \in Bad PROVE path <= p
    <2>1. PICK n \in 1..Len(paths) : paths[n] = p
      BY Compiled DEF Bad
    <2>2. n \notin 1..L
      BY <2>1, CompiledNotBad
    <2>3. n = L + 1 \/ L + 1 < n
      BY <1>1, <2>1, <2>2
    <2>4. paths[n] \in Nat /\ paths[L + 1] \in Nat /\ (L + 1 < n => paths[L + 1] < paths[n])
      BY <1>1, <2>1, Compiled
    <2> QED
      BY <2>1, <2>3, <2>4
  <1> QED
    BY <1>2, <1>3

\* So the first schema that is refused is the first problem.
LEMMA FirstRefused ==
  ASSUME ToolType, ListInv, SchemaInv, Listed, ~changed, Len(schemas) < Len(paths),
         NEW path, path = paths[Len(schemas) + 1], Refused(sources[path], ToSet(schemas))
  PROVE  path \in Bad
  <1> DEFINE L == Len(schemas)
             Before == {start[q] : q \in {r \in Existing : r < path}} \ {Invalid}
  <1>1. L \in Nat /\ L + 1 \in 1..Len(paths) /\ \A n \in 1..L : n < L + 1
    BY Compiled
  <1>2. path \in Existing /\ sources[path] = start[path]
    BY <1>1, Compiled
  <1>3. \A n \in 1..L : schemas[n] \in Before
    <2>1. ASSUME NEW n \in 1..L PROVE schemas[n] \in Before
      <3>1. paths[n] \in Existing /\ paths[n] < path
        BY <1>1, Compiled
      <3>2. schemas[n] = start[paths[n]] /\ schemas[n] # Invalid
        BY Compiled, Constants
      <3> QED
        BY <3>1, <3>2
    <2> QED
      BY <2>1
  <1>4. Refused(start[path], Before)
    <2> HIDE DEF Before
    <2>1. CASE start[path] \in {Missing, Invalid}
      BY <2>1 DEF Refused
    <2>2. CASE \E other \in ToSet(schemas) : other.name = start[path].name \/ other.id = start[path].id
      <3>1. \A other \in ToSet(schemas) : \E n \in 1..L : other = schemas[n]
        BY DEF ToSet, ToolType
      <3> QED
        BY <1>3, <2>2, <3>1 DEF Refused
    <2> QED
      BY <1>2, <2>1, <2>2 DEF Refused
  <1> QED
    BY <1>2, <1>4 DEF Bad

LEMMA ReportStep ==
  ASSUME Inv, [ToolNext]_allVars
  PROVE  ReportInv'
  <1> USE DEF Inv
  <1>0. ToolType /\ FileType /\ ListInv /\ SchemaInv /\ ReportInv
    BY DEF FileInv
  <1>1. ASSUME pc[Tool] # "idle", UNCHANGED diagnostic, pc'[Tool] # "idle" => result' = result
        PROVE  ReportInv'
    BY <1>0, <1>1 DEF ReportInv, FirstProblemReported
  <1>2. CASE Launch
    <2>1. diagnostic' = 0 /\ result'[Tool] = "none"
      BY <1>0, <1>2 DEF Launch, FileType
    <2> QED
      BY <2>1 DEF ReportInv, FirstProblemReported
  <1>3. CASE \/ LoadConfiguration \/ EnsureOutputDirectory \/ CollectInputPaths \/ StepFails \/ GenerateFiles
             \/ \E path \in Path : Visit(path)
    <2>1. pc[Tool] # "idle" /\ UNCHANGED diagnostic
      BY <1>3 DEF LoadConfiguration, EnsureOutputDirectory, CollectInputPaths, StepFails, GenerateFiles, Visit,
                  At, toolVars
    <2>2. pc'[Tool] # "idle" => result' = result
      BY <1>0, <1>3 DEF LoadConfiguration, EnsureOutputDirectory, CollectInputPaths, StepFails, GenerateFiles,
                        Visit, Stop, GoTo, FileType
    <2> QED
      BY <1>1, <2>1, <2>2
  <1>4. CASE CompileSchema
    <2>1. PICK path : path = paths[Len(schemas) + 1]
      OBVIOUS
    <2>2. pc[Tool] = "compile" /\ Len(schemas) < Len(paths) /\ UNCHANGED <<start, changed>>
      BY <1>4 DEF CompileSchema, At, historyVars
    <2>3. CASE Refused(sources[path], ToSet(schemas))
      <3>1. Stop /\ diagnostic' = path
        BY <1>4, <2>1, <2>3 DEF CompileSchema
      <3>2. pc'[Tool] = "idle" /\ result'[Tool] = "failure"
        BY <1>0, <3>1 DEF Stop, GoTo, FileType
      <3>3. ~changed => path \in Bad /\ path \in Existing /\ \A p \in Bad : path <= p
        BY <1>0, <2>1, <2>2, <2>3, FirstRefused, NextIsNoLater DEF Listed
      <3>4. Bad' = Bad /\ Existing' = Existing
        BY <2>2 DEF Bad, Existing, Refused
      <3> QED
        BY <2>2, <3>1, <3>2, <3>3, <3>4 DEF ReportInv, FirstProblemReported
    <2>4. CASE ~Refused(sources[path], ToSet(schemas))
      <3>1. UNCHANGED <<pc, result, diagnostic>>
        BY <1>4, <2>1, <2>4 DEF CompileSchema
      <3> QED
        BY <1>1, <2>2, <3>1
    <2> QED
      BY <2>3, <2>4
  <1>5. CASE Commit \/ Killed
    <2>1. UNCHANGED diagnostic /\ (Committing' => Committing /\ result' = result)
          /\ pc'[Tool] \in {"idle", "inspect", "open", "write", "replace", "cleanup"}
      BY <1>0, <1>5, CommitSteps DEF toolVars
    <2>2. pc[Tool] # "idle"
      BY <1>5 DEF Commit, Killed, Kill, RunStep, InspectCurrent, InspectOther, InspectFails, OpenTemporary,
           OpenFails, Write, WriteFails, Close, ReplaceFile, ReplaceFails, RemoveTemporaryFile
    <2> QED
      BY <1>1, <2>1, <2>2 DEF Committing
  <1>6. CASE \E path \in Path, source \in Schema \union {Missing, Invalid} : ChangeSource(path, source)
    <2>1. changed' /\ UNCHANGED <<pc, result, diagnostic>>
      BY <1>6 DEF ChangeSource, vars, toolVars
    <2> QED
      BY <1>0, <2>1 DEF ReportInv, FirstProblemReported
  <1>7. CASE UNCHANGED allVars
    <2>1. /\ UNCHANGED <<pc, result, diagnostic, changed, start, readFailed>>
          /\ Bad' = Bad /\ Existing' = Existing
      BY <1>7 DEF allVars, vars, toolVars, historyVars, Bad, Existing, Refused
    <2> QED
      BY <1>0, <2>1 DEF ReportInv, FirstProblemReported
  <1>8. CASE ReadFails
    <2>1. /\ pc'[Tool] = "idle" /\ result'[Tool] = "failure" /\ readFailed' = TRUE
          /\ UNCHANGED <<start, changed>>
      BY <1>0, <1>8, ReadFailsIs
    <2>2. ~changed => diagnostic' \in Existing /\ \A p \in Bad : diagnostic' <= p
      BY <1>0, <1>8, ReadFailsIs, NextIsNoLater DEF Listed
    <2>3. Bad' = Bad /\ Existing' = Existing
      BY <2>1 DEF Bad, Existing, Refused
    <2> QED
      BY <2>1, <2>2, <2>3 DEF ReportInv, FirstProblemReported
  <1> QED
    BY <1>2, <1>3, <1>4, <1>5, <1>6, <1>7, <1>8 DEF ToolNext

(***************************************************************************)
(* What has been done                                                      *)
(***************************************************************************)
\* No step of the commit spoils another file than the one it is at.
LEMMA CurrentStays ==
  ASSUME FileInv, RunStep(Tool), NEW f \in File, f # Target(Tool), NEW v \in Version, IsCurrent(f, v)
  PROVE  IsCurrent(f, v)'
  <1> DEFINE i == final[f]
  <1>1. /\ i \in Inode /\ i # NoInode /\ data[i] = Whole(v) /\ Whole(v)' = Whole(v)
    BY DEF IsCurrent, FileInv, FileType, Whole
  <1>2. CASE ReplaceFile(Tool)
    BY <1>1, <1>2 DEF ReplaceFile, FileInv, FileType, IsCurrent
  <1>3. ASSUME NEW j \in Inode, OpenTemporary(Tool, j) PROVE IsCurrent(f, v)'
    <2>1. /\ IF temporary[Target(Tool)] = NoInode THEN ~InUse(j) ELSE j = temporary[Target(Tool)]
          /\ data' = [data EXCEPT ![j] = Nothing] /\ final' = final
      BY <1>3 DEF OpenTemporary, Opened
    <2>2. Target(Tool) \in File
      BY <1>3, OrderAtHand DEF OpenTemporary, Committing, FileInv
    <2>3. j # i
      BY <1>1, <2>1, <2>2 DEF InUse, FileInv, NamesApart
    <2> QED
      BY <1>1, <2>1, <2>3 DEF IsCurrent, FileInv, FileType
  <1>4. CASE Write(Tool)
    <2>1. /\ data' = [data EXCEPT ![open[Tool]][written[Tool] + 1] = Contents(Tool)]
          /\ final' = final /\ pc[Tool] = "write"
      BY <1>4 DEF Write
    <2>2. Target(Tool) \in File
      BY <2>1, OrderAtHand DEF Committing, FileInv
    <2>3. open[Tool] # i
      BY <1>1, <2>1, <2>2 DEF FileInv, NamesApart, WriteInv
    <2> QED
      BY <1>1, <2>1, <2>3 DEF IsCurrent, FileInv, FileType
  <1>5. CASE \/ InspectCurrent(Tool) \/ InspectOther(Tool) \/ InspectFails(Tool) \/ OpenFails(Tool)
             \/ ReplaceFails(Tool) \/ WriteFails(Tool) \/ Close(Tool) \/ RemoveTemporaryFile(Tool)
    <2>1. UNCHANGED <<final, data>>
      BY <1>5 DEF InspectCurrent, InspectOther, InspectFails, OpenFails, ReplaceFails, WriteFails, Close,
                  RemoveTemporaryFile, Fails, files
    <2> QED
      BY <1>1, <2>1 DEF IsCurrent
  <1> QED
    BY <1>2, <1>3, <1>4, <1>5 DEF RunStep

\* The file that was found current, or has been replaced.
LEMMA CurrentNow ==
  ASSUME FileInv, InspectCurrent(Tool) \/ ReplaceFile(Tool),
         NEW f, NEW v, f = Target(Tool), v = Contents(Tool)
  PROVE  IsCurrent(f, v)'
  <1>1. f \in File /\ v \in Version /\ Whole(v)' = Whole(v)
    BY OrderAtHand DEF FileInv, InspectCurrent, ReplaceFile, Committing, Whole
  <1>2. CASE InspectCurrent(Tool)
    BY <1>1, <1>2 DEF InspectCurrent, IsCurrent, files
  <1>3. CASE ReplaceFile(Tool)
    <2>1. /\ final' = [final EXCEPT ![f] = temporary[f]] /\ data' = data /\ pc[Tool] = "replace"
      BY <1>3 DEF ReplaceFile
    <2>2. final'[f] = temporary[f] /\ temporary[f] # NoInode /\ data[temporary[f]] = Whole(v)
      BY <1>1, <2>1 DEF FileInv, FileType, WriteInv
    <2> QED
      BY <1>1, <2>1, <2>2 DEF IsCurrent
  <1> QED
    BY <1>2, <1>3

\* The batch is that of the schemas: no file is in it twice.
LEMMA BatchOfSchemas ==
  ASSUME FileType, ToolType, SchemaInv, Committing
  PROVE  /\ Len(batch[Tool]) = Len(schemas) /\ Len(schemas) \in Nat /\ Len(schemas) = Len(paths)
         /\ \A n \in 1..Len(schemas) : /\ batch[Tool][n].file = schemas[n].name /\ schemas[n].name \in File
                                       /\ batch[Tool][n].version = schemas[n].id /\ schemas[n].id \in Version
         /\ \A m, n \in 1..Len(schemas) : batch[Tool][m].file = batch[Tool][n].file => m = n
  <1>1. /\ schemas \in Seq(Schema) /\ DOMAIN schemas = 1..Len(schemas) /\ Len(schemas) \in Nat
        /\ Len(schemas) = Len(paths)
        /\ batch[Tool] = [n \in 1..Len(schemas) |-> [file |-> schemas[n].name, version |-> schemas[n].id]]
    <2>1. schemas \in Seq(Schema) /\ DOMAIN schemas = 1..Len(schemas) /\ Len(schemas) \in Nat
      BY DEF ToolType
    <2>2. /\ Len(schemas) = Len(paths)
          /\ batch[Tool] = [n \in DOMAIN schemas |-> [file |-> schemas[n].name, version |-> schemas[n].id]]
      BY DEF SchemaInv
    <2> QED
      BY <2>1, <2>2, Zenon
  <1>2. Len(batch[Tool]) = Len(schemas)
    <2>1. batch[Tool] \in Seq(Order) /\ DOMAIN batch[Tool] = 1..Len(schemas)
      BY <1>1 DEF FileType
    <2>2. Len(batch[Tool]) \in Nat /\ DOMAIN batch[Tool] = 1..Len(batch[Tool])
      BY <2>1
    <2> QED
      BY <1>1, <2>1, <2>2
  <1>3. \A n \in 1..Len(schemas) : schemas[n].name \in File /\ schemas[n].id \in Version
    <2>1. ASSUME NEW n \in 1..Len(schemas) PROVE schemas[n].name \in File /\ schemas[n].id \in Version
      <3>1. schemas[n] \in Schema
        BY <1>1
      <3> QED
        BY <3>1 DEF Schema
    <2> QED
      BY <2>1
  <1>4. \A n \in 1..Len(schemas) : /\ batch[Tool][n].file = schemas[n].name
                                   /\ batch[Tool][n].version = schemas[n].id
    BY <1>1
  <1>5. \A m, n \in 1..Len(schemas) : m # n => schemas[m].name # schemas[n].name
    BY DEF SchemaInv
  <1> QED
    BY <1>1, <1>2, <1>3, <1>4, <1>5

\* After a step of the commit the files before the one that was at hand are still current,
\* and so is that one when the step goes on to the next, or ends the run with success.
LEMMA DoneSoFar ==
  ASSUME Inv, Commit, NEW k \in 1..Len(batch[Tool]),
         k < next[Tool] \/ (k = next[Tool] /\ (InspectCurrent(Tool) \/ ReplaceFile(Tool)))
  PROVE  IsCurrent(batch[Tool][k].file, batch[Tool][k].version)'
  <1>0. /\ FileInv /\ FileType /\ ToolType /\ SchemaInv /\ DoneInv /\ RunStep(Tool)
        /\ Committing /\ batch' = batch
    BY CommitSteps DEF Inv, FileInv, Commit, RunStep, InspectCurrent, InspectOther, InspectFails, OpenTemporary,
           OpenFails, Write, WriteFails, Close, ReplaceFile, ReplaceFails, RemoveTemporaryFile, Committing
  <1>1. PICK f \in File : f = batch[Tool][k].file
    BY <1>0, BatchOfSchemas
  <1>2. PICK v \in Version : v = batch[Tool][k].version
    BY <1>0, BatchOfSchemas
  <1>3. next[Tool] \in 1..Len(batch[Tool]) /\ Len(batch[Tool]) \in Nat
    BY <1>0, OrderAtHand
  <1>4. CASE k < next[Tool]
    <2>1. IsCurrent(f, v)
      BY <1>0, <1>1, <1>2, <1>3, <1>4 DEF DoneInv
    <2>2. f # Target(Tool)
      BY <1>0, <1>1, <1>3, <1>4, BatchOfSchemas DEF Target
    <2> QED
      BY <1>0, <1>1, <1>2, <2>1, <2>2, CurrentStays DEF IsCurrent, Whole
  <1>5. CASE k = next[Tool] /\ (InspectCurrent(Tool) \/ ReplaceFile(Tool))
    <2>1. IsCurrent(f, v)'
      BY <1>0, <1>1, <1>2, <1>5, CurrentNow DEF Target, Contents
    <2> QED
      BY <1>0, <1>1, <1>2, <2>1 DEF IsCurrent, Whole
  <1> QED
    BY <1>4, <1>5

LEMMA DoneStep ==
  ASSUME Inv, [ToolNext]_allVars
  PROVE  DoneInv'
  <1> USE DEF Inv
  <1>0. FileType /\ FileInv /\ DoneInv
    BY DEF FileInv
  <1>1. CASE \/ Launch \/ LoadConfiguration \/ EnsureOutputDirectory \/ CollectInputPaths \/ StepFails
             \/ CompileSchema \/ ReadFails \/ \E path \in Path : Visit(path)
    <2>1. pc'[Tool] \in {"idle", "configure", "collect", "directory", "compile"}
      BY <1>0, <1>1 DEF Launch, LoadConfiguration, EnsureOutputDirectory, CollectInputPaths, StepFails,
                        CompileSchema, ReadFails, Visit, Stop, At, GoTo, FileType
    <2> QED
      BY <2>1 DEF DoneInv, Committing
  <1>2. CASE GenerateFiles
    <2>1. next'[Tool] = 1
      BY <1>0, <1>2 DEF GenerateFiles, FileType
    <2> QED
      BY <2>1 DEF DoneInv
  <1>3. CASE Killed
    BY <1>0, <1>3 DEF Killed, Kill, FileType, DoneInv, Committing
  <1>4. CASE Commit
    <2>1. SUFFICES ASSUME Committing', NEW k \in 1..(next'[Tool] - 1)
                   PROVE  IsCurrent(batch[Tool][k].file, batch[Tool][k].version)'
      BY DEF DoneInv
    <2>2. batch' = batch /\ Committing
      BY <1>0, <1>4, <2>1, CommitSteps
    <2>3. /\ next[Tool] \in Nat /\ next[Tool] <= Len(batch[Tool]) /\ Len(batch[Tool]) \in Nat
          /\ next[Tool] >= 1
      BY <1>0, <2>2, OrderAtHand
    <2>4. CASE next'[Tool] = next[Tool]
      BY <1>4, <2>3, <2>4, DoneSoFar
    <2>5. CASE next'[Tool] # next[Tool]
      <3>1. InspectCurrent(Tool) \/ ReplaceFile(Tool)
        BY <1>4, <2>5 DEF Commit, RunStep, InspectOther, InspectFails, OpenTemporary, Opened, OpenFails,
           Write, WriteFails, Close, ReplaceFails, RemoveTemporaryFile, Fails, local
      <3>2. next'[Tool] = next[Tool] + 1
        BY <1>0, <2>1, <3>1, ProceedGoes DEF InspectCurrent, ReplaceFile, Committing
      <3>3. k \in 1..Len(batch[Tool]) /\ (k < next[Tool] \/ k = next[Tool])
        BY <2>3, <3>2
      <3> QED
        BY <1>4, <3>1, <3>3, DoneSoFar
    <2> QED
      BY <2>4, <2>5
  <1>5. CASE \/ \E path \in Path, source \in Schema \union {Missing, Invalid} : ChangeSource(path, source)
             \/ UNCHANGED allVars
    <2>1. pc' = pc /\ next' = next /\ batch' = batch /\ final' = final /\ data' = data
      BY <1>5 DEF ChangeSource, allVars, vars, files, local
    <2>2. ASSUME Committing, NEW k \in 1..(next[Tool] - 1)
          PROVE  IsCurrent(batch[Tool][k].file, batch[Tool][k].version)'
      <3>1. IsCurrent(batch[Tool][k].file, batch[Tool][k].version)
        BY <1>0, <2>2 DEF DoneInv
      <3> QED
        BY <2>1, <3>1 DEF IsCurrent, Whole
    <2>3. Committing' <=> Committing
      BY <2>1 DEF Committing
    <2> QED
      BY <2>1, <2>2, <2>3 DEF DoneInv
  <1> QED
    BY <1>1, <1>2, <1>3, <1>4, <1>5 DEF ToolNext

\* The last step of a run that succeeds.
LEMMA AllGenerated ==
  ASSUME Inv, Commit, InspectCurrent(Tool) \/ ReplaceFile(Tool), ~(next[Tool] < Len(batch[Tool]))
  PROVE  SuccessMeansGenerated'
  <1>0. /\ FileInv /\ FileType /\ ToolType /\ ListInv /\ SchemaInv /\ Committing /\ Listed
        /\ UNCHANGED <<batch, start, changed>>
    BY CommitSteps DEF Inv, FileInv, InspectCurrent, ReplaceFile, Committing, Listed, historyVars
  <1>1. /\ next[Tool] \in Nat /\ next[Tool] = Len(batch[Tool]) /\ Len(batch[Tool]) = Len(schemas)
        /\ Len(schemas) = Len(paths) /\ Len(schemas) \in Nat
    BY <1>0, OrderAtHand, BatchOfSchemas
  <1>2. \A k \in 1..Len(schemas) : IsCurrent(schemas[k].name, schemas[k].id)'
    <2>1. ASSUME NEW k \in 1..Len(schemas) PROVE IsCurrent(schemas[k].name, schemas[k].id)'
      <3>1. k < next[Tool] \/ k = next[Tool]
        BY <1>1
      <3>2. IsCurrent(batch[Tool][k].file, batch[Tool][k].version)'
        BY <1>1, <3>1, DoneSoFar
      <3>3. batch[Tool][k].file = schemas[k].name /\ batch[Tool][k].version = schemas[k].id
        BY <1>0, BatchOfSchemas
      <3>4. schemas' = schemas
        BY <1>0, CommitSteps DEF toolVars
      <3> QED
        BY <1>0, <3>2, <3>3, <3>4
    <2> QED
      BY <2>1
  <1>3. SUFFICES ASSUME ~changed
                 PROVE  /\ Bad = {} /\ Existing # {}
                        /\ \A path \in Existing : IsCurrent(start[path].name, start[path].id)'
    <2>1. Bad' = Bad /\ Existing' = Existing
      BY <1>0 DEF Bad, Existing, Refused
    <2> QED
      BY <1>0, <2>1 DEF SuccessMeansGenerated, IsCurrent, Whole
  <1>4. Bad = {}
    <2>1. ASSUME NEW p \in Bad PROVE FALSE
      <3>1. PICK n \in 1..Len(paths) : paths[n] = p
        BY <1>0, <1>3, Compiled DEF Bad
      <3> QED
        BY <1>0, <1>1, <1>3, <3>1, CompiledNotBad
    <2> QED
      BY <2>1
  <1>5. Existing # {}
    <2>1. 1 \in 1..Len(paths)
      BY <1>0 DEF ListInv, ToolType
    <2> QED
      BY <1>0, <1>3, <2>1, Compiled
  <1>6. ASSUME NEW path \in Existing PROVE IsCurrent(start[path].name, start[path].id)'
    <2>1. PICK n \in 1..Len(schemas) : paths[n] = path
      BY <1>0, <1>1, <1>3, Compiled
    <2>2. schemas[n] = start[path] /\ schemas' = schemas
      BY <1>0, <1>3, <2>1, Compiled, CommitSteps DEF toolVars
    <2> QED
      BY <1>0, <1>2, <2>2
  <1> QED
    BY <1>4, <1>5, <1>6

LEMMA SuccessStep ==
  ASSUME Inv, [ToolNext]_allVars
  PROVE  SuccessMeansGenerated'
  <1> USE DEF Inv
  <1>0. FileType /\ FileInv /\ ReportInv /\ SuccessMeansGenerated
    BY DEF FileInv
  <1>1. CASE Launch
    BY <1>0, <1>1 DEF Launch, FileType, SuccessMeansGenerated
  <1>2. CASE \/ LoadConfiguration \/ EnsureOutputDirectory \/ CollectInputPaths \/ StepFails \/ GenerateFiles
             \/ CompileSchema \/ ReadFails \/ \E path \in Path : Visit(path)
    <2>1. result[Tool] = "none"
      BY <1>0, <1>2 DEF LoadConfiguration, EnsureOutputDirectory, CollectInputPaths, StepFails, GenerateFiles,
                        CompileSchema, ReadFails, Visit, At, ReportInv
    <2>2. result' = result \/ result'[Tool] = "failure"
      BY <1>0, <1>2 DEF LoadConfiguration, EnsureOutputDirectory, CollectInputPaths, StepFails, GenerateFiles,
                        CompileSchema, ReadFails, Visit, Stop, FileType
    <2> QED
      BY <2>1, <2>2 DEF SuccessMeansGenerated
  <1>3. CASE Killed
    BY <1>0, <1>3 DEF Killed, Kill, FileType, SuccessMeansGenerated
  <1>4. CASE Commit
    <2>1. RunStep(Tool) /\ result[Tool] = "none"
      BY <1>0, <1>4 DEF Commit, RunStep, InspectCurrent, InspectOther, InspectFails, OpenTemporary,
           OpenFails, Write, WriteFails, Close, ReplaceFile, ReplaceFails, RemoveTemporaryFile, ReportInv
    <2>2. CASE InspectCurrent(Tool) \/ ReplaceFile(Tool)
      <3>1. CASE next[Tool] < Len(batch[Tool])
        <4>1. result' = result
          BY <2>2, <3>1 DEF InspectCurrent, ReplaceFile, Proceed
        <4> QED
          BY <2>1, <4>1 DEF SuccessMeansGenerated
      <3> QED
        BY <1>4, <2>2, <3>1, AllGenerated
    <2>3. CASE ~(InspectCurrent(Tool) \/ ReplaceFile(Tool))
      <3>1. result' = result \/ result'[Tool] = "failure"
        BY <1>0, <2>1, <2>3 DEF RunStep, InspectOther, InspectFails, OpenTemporary, Opened, OpenFails, Write,
           WriteFails, Close, ReplaceFails, RemoveTemporaryFile, Fails, FileType
      <3> QED
        BY <2>1, <3>1 DEF SuccessMeansGenerated
    <2> QED
      BY <2>2, <2>3
  <1>5. CASE \E path \in Path, source \in Schema \union {Missing, Invalid} : ChangeSource(path, source)
    BY <1>5 DEF ChangeSource, SuccessMeansGenerated
  <1>6. CASE UNCHANGED allVars
    <2>1. result' = result /\ changed' = changed /\ start' = start /\ final' = final /\ data' = data
      BY <1>6 DEF allVars, vars, files, historyVars
    <2>2. Bad' = Bad /\ Existing' = Existing
      BY <2>1 DEF Bad, Existing, Refused
    <2>3. \A v : Whole(v)' = Whole(v)
      BY DEF Whole
    <2> QED
      BY <1>0, <2>1, <2>2, <2>3 DEF SuccessMeansGenerated
  <1> QED
    BY <1>1, <1>2, <1>3, <1>4, <1>5, <1>6 DEF ToolNext
-----------------------------------------------------------------------------
LEMMA InitInv == ToolInit => Inv
  <1> SUFFICES ASSUME ToolInit PROVE Inv
    OBVIOUS
  <1>1. pc[Tool] = "idle" /\ open[Tool] = NoInode /\ result[Tool] = "none" /\ ~Listed /\ ~Committing
    BY Constants DEF ToolInit, Init, Listed, Committing
  <1>2. FileType
    <2>1. Nothing \in [1..Chunks -> Version \union {Absent}]
      BY DEF Nothing, Whole
    <2>2. << >> \in Seq(Order)
      OBVIOUS
    <2> QED
      BY <1>1, <2>1, <2>2, Constants DEF ToolInit, Init, FileType, Steps
  <1>3. NamesApart /\ NeverPartial /\ WriteInv
    BY <1>1 DEF ToolInit, Init, NamesApart, NeverPartial, WriteInv
  <1>4. ToolType
    <2>1. << >> \in Seq(Path) /\ << >> \in Seq(Schema)
      OBVIOUS
    <2> QED
      BY <2>1 DEF ToolInit, ToolType, Source
  <1>5. ListInv /\ SchemaInv
    BY <1>1 DEF ToolInit, ListInv, SchemaInv
  <1>6. ReportInv /\ DoneInv /\ SuccessMeansGenerated
    BY <1>1 DEF ToolInit, ReportInv, FirstProblemReported, DoneInv, SuccessMeansGenerated
  <1> QED
    BY <1>2, <1>3, <1>4, <1>5, <1>6 DEF Inv, FileInv

\* The invariants together hold of every run of the tool.
THEOREM ToolInvariant == ToolSpec => []Inv
  <1>1. Inv /\ [ToolNext]_allVars => Inv'
    BY FileStep, ToolTypeStep, ListStep, SchemaStep, ReportStep, DoneStep, SuccessStep DEF Inv
  <1> QED
    BY InitInv, <1>1, PTL DEF ToolSpec

\* A generated file is whole or absent, wherever a call fails or a run is killed.
THEOREM NeverPartialHolds == ToolSpec => []NeverPartial
  BY ToolInvariant, PTL DEF Inv, FileInv

\* A refusal names the first problem, or a file no later that could not be read, whatever
\* the order of the directory.
THEOREM FirstProblemReportedHolds == ToolSpec => []FirstProblemReported
  BY ToolInvariant, PTL DEF Inv, ReportInv

\* A run that succeeds leaves every schema with its file.
THEOREM SuccessMeansGeneratedHolds == ToolSpec => []SuccessMeansGenerated
  BY ToolInvariant, PTL DEF Inv

\* Files change only in a directory that is there, when every listed schema was read, is
\* legal, and clashes with no other.
THEOREM NothingWrittenUnlessValidHolds == ToolSpec => NothingWrittenUnlessValid
  <1> DEFINE Step == files' # files =>
                        /\ directory
                        /\ Len(schemas) = Len(paths)
                        /\ \A m, n \in DOMAIN schemas :
                              m # n => schemas[m].name # schemas[n].name /\ schemas[m].id # schemas[n].id
  <1>1. ASSUME Inv, [ToolNext]_allVars PROVE Step
    <2>1. SUFFICES ASSUME files' # files PROVE Step
      OBVIOUS
    <2>2. Commit
      BY <1>1, <2>1 DEF ToolNext, Launch, LoadConfiguration, EnsureOutputDirectory, CollectInputPaths, StepFails,
           GenerateFiles, CompileSchema, ReadFails, Visit, Killed, Kill, ChangeSource, allVars, vars
    <2>3. Committing
      BY <2>2 DEF Commit, RunStep, InspectCurrent, InspectOther, InspectFails, OpenTemporary,
           OpenFails, Write, WriteFails, Close, ReplaceFile, ReplaceFails, RemoveTemporaryFile, Committing
    <2>4. DOMAIN schemas = 1..Len(schemas)
      BY <1>1 DEF Inv, ToolType
    <2> QED
      BY <1>1, <2>3, <2>4 DEF Inv, SchemaInv
  <1>2. Inv /\ [ToolNext]_allVars => [Step]_<<vars, directory, toolVars>>
    BY <1>1
  <1> QED
    BY ToolInvariant, <1>2, PTL DEF ToolSpec, NothingWrittenUnlessValid
(***************************************************************************)
(* PacketSchema: the walk of the JSON parser, the checks and the batch     *)
(***************************************************************************)
JsonFile == [readable : BOOLEAN, value : JsonValues, events : Nat \union {Parser!Whole}]

\* The checks that lie behind the one at hand.
AfterBatch         == {"build"}
AfterField         == {"batch"} \union AfterBatch
AfterFields        == {"field"} \union AfterField
AfterVersion       == {"fields"} \union AfterFields
AfterId            == {"payload version"} \union AfterVersion
AfterName          == {"id"} \union AfterId
AfterPacketMembers == {"name"} \union AfterName
AfterPacket        == {"packet properties"} \union AfterPacketMembers
AfterSupported     == {"packet"} \union AfterPacket
AfterSchemaVersion == {"supported version"} \union AfterSupported
AfterMembers       == {"schema version"} \union AfterSchemaVersion
AfterRoot          == {"root properties"} \union AfterMembers
AfterScan          == {"root"} \union AfterRoot
CompilerSteps      == {"read", "scan", "end"} \union AfterScan

\* What is known of the file at a step.
Passed(s) ==
    /\ s \in {"scan"} \union AfterScan => Parser!TheFile.readable
    /\ s \in AfterScan => Parser!TheFile.events = Parser!Whole /\ Parser!KeysUnique[Parser!Root]
    /\ s \in AfterRoot => Parser!Root.kind = "object"
    /\ s \in AfterMembers => Parser!KeysOf(Parser!Root) = {"schemaVersion", "packet"}
    /\ s \in AfterSchemaVersion => Parser!IsUnsigned16(Parser!Get(Parser!Root, "schemaVersion"), 1)
    /\ s \in AfterSupported => Parser!Unsigned16(Parser!Get(Parser!Root, "schemaVersion")) = 1
    /\ s \in AfterPacket => Parser!Packet.kind = "object"
    /\ s \in AfterPacketMembers => Parser!KeysOf(Parser!Packet) = {"name", "id", "payloadVersion", "fields"}
    /\ s \in AfterName => Parser!IsName(Parser!Get(Parser!Packet, "name"))
    /\ s \in AfterId => Parser!IsUnsigned16(Parser!Get(Parser!Packet, "id"), 0)
    /\ s \in AfterVersion => Parser!IsUnsigned16(Parser!Get(Parser!Packet, "payloadVersion"), 1)
    /\ s \in AfterFields => Parser!Get(Parser!Packet, "fields").kind = "array"

\* Of the fields: those that are parsed are legal and have names of their own.
FieldsInv ==
    /\ scan \in AfterFields =>
          /\ Len(names) <= Len(Parser!Fields)
          /\ \A n \in 1..Len(names) : Parser!IsField(Parser!Fields[n]) /\ names[n] = Parser!NameOf(Parser!Fields[n])
          /\ \A m, n \in 1..Len(names) : names[m] = names[n] => m = n
    /\ scan \in AfterField => Len(names) = Len(Parser!Fields)
    /\ scan \in CompilerSteps \ (AfterFields \union {"read", "end"}) => names = <<>>

Known(frame) == frame.begun + (IF frame.named THEN 1 ELSE 0)

\* A container that is open: the detector has the keys up to where the parser is, no two the same.
Matches(container, frame) ==
    /\ container.isObject <=> frame.value.kind = "object"
    /\ frame.value.kind = "object" =>
          LET members == frame.value.members
          IN  /\ container.keys = {members[n].key : n \in 1..Known(frame)}
              /\ \A m, n \in 1..Known(frame) : members[m].key = members[n].key => m = n

Frame == [value : {v \in JsonValues : v.kind \in {"object", "array"}}, begun : Nat, named : BOOLEAN]

Pending  == STRING \union {""}
PathPart == [key : Pending] \union [index : Nat]

Open == [isObject : BOOLEAN, path : Seq(PathPart), keys : SUBSET STRING, pendingKey : Pending, nextIndex : Nat]

\* Its parts that have begun have no repeated key, but perhaps the one the parser is within.
FrameInv(container, frame, within) ==
    /\ Matches(container, frame)
    /\ Known(frame) <= Len(Parser!Parts(frame.value))
    /\ frame.named => frame.value.kind = "object"
    /\ \A n \in 1..frame.begun : (within /\ n = frame.begun) \/ Parser!KeysUnique[Parser!Parts(frame.value)[n]]
    /\ within => frame.begun > 0 /\ ~frame.named

\* The containers that are open, each within the one before it.
Walking(root, containers, frames) ==
    /\ frames \in Seq(Frame) /\ containers \in Seq(Open) /\ Len(containers) = Len(frames)
    /\ frames # <<>> => frames[1].value = root
    /\ frames # <<>> => FrameInv(containers[Len(frames)], frames[Len(frames)], FALSE)
    /\ \A i \in 1..(Len(frames) - 1) : FrameInv(containers[i], frames[i], TRUE)
    /\ \A i \in 1..(Len(frames) - 1) : frames[i + 1].value = Parser!Parts(frames[i].value)[frames[i].begun]

ScanInv ==
    scan = "scan" =>
        /\ event \in Nat /\ (event = 0 => walk = <<>>)
        /\ Parser!Walked => Parser!KeysUnique[Parser!Root]
        /\ Walking(Parser!Root, stack, walk)

Describes(p, file) ==
    LET packet == Parser!Get(file.value, "packet")
        items  == Parser!Get(packet, "fields").items
    IN  /\ Parser!Number(p.id) = Parser!Get(packet, "id") /\ Parser!Text(p.name) = Parser!Get(packet, "name")
        /\ Parser!Number(p.version) = Parser!Get(packet, "payloadVersion")
        /\ Len(p.fields) = Len(items)
        /\ \A k \in DOMAIN items : /\ Parser!Text(p.fields[k].name) = Parser!Get(items[k], "name")
                                   /\ Parser!Text(p.fields[k].type) = Parser!Get(items[k], "type")

Descriptor == [name : STRING, id : Nat, version : Nat, fields : Seq([name : STRING, type : STRING])]

\* Before the file at hand there is nothing bad; what was made of it is as it should be.
PriorInv ==
    /\ packets \in Seq(Descriptor)
    /\ \A n \in 1..Len(packets) : n \in DOMAIN inputs /\ n \notin Parser!Bad /\ Describes(packets[n], inputs[n])
    /\ scan # "end" /\ inputs # <<>> => Len(packets) = current - 1
    /\ scan \notin {"build", "end"} =>
          /\ packetIds = {packets[n].id : n \in 1..Len(packets)}
          /\ packetNames = {packets[n].name : n \in 1..Len(packets)}
    /\ scan = "build" =>
          /\ packetIds = {packets[n].id : n \in 1..Len(packets)} \union {Parser!ThePacket.id}
          /\ packetNames = {packets[n].name : n \in 1..Len(packets)} \union {Parser!ThePacket.name}
          /\ \A n \in 1..Len(packets) : ~Parser!Clash(inputs[n], Parser!TheFile)

CompilerType ==
    /\ inputs \in Seq(JsonFile)
    /\ current \in Nat \ {0} /\ (inputs # <<>> => current <= Len(inputs))
    /\ scan \in CompilerSteps /\ names \in Seq(STRING)
    /\ inputs = <<>> => packets = <<>> /\ scan \in {"read", "end"}

RefusedInv ==
    /\ parsed \in {"io", "invalid data"} /\ out = Parser!Untouched
    /\ Len(packets) = current - 1
    /\ Len(diagnostics) = 1 /\ diagnostics[1].file = current /\ current \in Parser!Bad
    /\ Parser!TheFile.readable /\ Parser!TheFile.events = Parser!Whole =>
          (diagnostics[1].id = "DuplicateKey" <=> ~Parser!KeysUnique[Parser!TheFile.value])

EndInv ==
    IF scan # "end" THEN diagnostics = <<>> /\ parsed = "none" /\ out = Parser!Untouched
    ELSE \/ inputs = <<>> /\ parsed = "invalid argument" /\ out = Parser!Untouched
         \/ inputs # <<>> /\ RefusedInv
         \/ inputs # <<>> /\ parsed = "success" /\ out = packets /\ diagnostics = <<>> /\ Len(packets) = Len(inputs)

CompilerInv == CompilerType /\ Passed(scan) /\ FieldsInv /\ ScanInv /\ PriorInv /\ EndInv
-----------------------------------------------------------------------------
\* Sequences: what the library says of them, for the prover.
LEMMA SeqIs ==
  ASSUME NEW S, NEW q \in Seq(S)
  PROVE  /\ Len(q) \in Nat /\ DOMAIN q = 1..Len(q)
         /\ \A n \in 1..Len(q) : q[n] \in S
         /\ q = <<>> <=> Len(q) = 0
  OBVIOUS

LEMMA ValueKinds ==
  ASSUME NEW v \in JsonValues
  PROVE  /\ v.kind = "object" => v.members \in Seq([key : STRING, value : JsonValues])
         /\ v.kind = "array" => v.items \in Seq(JsonValues)
         /\ v.kind = "number" => v = Parser!Number(v.number) /\ v.number \in Int
         /\ v.kind = "string" => v = Parser!Text(v.string) /\ v.string \in STRING
  <1>1. \/ v.kind = "object" /\ v = Parser!Object(v.members) /\ v.members \in Seq([key : STRING, value : JsonValues])
        \/ v.kind = "array"  /\ v = Parser!Array(v.items)    /\ v.items \in Seq(JsonValues)
        \/ v.kind = "number" /\ v = Parser!Number(v.number)  /\ v.number \in Int
        \/ v.kind = "string" /\ v = Parser!Text(v.string)    /\ v.string \in STRING
        \/ v = Parser!Other
    BY Zenon, InputsAssumption DEF Parser!InputsTyped, Parser!AreValues
  <1>2. v = Parser!Other => v.kind = "other"
    BY DEF Parser!Other
  <1> QED
    BY <1>1, <1>2

\* The parts of a value are values.
LEMMA PartsAre ==
  ASSUME NEW v \in JsonValues
  PROVE  /\ Parser!Parts(v) \in Seq(JsonValues)
         /\ v.kind = "object" => /\ Len(Parser!Parts(v)) = Len(v.members)
                                 /\ \A n \in 1..Len(v.members) : Parser!Parts(v)[n] = v.members[n].value
         /\ v.kind = "array" => Parser!Parts(v) = v.items
         /\ v.kind \notin {"object", "array"} => Parser!Parts(v) = <<>>
  <1>1. CASE v.kind = "object"
    <2>1. PICK members \in Seq([key : STRING, value : JsonValues]) : members = v.members
      BY <1>1, ValueKinds
    <2>2. Parser!Parts(v) = [n \in 1..Len(members) |-> members[n].value]
      BY <1>1, <2>1 DEF Parser!Parts
    <2>3. ASSUME NEW n \in 1..Len(members) PROVE members[n].value \in JsonValues
      <3>1. members[n] \in [key : STRING, value : JsonValues]
        BY <2>1, ElementOfSeq
      <3> QED
        BY <3>1
    <2> QED
      BY <1>1, <2>1, <2>2, <2>3
  <1>2. CASE v.kind = "array"
    BY <1>2, ValueKinds DEF Parser!Parts
  <1>3. CASE v.kind \notin {"object", "array"}
    BY <1>3 DEF Parser!Parts
  <1> QED
    BY <1>1, <1>2, <1>3

OwnKeysDiffer(v) ==
    v.kind = "object" => \A m, n \in DOMAIN v.members : v.members[m].key = v.members[n].key => m = n

\* The recursion has a solution: the values that lie in a set in which each value has keys of its own.
LEMMA KeysUniqueIs ==
  ASSUME NEW v \in JsonValues
  PROVE  Parser!KeysUnique[v] <=>
             OwnKeysDiffer(v) /\ \A n \in 1..Len(Parser!Parts(v)) : Parser!KeysUnique[Parser!Parts(v)[n]]
  <1> DEFINE Closed(S) == \A u \in S : OwnKeysDiffer(u) /\ \A n \in DOMAIN Parser!Parts(u) : Parser!Parts(u)[n] \in S
             f == [u \in JsonValues |-> \E S \in SUBSET JsonValues : u \in S /\ Closed(S)]
  <1>1. ASSUME NEW u \in JsonValues
        PROVE  f[u] = (OwnKeysDiffer(u) /\ \A n \in DOMAIN Parser!Parts(u) : f[Parser!Parts(u)[n]])
    <2>1. \A n \in DOMAIN Parser!Parts(u) : Parser!Parts(u)[n] \in JsonValues
      BY PartsAre
    <2>2. ASSUME f[u] PROVE OwnKeysDiffer(u) /\ \A n \in DOMAIN Parser!Parts(u) : f[Parser!Parts(u)[n]]
      <3>1. PICK S \in SUBSET JsonValues : u \in S /\ Closed(S)
        BY <2>2
      <3>2. \A n \in DOMAIN Parser!Parts(u) : Parser!Parts(u)[n] \in S
        BY <3>1
      <3>3. \A n \in DOMAIN Parser!Parts(u) : f[Parser!Parts(u)[n]]
        BY <2>1, <3>1, <3>2
      <3>4. OwnKeysDiffer(u)
        BY <3>1
      <3> QED
        BY <3>3, <3>4
    <2>3. ASSUME OwnKeysDiffer(u), \A n \in DOMAIN Parser!Parts(u) : f[Parser!Parts(u)[n]] PROVE f[u]
      <3>1. PICK T : T = {w \in JsonValues : w = u \/ f[w]}
        OBVIOUS
      <3>2. ASSUME NEW w \in T
            PROVE  OwnKeysDiffer(w) /\ \A n \in DOMAIN Parser!Parts(w) : Parser!Parts(w)[n] \in T
        <4>1. CASE w = u
          BY <2>1, <2>3, <3>1, <4>1
        <4>2. CASE w # u
          <5>1. PICK S \in SUBSET JsonValues : w \in S /\ Closed(S)
            BY <3>1, <3>2, <4>2
          <5>2. \A n \in DOMAIN Parser!Parts(w) : Parser!Parts(w)[n] \in S
            BY <5>1
          <5>3. \A n \in DOMAIN Parser!Parts(w) : f[Parser!Parts(w)[n]]
            BY <5>1, <5>2
          <5>4. OwnKeysDiffer(w)
            BY <5>1
          <5> QED
            BY <3>1, <5>1, <5>2, <5>3, <5>4
        <4> QED
          BY <4>1, <4>2
      <3>3. T \in SUBSET JsonValues /\ u \in T
        BY <3>1
      <3>4. Closed(T)
        BY <3>2
      <3> QED
        BY <3>3, <3>4
    <2>4. f[u] \in BOOLEAN
      OBVIOUS
    <2> QED
      BY <2>2, <2>3, <2>4
  <1> DEFINE Solves(g) == g = [u \in JsonValues |->
                 /\ u.kind = "object" => \A m, n \in DOMAIN u.members : u.members[m].key = u.members[n].key => m = n
                 /\ \A n \in DOMAIN Parser!Parts(u) : g[Parser!Parts(u)[n]]]
  <1>2. Solves(f)
    BY <1>1 DEF OwnKeysDiffer
  <1> HIDE DEF f
  <1>3. Parser!KeysUnique = CHOOSE g : Solves(g)
    BY DEF Parser!KeysUnique
  <1>4. Solves(Parser!KeysUnique)
    BY Zenon, <1>2, <1>3
  <1>5. Parser!KeysUnique[v] = (OwnKeysDiffer(v) /\ \A n \in DOMAIN Parser!Parts(v) : Parser!KeysUnique[Parser!Parts(v)[n]])
    BY <1>4 DEF OwnKeysDiffer
  <1>6. DOMAIN Parser!Parts(v) = 1..Len(Parser!Parts(v))
    BY PartsAre
  <1> QED
    BY <1>5, <1>6

\* A member that is there: the last of that name.
LEMMA GetIs ==
  ASSUME NEW v \in JsonValues, v.kind = "object", NEW k \in Parser!KeysOf(v)
  PROVE  /\ Parser!Get(v, k) \in JsonValues
         /\ \E n \in 1..Len(v.members) : v.members[n].key = k /\ Parser!Get(v, k) = v.members[n].value
  <1>1. PICK members \in Seq([key : STRING, value : JsonValues]) : members = v.members
    BY ValueKinds
  <1>2. PICK M : M = {n \in 1..Len(members) : members[n].key = k}
    OBVIOUS
  <1>3. M # {} /\ M \subseteq 1..Len(members)
    BY <1>1, <1>2 DEF Parser!KeysOf
  <1>4. \E n \in M : \A m \in M : m <= n
    <2>1. PICK T : T = {x \in Nat : Len(members) - x \in M}
      OBVIOUS
    <2>2. T # {} /\ T \subseteq Nat
      <3>1. PICK n \in M : TRUE
        BY <1>3
      <3>2. n \in 1..Len(members) /\ Len(members) \in Nat
        BY <1>1, <1>3
      <3>3. Len(members) - n \in Nat /\ Len(members) - (Len(members) - n) = n
        BY <3>2
      <3> QED
        BY <2>1, <3>1, <3>3
    <2>3. PICK x \in T : \A y \in T : ~(<<y, x>> \in OpToRel(<, Nat))
      BY <2>2, NatLessThanWellFounded, WFMin
    <2>4. \A y \in T : ~(y < x)
      BY <2>2, <2>3 DEF OpToRel
    <2>5. ASSUME NEW m \in M PROVE m <= Len(members) - x
      <3>1. m \in 1..Len(members) /\ Len(members) \in Nat
        BY <1>1, <1>3
      <3>2. Len(members) - m \in Nat /\ Len(members) - (Len(members) - m) = m
        BY <3>1
      <3>3. Len(members) - m \in T
        BY <2>1, <3>2
      <3>4. ~(Len(members) - m < x) /\ x \in Nat
        BY <2>2, <2>4, <3>3
      <3> QED
        BY <3>1, <3>4
    <2> QED
      BY <2>1, <2>5
  <1> DEFINE P(n) == /\ v.members[n].key = k
                     /\ \A m \in DOMAIN v.members : v.members[m].key = k => m <= n
  <1>5. PICK n : n = CHOOSE i \in DOMAIN v.members : P(i)
    OBVIOUS
  <1>6. \E i \in DOMAIN v.members : P(i)
    <2>1. DOMAIN v.members = 1..Len(members)
      BY <1>1
    <2> QED
      BY <1>1, <1>2, <1>4, <2>1
  <1>7. n \in DOMAIN v.members /\ P(n)
    <2> HIDE DEF P
    <2> QED
      BY <1>5, <1>6
  <1>8. n \in 1..Len(members) /\ members[n].key = k
    BY <1>1, <1>7
  <1>9. Parser!Get(v, k) = members[n].value
    BY <1>1, <1>5 DEF Parser!Get
  <1>10. members[n].value \in JsonValues
    <2>1. members[n] \in [key : STRING, value : JsonValues]
      BY <1>1, <1>8, ElementOfSeq
    <2> QED
      BY <2>1
  <1> QED
    BY <1>1, <1>8, <1>9, <1>10

LEMMA SmallRemainder ==
  ASSUME NEW n \in 0..Max16
  PROVE  n % (Max16 + 1) = n
  <1>1. PICK d \in Nat \ {0} : d = Max16 + 1 /\ n \in 0..(d - 1)
    BY InputsAssumption DEF Parser!InputsTyped
  <1> QED
    BY <1>1

\* What passes the checks of a number is that number.
LEMMA NumberIs ==
  ASSUME NEW v \in JsonValues, NEW minimum \in {0, 1}
  PROVE  /\ Parser!IsUnsigned16(v, minimum) <=> \E n \in minimum..Max16 : v = Parser!Number(n)
         /\ Parser!IsUnsigned16(v, minimum) => /\ Parser!Unsigned16(v) \in minimum..Max16
                                       /\ Parser!Number(Parser!Unsigned16(v)) = v
  <1>1. Max16 \in Nat
    BY InputsAssumption DEF Parser!InputsTyped
  <1>2. ASSUME Parser!IsUnsigned16(v, minimum)
        PROVE  /\ v.number \in minimum..Max16 /\ v = Parser!Number(v.number)
               /\ Parser!Unsigned16(v) = v.number
    <2>1. v = Parser!Number(v.number) /\ v.number \in Int
      BY <1>2, ValueKinds DEF Parser!IsUnsigned16
    <2>2. v.number \in minimum..Max16 /\ v.number \in 0..Max16
      BY <1>1, <1>2, <2>1 DEF Parser!IsUnsigned16
    <2> QED
      BY <2>1, <2>2, SmallRemainder DEF Parser!Unsigned16
  <1>3. ASSUME NEW n \in minimum..Max16, v = Parser!Number(n) PROVE Parser!IsUnsigned16(v, minimum)
    <2>1. v.kind = "number" /\ v.number = n
      BY <1>3 DEF Parser!Number
    <2> QED
      BY <1>1, <2>1 DEF Parser!IsUnsigned16
  <1> QED
    BY <1>2, <1>3

LEMMA NameIs ==
  ASSUME NEW v \in JsonValues
  PROVE  /\ Parser!IsName(v) <=> v.kind = "string" /\ v # Parser!Text("")
         /\ v.kind = "string" => Parser!Text(v.string) = v /\ v.string \in STRING
  <1>1. v.kind = "string" => v = Parser!Text(v.string) /\ v.string \in STRING
    BY ValueKinds
  <1>2. Parser!Text("").string = ""
    BY DEF Parser!Text
  <1>3. v.kind = "string" /\ v # Parser!Text("") => v.string # ""
    BY <1>1
  <1>4. v.string # "" => v # Parser!Text("")
    BY <1>2
  <1> QED
    BY <1>1, <1>3, <1>4 DEF Parser!IsName

-----------------------------------------------------------------------------
\* What is known of the parts of a file, as far as the checks have come.
LEMMA PartsKnown ==
  ASSUME Parser!Root \in JsonValues, NEW s, Passed(s)
  PROVE  /\ s \in AfterMembers => Parser!Get(Parser!Root, "schemaVersion") \in JsonValues /\ Parser!Packet \in JsonValues
         /\ s \in AfterPacketMembers => /\ Parser!Get(Parser!Packet, "name") \in JsonValues
                                        /\ Parser!Get(Parser!Packet, "id") \in JsonValues
                                        /\ Parser!Get(Parser!Packet, "payloadVersion") \in JsonValues
                                        /\ Parser!Get(Parser!Packet, "fields") \in JsonValues
         /\ s \in AfterFields => Parser!Fields \in Seq(JsonValues)
  <1>1. AfterPacketMembers \subseteq AfterPacket /\ AfterPacketMembers \subseteq AfterMembers
        /\ AfterFields \subseteq AfterPacketMembers /\ AfterMembers \subseteq AfterRoot
    BY DEF AfterRoot, AfterMembers, AfterSchemaVersion, AfterSupported, AfterPacket, AfterPacketMembers,
           AfterName, AfterId, AfterVersion, AfterFields
  <1>2. ASSUME s \in AfterMembers
        PROVE  Parser!Get(Parser!Root, "schemaVersion") \in JsonValues /\ Parser!Packet \in JsonValues
    <2>1. Parser!Root.kind = "object" /\ Parser!KeysOf(Parser!Root) = {"schemaVersion", "packet"}
      BY <1>1, <1>2 DEF Passed
    <2> QED
      BY <2>1, GetIs DEF Parser!Packet
  <1>3. ASSUME s \in AfterPacketMembers
        PROVE  /\ Parser!Get(Parser!Packet, "name") \in JsonValues
               /\ Parser!Get(Parser!Packet, "id") \in JsonValues
               /\ Parser!Get(Parser!Packet, "payloadVersion") \in JsonValues
               /\ Parser!Get(Parser!Packet, "fields") \in JsonValues
    <2>1. /\ Parser!Packet.kind = "object"
          /\ Parser!KeysOf(Parser!Packet) = {"name", "id", "payloadVersion", "fields"}
      BY <1>1, <1>3 DEF Passed
    <2>2. Parser!Packet \in JsonValues
      BY <1>1, <1>2, <1>3
    <2> QED
      BY <2>1, <2>2, GetIs
  <1>4. ASSUME s \in AfterFields PROVE Parser!Fields \in Seq(JsonValues)
    <2>1. Parser!Get(Parser!Packet, "fields").kind = "array"
      BY <1>4 DEF Passed
    <2>2. Parser!Get(Parser!Packet, "fields") \in JsonValues
      BY <1>1, <1>3, <1>4
    <2> QED
      BY <2>1, <2>2, ValueKinds DEF Parser!Fields
  <1> QED
    BY <1>2, <1>3, <1>4

\* A legal file passes every check.
LEMMA LegalPasses ==
  ASSUME Parser!Root \in JsonValues, Parser!IsSchema(Parser!TheFile)
  PROVE  /\ Parser!TheFile.readable /\ Parser!TheFile.events = Parser!Whole /\ Parser!KeysUnique[Parser!Root]
         /\ Parser!Root.kind = "object" /\ Parser!HasProperties(Parser!Root, {"schemaVersion", "packet"})
         /\ Parser!IsUnsigned16(Parser!Get(Parser!Root, "schemaVersion"), 1)
         /\ Parser!Unsigned16(Parser!Get(Parser!Root, "schemaVersion")) = 1
         /\ Parser!Packet.kind = "object"
         /\ Parser!HasProperties(Parser!Packet, {"name", "id", "payloadVersion", "fields"})
         /\ Parser!IsName(Parser!Get(Parser!Packet, "name"))
         /\ Parser!IsUnsigned16(Parser!Get(Parser!Packet, "id"), 0)
         /\ Parser!IsUnsigned16(Parser!Get(Parser!Packet, "payloadVersion"), 1)
         /\ Parser!Get(Parser!Packet, "fields").kind = "array"
  <1>1. /\ Parser!TheFile.readable /\ Parser!TheFile.events = Parser!Whole /\ Parser!KeysUnique[Parser!Root]
        /\ Parser!Root.kind = "object" /\ Parser!KeysOf(Parser!Root) = {"schemaVersion", "packet"}
        /\ Parser!Get(Parser!Root, "schemaVersion") = Parser!Number(1) /\ Parser!IsPacket(Parser!Packet)
    BY DEF Parser!IsSchema, Parser!Root, Parser!Packet
  <1>2. Parser!Get(Parser!Root, "schemaVersion") \in JsonValues /\ Parser!Packet \in JsonValues
    BY <1>1, GetIs DEF Parser!Packet
  <1>3. Max16 \in Nat \ {0} /\ 1 \in 1..Max16 /\ 1 \in 0..Max16
    BY InputsAssumption DEF Parser!InputsTyped
  <1>4. Parser!IsUnsigned16(Parser!Get(Parser!Root, "schemaVersion"), 1)
    BY <1>1, <1>2, <1>3, NumberIs
  <1>5. Parser!Unsigned16(Parser!Get(Parser!Root, "schemaVersion")) = 1
    <2>1. Parser!Number(1).number = 1
      BY DEF Parser!Number
    <2> QED
      BY <1>1, <1>3, <2>1, SmallRemainder DEF Parser!Unsigned16
  <1>6. /\ Parser!Packet.kind = "object"
        /\ Parser!KeysOf(Parser!Packet) = {"name", "id", "payloadVersion", "fields"}
        /\ Parser!Get(Parser!Packet, "name").kind = "string"
        /\ Parser!Get(Parser!Packet, "name") # Parser!Text("")
        /\ \E n \in 0..Max16 : Parser!Get(Parser!Packet, "id") = Parser!Number(n)
        /\ \E n \in 1..Max16 : Parser!Get(Parser!Packet, "payloadVersion") = Parser!Number(n)
        /\ Parser!Get(Parser!Packet, "fields").kind = "array"
    BY <1>1 DEF Parser!IsPacket
  <1>7. /\ Parser!Get(Parser!Packet, "name") \in JsonValues /\ Parser!Get(Parser!Packet, "id") \in JsonValues
        /\ Parser!Get(Parser!Packet, "payloadVersion") \in JsonValues
    BY <1>2, <1>6, GetIs
  <1>8. Parser!IsName(Parser!Get(Parser!Packet, "name"))
    BY <1>6, <1>7, NameIs
  <1>9. Parser!IsUnsigned16(Parser!Get(Parser!Packet, "id"), 0)
    BY <1>6, <1>7, NumberIs
  <1>10. Parser!IsUnsigned16(Parser!Get(Parser!Packet, "payloadVersion"), 1)
    BY <1>6, <1>7, NumberIs
  <1> QED
    BY <1>1, <1>4, <1>5, <1>6, <1>8, <1>9, <1>10 DEF Parser!HasProperties

Legal(items) ==
    /\ \A n \in 1..Len(items) : Parser!IsField(items[n])
    /\ \A m, n \in 1..Len(items) : m # n => Parser!Get(items[m], "name") # Parser!Get(items[n], "name")

\* What has passed all of them is legal but perhaps for its size.
LEMMA PassedIsLegal ==
  ASSUME Parser!Root \in JsonValues, NEW s \in AfterFields, Passed(s), Legal(Parser!Fields)
  PROVE  /\ Parser!IsSchema(Parser!TheFile) <=> Parser!IsPacket(Parser!Packet)
         /\ Parser!IsPacket(Parser!Packet) <=> Parser!UsedBy(Parser!Fields)[Len(Parser!Fields)] <= MaxSource - 2
  <1>1. /\ Parser!TheFile.readable /\ Parser!TheFile.events = Parser!Whole /\ Parser!KeysUnique[Parser!Root]
        /\ Parser!Root.kind = "object" /\ Parser!KeysOf(Parser!Root) = {"schemaVersion", "packet"}
        /\ Parser!IsUnsigned16(Parser!Get(Parser!Root, "schemaVersion"), 1)
        /\ Parser!Unsigned16(Parser!Get(Parser!Root, "schemaVersion")) = 1
        /\ Parser!Packet.kind = "object"
        /\ Parser!KeysOf(Parser!Packet) = {"name", "id", "payloadVersion", "fields"}
        /\ Parser!IsName(Parser!Get(Parser!Packet, "name"))
        /\ Parser!IsUnsigned16(Parser!Get(Parser!Packet, "id"), 0)
        /\ Parser!IsUnsigned16(Parser!Get(Parser!Packet, "payloadVersion"), 1)
        /\ Parser!Get(Parser!Packet, "fields").kind = "array"
    BY DEF Passed, AfterScan, AfterRoot, AfterMembers, AfterSchemaVersion, AfterSupported, AfterPacket,
           AfterPacketMembers, AfterName, AfterId, AfterVersion, AfterFields
  <1>2. /\ Parser!Get(Parser!Root, "schemaVersion") \in JsonValues /\ Parser!Packet \in JsonValues
        /\ Parser!Get(Parser!Packet, "name") \in JsonValues /\ Parser!Get(Parser!Packet, "id") \in JsonValues
        /\ Parser!Get(Parser!Packet, "payloadVersion") \in JsonValues /\ Parser!Fields \in Seq(JsonValues)
    <2>1. AfterFields \subseteq AfterPacketMembers /\ AfterPacketMembers \subseteq AfterMembers
      BY DEF AfterMembers, AfterSchemaVersion, AfterSupported, AfterPacket, AfterPacketMembers,
             AfterName, AfterId, AfterVersion
    <2> QED
      BY <2>1, PartsKnown
  <1>3. Parser!Get(Parser!Root, "schemaVersion") = Parser!Number(1)
    BY <1>1, <1>2, NumberIs
  <1>4. /\ Parser!Get(Parser!Packet, "name").kind = "string"
        /\ Parser!Get(Parser!Packet, "name") # Parser!Text("")
        /\ \E n \in 0..Max16 : Parser!Get(Parser!Packet, "id") = Parser!Number(n)
        /\ \E n \in 1..Max16 : Parser!Get(Parser!Packet, "payloadVersion") = Parser!Number(n)
    BY <1>1, <1>2, NameIs, NumberIs
  <1>5. /\ DOMAIN Parser!Fields = 1..Len(Parser!Fields)
        /\ Parser!Fields = Parser!Get(Parser!Packet, "fields").items
    BY <1>2 DEF Parser!Fields
  <1>6. Parser!IsSchema(Parser!TheFile) <=> Parser!IsPacket(Parser!Packet)
    BY <1>1, <1>3 DEF Parser!IsSchema, Parser!Root, Parser!Packet
  <1> QED
    BY <1>1, <1>4, <1>5, <1>6 DEF Parser!IsPacket, Legal
-----------------------------------------------------------------------------
LEMMA AfterAre ==
  /\ AfterBatch = {"build"} /\ AfterField = {"batch", "build"} /\ AfterFields = {"field", "batch", "build"}
  /\ AfterVersion = {"fields", "field", "batch", "build"}
  /\ AfterId = {"payload version", "fields", "field", "batch", "build"}
  /\ AfterName = {"id", "payload version", "fields", "field", "batch", "build"}
  /\ AfterPacketMembers = {"name", "id", "payload version", "fields", "field", "batch", "build"}
  /\ AfterPacket = {"packet properties", "name", "id", "payload version", "fields", "field", "batch", "build"}
  /\ AfterSupported = {"packet"} \union AfterPacket
  /\ AfterSchemaVersion = {"supported version", "packet"} \union AfterPacket
  /\ AfterMembers = {"schema version", "supported version", "packet"} \union AfterPacket
  /\ AfterRoot = {"root properties", "schema version", "supported version", "packet"} \union AfterPacket
  /\ AfterScan = {"root", "root properties", "schema version", "supported version", "packet"} \union AfterPacket
  /\ CompilerSteps = {"read", "scan", "end"} \union AfterScan
  BY DEF AfterRoot, AfterMembers, AfterSchemaVersion, AfterSupported, AfterPacket, AfterPacketMembers,
         AfterName, AfterId, AfterVersion, AfterFields, AfterField, AfterBatch, AfterScan, CompilerSteps

LEMMA FileIs ==
  ASSUME CompilerType, inputs # <<>>
  PROVE  current \in DOMAIN inputs /\ Parser!TheFile \in JsonFile /\ Parser!Root \in JsonValues
  <1>1. current \in 1..Len(inputs) /\ DOMAIN inputs = 1..Len(inputs)
    BY DEF CompilerType
  <1>2. Parser!TheFile \in JsonFile
    BY <1>1 DEF CompilerType, Parser!TheFile
  <1> QED
    BY <1>1, <1>2 DEF JsonFile, Parser!Root

\* A file that is refused ends it all.
LEMMA Refuse ==
  ASSUME CompilerInv, inputs # <<>>, scan # "end", current \in Parser!Bad, NEW id, NEW path,
         Parser!Fail(id, path),
         UNCHANGED <<inputs, current, packets, out>>, names' \in Seq(STRING),
         Parser!TheFile.readable /\ Parser!TheFile.events = Parser!Whole =>
              (id = "DuplicateKey" <=> ~Parser!KeysUnique[Parser!TheFile.value])
  PROVE  CompilerInv'
  <1>1. scan' = "end" /\ diagnostics = <<>> /\ parsed' \in {"io", "invalid data"}
        /\ diagnostics' = Append(diagnostics, [id |-> id, file |-> current, path |-> path])
    BY DEF CompilerInv, EndInv, Parser!Fail
  <1>2. Parser!TheFile' = Parser!TheFile /\ Parser!Bad' = Parser!Bad
    BY DEF Parser!TheFile, Parser!Bad
  <1>3. CompilerType'
    BY <1>1 DEF CompilerInv, CompilerType, CompilerSteps
  <1>4. Passed(scan)'
    BY <1>1, AfterAre DEF Passed
  <1>5. FieldsInv' /\ ScanInv'
    BY <1>1, AfterAre DEF FieldsInv, ScanInv
  <1>6. PriorInv'
    <2>1. scan' = "end" /\ packets' = packets /\ inputs' = inputs /\ Parser!Bad' = Parser!Bad
      BY <1>1, <1>2
    <2>2. \A n \in 1..Len(packets) : n \in DOMAIN inputs /\ n \notin Parser!Bad /\ Describes(packets[n], inputs[n])
      BY DEF CompilerInv, PriorInv
    <2>3. \A n \in 1..Len(packets') : n \in DOMAIN inputs' /\ n \notin Parser!Bad' /\ Describes(packets'[n], inputs'[n])
      BY <2>1, <2>2
    <2>4. packets \in Seq(Descriptor)
      BY DEF CompilerInv, PriorInv
    <2> QED
      BY <2>1, <2>3, <2>4 DEF PriorInv
  <1>7. RefusedInv'
    <2>1. PICK d : d = [id |-> id, file |-> current, path |-> path]
      OBVIOUS
    <2>4. Len(Append(<<>>, d)) = 1 /\ Append(<<>>, d)[1] = d
      OBVIOUS
    <2>5. diagnostics' = Append(<<>>, d)
      BY <1>1, <2>1
    <2>2. Len(diagnostics') = 1 /\ diagnostics'[1].id = id /\ diagnostics'[1].file = current
      BY <2>1, <2>4, <2>5
    <2>3. Len(packets) = current - 1 /\ out = Parser!Untouched
      BY DEF CompilerInv, PriorInv, EndInv
    <2> QED
      BY <1>1, <1>2, <2>2, <2>3 DEF RefusedInv
  <1>8. EndInv'
    BY <1>1, <1>7 DEF EndInv
  <1> QED
    BY <1>3, <1>4, <1>5, <1>6, <1>8 DEF CompilerInv

\* On to a later step with the same file.
LEMMA Advance ==
  ASSUME CompilerInv, inputs # <<>>, scan \notin {"end", "build"}, UNCHANGED <<Parser!batchVars,
         diagnostics, parsed>>,
         scan' \in CompilerSteps \ {"build", "end"}, names' \in Seq(STRING), Passed(scan)', FieldsInv', ScanInv'
  PROVE  CompilerInv'
  <1>1. CompilerType'
    BY DEF CompilerInv, CompilerType, Parser!batchVars
  <1>2. Parser!Bad' = Parser!Bad
    BY DEF Parser!Bad, Parser!batchVars
  <1>3. PriorInv'
    BY <1>2 DEF CompilerInv, PriorInv, Parser!batchVars
  <1>4. EndInv'
    BY DEF CompilerInv, EndInv, Parser!batchVars
  <1> QED
    BY <1>1, <1>3, <1>4 DEF CompilerInv

LEMMA BadIs ==
  ASSUME CompilerType, inputs # <<>>, ~Parser!IsSchema(Parser!TheFile)
  PROVE  current \in Parser!Bad
  BY FileIs DEF Parser!Bad, Parser!TheFile

\* A condition of a legal file.
LEMMA CheckKeeps ==
  ASSUME CompilerInv, inputs # <<>>, NEW at \in AfterScan \ AfterFields, NEW holds, NEW id, NEW path,
         NEW following \in AfterScan \ AfterField,
         Parser!Check(at, holds, id, path, following), id # "DuplicateKey",
         holds => Passed(following), Parser!IsSchema(Parser!TheFile) => holds
  PROVE  CompilerInv'
  <1>1. scan = at /\ scan \notin {"read", "scan", "end", "field", "batch", "build"}
    BY AfterAre DEF Parser!Check
  <1>2. UNCHANGED <<inputs, current, packets, out, names, Parser!batchVars>> /\ names \in Seq(STRING)
    BY DEF Parser!Check, Parser!batchVars, CompilerInv, CompilerType
  <1>3. CASE holds
    <2>1. scan' = following /\ UNCHANGED <<diagnostics, parsed>>
      BY <1>3 DEF Parser!Check
    <2>2. scan' \in CompilerSteps \ {"build", "end", "scan", "read"}
      BY <2>1, AfterAre
    <2>3. Passed(scan)'
      BY <1>2, <1>3, <2>1 DEF Passed, Parser!TheFile, Parser!Root, Parser!Packet
    <2>4. names = <<>>
      BY <1>1, AfterAre DEF CompilerInv, FieldsInv, CompilerType
    <2>5. FieldsInv'
      <3>1. Len(names') = 0 /\ names' = <<>> /\ scan' \notin AfterField
        BY <1>2, <2>1, <2>4
      <3>2. scan' \in AfterFields => Parser!Fields' \in Seq(JsonValues)
        <4>1. Parser!Root \in JsonValues
          BY FileIs DEF CompilerInv
        <4>2. following \in AfterFields => Parser!Fields \in Seq(JsonValues)
          BY <1>3, <4>1, PartsKnown
        <4>3. Parser!Fields' = Parser!Fields
          BY <1>2 DEF Parser!Fields, Parser!Packet, Parser!Root, Parser!TheFile
        <4> QED
          BY <2>1, <4>2, <4>3
      <3>3. scan' \in AfterFields => Len(Parser!Fields') >= 0
        BY <3>2
      <3> QED
        BY <3>1, <3>3 DEF FieldsInv
    <2>6. ScanInv'
      BY <2>2 DEF ScanInv
    <2> QED
      BY <1>1, <1>2, <2>1, <2>2, <2>3, <2>5, <2>6, Advance
  <1>4. CASE ~holds
    <2>1. Parser!Fail(id, path)
      BY <1>4 DEF Parser!Check
    <2>2. Parser!KeysUnique[Parser!TheFile.value]
      BY <1>1 DEF CompilerInv, Passed, Parser!Root, CompilerType, Parser!Check
    <2>3. current \in Parser!Bad
      BY <1>4, BadIs DEF CompilerInv
    <2> QED
      BY <1>1, <1>2, <2>1, <2>2, <2>3, Refuse
  <1> QED
    BY <1>3, <1>4

\* Each check keeps the invariant.
LEMMA ChecksKeep ==
  ASSUME CompilerInv, inputs # <<>>,
         \/ Parser!CheckRoot \/ Parser!CheckMembers \/ Parser!CheckVersion \/ Parser!CheckSupported
         \/ Parser!CheckPacket \/ Parser!CheckPacketMembers
         \/ Parser!CheckName \/ Parser!CheckId \/ Parser!CheckPayloadVersion \/ Parser!CheckFields
  PROVE  CompilerInv'
  <1>1. Parser!Root \in JsonValues /\ Passed(scan)
    BY FileIs DEF CompilerInv
  <1>2. ASSUME Parser!CheckRoot PROVE CompilerInv'
    <2>1. scan = "root"
      BY <1>2 DEF Parser!CheckRoot, Parser!Check
    <2>2. Parser!Root.kind = "object" => Passed("root properties")
      BY <1>1, <2>1, AfterAre DEF Passed
    <2>3. Parser!IsSchema(Parser!TheFile) => Parser!Root.kind = "object"
      BY <1>1, LegalPasses
    <2>4. "root" \in AfterScan \ AfterFields /\ "root properties" \in AfterScan \ AfterField
      BY AfterAre
    <2> QED
      BY <1>2, <2>2, <2>3, <2>4, CheckKeeps DEF Parser!CheckRoot
  <1>3. ASSUME Parser!CheckMembers PROVE CompilerInv'
    <2>1. scan = "root properties"
      BY <1>3 DEF Parser!CheckMembers, Parser!Check
    <2>2. Parser!HasProperties(Parser!Root, {"schemaVersion", "packet"}) => Passed("schema version")
      BY <1>1, <2>1, AfterAre DEF Parser!HasProperties, Passed
    <2>3. Parser!IsSchema(Parser!TheFile) => Parser!HasProperties(Parser!Root, {"schemaVersion", "packet"})
      BY <1>1, LegalPasses
    <2>4. "root properties" \in AfterScan \ AfterFields /\ "schema version" \in AfterScan \ AfterField
      BY AfterAre
    <2> QED
      BY <1>3, <2>2, <2>3, <2>4, CheckKeeps DEF Parser!CheckMembers
  <1>4. ASSUME Parser!CheckVersion PROVE CompilerInv'
    <2>1. scan = "schema version"
      BY <1>4 DEF Parser!CheckVersion, Parser!Check
    <2>2. Parser!IsUnsigned16(Parser!Get(Parser!Root, "schemaVersion"), 1) => Passed("supported version")
      BY <1>1, <2>1, AfterAre DEF Passed
    <2>3. Parser!IsSchema(Parser!TheFile) => Parser!IsUnsigned16(Parser!Get(Parser!Root, "schemaVersion"), 1)
      BY <1>1, LegalPasses
    <2>4. "schema version" \in AfterScan \ AfterFields /\ "supported version" \in AfterScan \ AfterField
      BY AfterAre
    <2> QED
      BY <1>4, <2>2, <2>3, <2>4, CheckKeeps DEF Parser!CheckVersion
  <1>5. ASSUME Parser!CheckSupported PROVE CompilerInv'
    <2>1. scan = "supported version"
      BY <1>5 DEF Parser!CheckSupported, Parser!Check
    <2>2. Parser!Unsigned16(Parser!Get(Parser!Root, "schemaVersion")) = 1 => Passed("packet")
      BY <1>1, <2>1, AfterAre DEF Passed
    <2>3. Parser!IsSchema(Parser!TheFile) => Parser!Unsigned16(Parser!Get(Parser!Root, "schemaVersion")) = 1
      BY <1>1, LegalPasses
    <2>4. "supported version" \in AfterScan \ AfterFields /\ "packet" \in AfterScan \ AfterField
      BY AfterAre
    <2> QED
      BY <1>5, <2>2, <2>3, <2>4, CheckKeeps DEF Parser!CheckSupported
  <1>6. ASSUME Parser!CheckPacket PROVE CompilerInv'
    <2>1. scan = "packet"
      BY <1>6 DEF Parser!CheckPacket, Parser!Check
    <2>2. Parser!Packet.kind = "object" => Passed("packet properties")
      BY <1>1, <2>1, AfterAre DEF Passed
    <2>3. Parser!IsSchema(Parser!TheFile) => Parser!Packet.kind = "object"
      BY <1>1, LegalPasses
    <2>4. "packet" \in AfterScan \ AfterFields /\ "packet properties" \in AfterScan \ AfterField
      BY AfterAre
    <2> QED
      BY <1>6, <2>2, <2>3, <2>4, CheckKeeps DEF Parser!CheckPacket
  <1>7. ASSUME Parser!CheckPacketMembers PROVE CompilerInv'
    <2>1. scan = "packet properties"
      BY <1>7 DEF Parser!CheckPacketMembers, Parser!Check
    <2>2. Parser!HasProperties(Parser!Packet, {"name", "id", "payloadVersion", "fields"}) => Passed("name")
      BY <1>1, <2>1, AfterAre DEF Parser!HasProperties, Passed
    <2>3. Parser!IsSchema(Parser!TheFile) => Parser!HasProperties(Parser!Packet, {"name", "id", "payloadVersion", "fields"})
      BY <1>1, LegalPasses
    <2>4. "packet properties" \in AfterScan \ AfterFields /\ "name" \in AfterScan \ AfterField
      BY AfterAre
    <2> QED
      BY <1>7, <2>2, <2>3, <2>4, CheckKeeps DEF Parser!CheckPacketMembers
  <1>8. ASSUME Parser!CheckName PROVE CompilerInv'
    <2>1. scan = "name"
      BY <1>8 DEF Parser!CheckName, Parser!Check
    <2>2. Parser!IsName(Parser!Get(Parser!Packet, "name")) => Passed("id")
      BY <1>1, <2>1, AfterAre DEF Passed
    <2>3. Parser!IsSchema(Parser!TheFile) => Parser!IsName(Parser!Get(Parser!Packet, "name"))
      BY <1>1, LegalPasses
    <2>4. "name" \in AfterScan \ AfterFields /\ "id" \in AfterScan \ AfterField
      BY AfterAre
    <2> QED
      BY <1>8, <2>2, <2>3, <2>4, CheckKeeps DEF Parser!CheckName
  <1>9. ASSUME Parser!CheckId PROVE CompilerInv'
    <2>1. scan = "id"
      BY <1>9 DEF Parser!CheckId, Parser!Check
    <2>2. Parser!IsUnsigned16(Parser!Get(Parser!Packet, "id"), 0) => Passed("payload version")
      BY <1>1, <2>1, AfterAre DEF Passed
    <2>3. Parser!IsSchema(Parser!TheFile) => Parser!IsUnsigned16(Parser!Get(Parser!Packet, "id"), 0)
      BY <1>1, LegalPasses
    <2>4. "id" \in AfterScan \ AfterFields /\ "payload version" \in AfterScan \ AfterField
      BY AfterAre
    <2> QED
      BY <1>9, <2>2, <2>3, <2>4, CheckKeeps DEF Parser!CheckId
  <1>10. ASSUME Parser!CheckPayloadVersion PROVE CompilerInv'
    <2>1. scan = "payload version"
      BY <1>10 DEF Parser!CheckPayloadVersion, Parser!Check
    <2>2. Parser!IsUnsigned16(Parser!Get(Parser!Packet, "payloadVersion"), 1) => Passed("fields")
      BY <1>1, <2>1, AfterAre DEF Passed
    <2>3. Parser!IsSchema(Parser!TheFile) => Parser!IsUnsigned16(Parser!Get(Parser!Packet, "payloadVersion"), 1)
      BY <1>1, LegalPasses
    <2>4. "payload version" \in AfterScan \ AfterFields /\ "fields" \in AfterScan \ AfterField
      BY AfterAre
    <2> QED
      BY <1>10, <2>2, <2>3, <2>4, CheckKeeps DEF Parser!CheckPayloadVersion
  <1>11. ASSUME Parser!CheckFields PROVE CompilerInv'
    <2>1. scan = "fields"
      BY <1>11 DEF Parser!CheckFields, Parser!Check
    <2>2. Parser!Get(Parser!Packet, "fields").kind = "array" => Passed("field")
      BY <1>1, <2>1, AfterAre DEF Passed
    <2>3. Parser!IsSchema(Parser!TheFile) => Parser!Get(Parser!Packet, "fields").kind = "array"
      BY <1>1, LegalPasses
    <2>4. "fields" \in AfterScan \ AfterFields /\ "field" \in AfterScan \ AfterField
      BY AfterAre
    <2> QED
      BY <1>11, <2>2, <2>3, <2>4, CheckKeeps DEF Parser!CheckFields
  <1> QED
    BY <1>2, <1>3, <1>4, <1>5, <1>6, <1>7, <1>8, <1>9, <1>10, <1>11
-----------------------------------------------------------------------------
LEMMA AppendIs ==
  ASSUME NEW S, NEW q \in Seq(S), NEW e \in S
  PROVE  /\ Append(q, e) \in Seq(S) /\ Len(Append(q, e)) = Len(q) + 1
         /\ \A n \in 1..Len(q) : Append(q, e)[n] = q[n]
         /\ Append(q, e)[Len(q) + 1] = e
  OBVIOUS

LEMMA FieldIs ==
  ASSUME NEW v \in JsonValues
  PROVE  /\ Parser!IsField(v) <=> /\ v.kind = "object" /\ Parser!HasProperties(v, {"name", "type"})
                                  /\ Parser!IsName(Parser!Get(v, "name"))
                                  /\ Parser!Get(v, "type").kind = "string"
                                  /\ Parser!TypeOf(v) \in DOMAIN Parser!SizeOf
         /\ Parser!IsField(v) => /\ Parser!NameOf(v) \in STRING
                                 /\ Parser!Text(Parser!NameOf(v)) = Parser!Get(v, "name")
                                 /\ Parser!TypeOf(v) \in STRING
                                 /\ Parser!Text(Parser!TypeOf(v)) = Parser!Get(v, "type")
                                 /\ Parser!TypeOf(v) \in DOMAIN Parser!SizeOf
  <1>1. CASE ~(v.kind = "object" /\ Parser!KeysOf(v) = {"name", "type"})
    BY <1>1 DEF Parser!IsField, Parser!HasProperties
  <1>2. CASE v.kind = "object" /\ Parser!KeysOf(v) = {"name", "type"}
    <2>1. Parser!Get(v, "name") \in JsonValues /\ Parser!Get(v, "type") \in JsonValues
      BY <1>2, GetIs
    <2>2. /\ Parser!IsName(Parser!Get(v, "name")) <=>
              Parser!Get(v, "name").kind = "string" /\ Parser!Get(v, "name") # Parser!Text("")
          /\ Parser!Get(v, "name").kind = "string" =>
                Parser!Text(Parser!NameOf(v)) = Parser!Get(v, "name") /\ Parser!NameOf(v) \in STRING
          /\ Parser!Get(v, "type").kind = "string" =>
                Parser!Text(Parser!TypeOf(v)) = Parser!Get(v, "type") /\ Parser!TypeOf(v) \in STRING
      BY <2>1, NameIs DEF Parser!NameOf, Parser!TypeOf
    <2>3. ASSUME NEW t \in DOMAIN Parser!SizeOf, Parser!Get(v, "type") = Parser!Text(t)
          PROVE  Parser!Get(v, "type").kind = "string" /\ Parser!TypeOf(v) = t
      BY <2>3 DEF Parser!Text, Parser!TypeOf
    <2>4. (\E t \in DOMAIN Parser!SizeOf : Parser!Get(v, "type") = Parser!Text(t)) <=>
              Parser!Get(v, "type").kind = "string" /\ Parser!TypeOf(v) \in DOMAIN Parser!SizeOf
      BY <2>2, <2>3
    <2> QED
      BY <1>2, <2>2, <2>4 DEF Parser!IsField, Parser!HasProperties
  <1> QED
    BY <1>1, <1>2

LEMMA SchemaFields ==
  ASSUME Parser!Root \in JsonValues, Parser!IsSchema(Parser!TheFile)
  PROVE  Parser!Fields \in Seq(JsonValues) /\ Legal(Parser!Fields)
  <1>1. /\ Parser!Packet \in JsonValues /\ Parser!IsPacket(Parser!Packet)
        /\ Parser!Get(Parser!Packet, "fields") \in JsonValues
        /\ Parser!Get(Parser!Packet, "fields").kind = "array"
    <2>1. /\ Parser!Root.kind = "object" /\ Parser!KeysOf(Parser!Root) = {"schemaVersion", "packet"}
          /\ Parser!IsPacket(Parser!Packet)
      BY DEF Parser!IsSchema, Parser!Root, Parser!Packet
    <2>2. Parser!Packet \in JsonValues
      BY <2>1, GetIs DEF Parser!Packet
    <2>3. /\ Parser!Packet.kind = "object"
          /\ Parser!KeysOf(Parser!Packet) = {"name", "id", "payloadVersion", "fields"}
          /\ Parser!Get(Parser!Packet, "fields").kind = "array"
      BY <2>1 DEF Parser!IsPacket
    <2> QED
      BY <2>1, <2>2, <2>3, GetIs
  <1>2. PICK items \in Seq(JsonValues) : items = Parser!Fields
    BY <1>1, ValueKinds DEF Parser!Fields
  <1>3. /\ \A n \in DOMAIN items : Parser!IsField(items[n])
        /\ \A m, n \in DOMAIN items : m # n => Parser!Get(items[m], "name") # Parser!Get(items[n], "name")
    BY <1>1, <1>2 DEF Parser!IsPacket, Parser!Fields
  <1>4. DOMAIN items = 1..Len(items)
    OBVIOUS
  <1> QED
    BY <1>2, <1>3, <1>4 DEF Legal

\* The next field of a legal file is legal and has a name of its own.
LEMMA NextField ==
  ASSUME Parser!Root \in JsonValues, FieldsInv, Passed(scan), CompilerType, scan = "field",
         Len(names) < Len(Parser!Fields)
  PROVE  /\ Parser!Fields \in Seq(JsonValues) /\ Parser!TheField \in JsonValues
         /\ Len(names) \in Nat /\ Len(names) + 1 \in 1..Len(Parser!Fields)
         /\ Parser!IsSchema(Parser!TheFile) => /\ Parser!IsField(Parser!TheField)
                                               /\ \A n \in 1..Len(names) : names[n] # Parser!NameOf(Parser!TheField)
  <1>1. Parser!Fields \in Seq(JsonValues)
    BY PartsKnown, AfterAre
  <1>2. Len(names) \in Nat /\ Len(names) + 1 \in 1..Len(Parser!Fields)
    BY <1>1 DEF CompilerType
  <1>3. Parser!TheField \in JsonValues
    BY <1>1, <1>2 DEF Parser!TheField
  <1>4. ASSUME Parser!IsSchema(Parser!TheFile)
        PROVE  /\ Parser!IsField(Parser!TheField)
               /\ \A n \in 1..Len(names) : names[n] # Parser!NameOf(Parser!TheField)
    <2>1. Legal(Parser!Fields)
      BY <1>4, SchemaFields
    <2>2. Parser!IsField(Parser!TheField)
      BY <1>2, <2>1 DEF Legal, Parser!TheField
    <2>3. ASSUME NEW n \in 1..Len(names) PROVE names[n] # Parser!NameOf(Parser!TheField)
      <3>1. n \in 1..Len(Parser!Fields) /\ n # Len(names) + 1
        BY <1>2
      <3>4. \A i \in 1..Len(names) : Parser!IsField(Parser!Fields[i]) /\ names[i] = Parser!NameOf(Parser!Fields[i])
        BY AfterAre DEF FieldsInv
      <3>5. Parser!Fields[n] \in JsonValues
        BY <1>1, <3>1
      <3>2. /\ Parser!Fields[n] \in JsonValues /\ Parser!IsField(Parser!Fields[n])
            /\ names[n] = Parser!NameOf(Parser!Fields[n])
        BY <3>4, <3>5
      <3>3. Parser!Get(Parser!Fields[n], "name") # Parser!Get(Parser!TheField, "name")
        BY <1>2, <2>1, <3>1 DEF Legal, Parser!TheField
      <3> QED
        BY <1>3, <2>2, <3>2, <3>3, FieldIs
    <2> QED
      BY <2>2, <2>3
  <1> QED
    BY <1>1, <1>2, <1>3, <1>4

LEMMA FieldKeeps ==
  ASSUME CompilerInv, inputs # <<>>, Parser!ParseField
  PROVE  CompilerInv'
  <1>1. scan = "field" /\ Len(names) < Len(Parser!Fields) /\ UNCHANGED Parser!batchVars
        /\ UNCHANGED <<inputs, current, packets, out>>
    BY DEF Parser!ParseField, Parser!batchVars
  <1>2. Parser!Root \in JsonValues /\ CompilerType /\ FieldsInv /\ Passed(scan)
    BY FileIs DEF CompilerInv
  <1>3. /\ Parser!Fields \in Seq(JsonValues) /\ Parser!TheField \in JsonValues
        /\ Len(names) \in Nat /\ Len(names) + 1 \in 1..Len(Parser!Fields) /\ DOMAIN names = 1..Len(names)
        /\ Parser!IsSchema(Parser!TheFile) => /\ Parser!IsField(Parser!TheField)
                                              /\ \A n \in 1..Len(names) : names[n] # Parser!NameOf(Parser!TheField)
    BY <1>1, <1>2, NextField DEF CompilerType
  <1>4. Parser!KeysUnique[Parser!TheFile.value]
    BY <1>1, <1>2, AfterAre DEF Passed, Parser!Root
  <1>5. ASSUME NEW id, NEW path, id # "DuplicateKey", Parser!Fail(id, path), UNCHANGED names,
               ~Parser!IsSchema(Parser!TheFile)
        PROVE  CompilerInv'
    <2>1. current \in Parser!Bad
      BY <1>2, <1>5, BadIs
    <2>2. names' \in Seq(STRING)
      BY <1>2, <1>5 DEF CompilerType
    <2> QED
      BY <1>1, <1>4, <1>5, <2>1, <2>2, Refuse
  <1>6. ASSUME Parser!IsField(Parser!TheField),
               \A n \in 1..Len(names) : names[n] # Parser!NameOf(Parser!TheField),
               names' = Append(names, Parser!NameOf(Parser!TheField)), UNCHANGED <<scan, diagnostics, parsed>>
        PROVE  CompilerInv'
    <2>1. UNCHANGED <<Parser!Fields, Parser!Root, Parser!TheFile>>
      BY <1>1 DEF Parser!Fields, Parser!Packet, Parser!Root, Parser!TheFile
    <2>2. PICK name \in STRING : name = Parser!NameOf(Parser!TheField)
      BY <1>3, <1>6, FieldIs
    <2>3. names \in Seq(STRING) /\ names' = Append(names, name)
      BY <1>2, <1>6, <2>2 DEF CompilerType
    <2>4. /\ names' \in Seq(STRING) /\ Len(names') = Len(names) + 1
          /\ \A n \in 1..Len(names) : names'[n] = names[n]
          /\ names'[Len(names) + 1] = name
      BY <2>3, AppendIs
    <2>5. Passed(scan)'
      BY <1>1, <1>2, <1>6 DEF Passed, Parser!TheFile, Parser!Root, Parser!Packet
    <2>6. FieldsInv'
      <3>1. scan' = "field" /\ "field" \in AfterFields /\ "field" \notin AfterField
        BY <1>1, <1>6, AfterAre
      <3>2. Len(names') <= Len(Parser!Fields')
        BY <1>3, <2>1, <2>4
      <3>3. \A n \in 1..Len(names) : Parser!IsField(Parser!Fields[n]) /\ names[n] = Parser!NameOf(Parser!Fields[n])
        BY <1>1, <1>2, AfterAre DEF FieldsInv
      <3>4. \A m, n \in 1..Len(names) : names[m] = names[n] => m = n
        BY <1>1, <1>2, AfterAre DEF FieldsInv
      <3>5. ASSUME NEW n \in 1..Len(names')
            PROVE  Parser!IsField(Parser!Fields'[n]) /\ names'[n] = Parser!NameOf(Parser!Fields'[n])
        <4>1. CASE n \in 1..Len(names)
          BY <2>1, <2>4, <3>3, <4>1
        <4>2. CASE n = Len(names) + 1
          BY <1>6, <2>1, <2>2, <2>4, <4>2 DEF Parser!TheField
        <4> QED
          BY <1>3, <2>4, <4>1, <4>2
      <3>6. ASSUME NEW m \in 1..Len(names'), NEW n \in 1..Len(names'), names'[m] = names'[n] PROVE m = n
        <4>1. \A i \in 1..Len(names') : i \in 1..Len(names) \/ i = Len(names) + 1
          BY <1>3, <2>4
        <4>2. \A i \in 1..Len(names) : names'[i] # name
          BY <1>6, <2>2, <2>4
        <4> QED
          BY <2>4, <3>4, <3>6, <4>1, <4>2
      <3> QED
        BY <3>1, <3>2, <3>5, <3>6, AfterAre DEF FieldsInv
    <2>7. ScanInv'
      BY <1>1, <1>6 DEF ScanInv
    <2>8. /\ scan \notin {"end", "build"} /\ scan' \in CompilerSteps \ {"build", "end"}
          /\ UNCHANGED <<Parser!batchVars, diagnostics, parsed>>
      BY <1>1, <1>6, AfterAre
    <2> QED
      BY <2>4, <2>5, <2>6, <2>7, <2>8, Advance
  <1>7. Parser!IsField(Parser!TheField) <=> /\ Parser!TheField.kind = "object"
                                            /\ Parser!HasProperties(Parser!TheField, {"name", "type"})
                                            /\ Parser!IsName(Parser!Get(Parser!TheField, "name"))
                                            /\ Parser!Get(Parser!TheField, "type").kind = "string"
                                            /\ Parser!TypeOf(Parser!TheField) \in DOMAIN Parser!SizeOf
    BY <1>3, FieldIs
  <1>8. CASE ~Parser!IsField(Parser!TheField)
    <2>1. ~Parser!IsSchema(Parser!TheFile)
      BY <1>3, <1>8
    <2>2. UNCHANGED names /\ \E id \in {"InvalidSchema", "UnknownFieldType"} : \E path : Parser!Fail(id, path)
      BY <1>7, <1>8 DEF Parser!ParseField, Parser!InvalidField
    <2> QED
      BY <1>5, <2>1, <2>2
  <1>9. CASE Parser!IsField(Parser!TheField) /\ \E n \in DOMAIN names : names[n] = Parser!NameOf(Parser!TheField)
    <2>1. ~Parser!IsSchema(Parser!TheFile)
      BY <1>3, <1>9
    <2>2. UNCHANGED names /\ \E path : Parser!Fail("DuplicateFieldName", path)
      BY <1>7, <1>9 DEF Parser!ParseField, Parser!InvalidField
    <2> QED
      BY <1>5, <2>1, <2>2
  <1>10. CASE Parser!IsField(Parser!TheField) /\ \A n \in DOMAIN names : names[n] # Parser!NameOf(Parser!TheField)
    <2>1. names' = Append(names, Parser!NameOf(Parser!TheField)) /\ UNCHANGED <<scan, diagnostics, parsed>>
      BY <1>7, <1>10 DEF Parser!ParseField
    <2> QED
      BY <1>3, <1>6, <1>10, <2>1
  <1> QED
    BY <1>8, <1>9, <1>10

LEMMA FieldsParsedKeeps ==
  ASSUME CompilerInv, inputs # <<>>, Parser!FieldsParsed
  PROVE  CompilerInv'
  <1>1. /\ scan = "field" /\ scan' = "batch" /\ Len(names) = Len(Parser!Fields)
        /\ UNCHANGED <<Parser!batchVars, diagnostics, parsed>>
        /\ names' = names /\ inputs' = inputs /\ current' = current
    BY DEF Parser!FieldsParsed, Parser!batchVars
  <1>2. UNCHANGED <<Parser!Fields, Parser!Root, Parser!TheFile, Parser!Packet>>
    BY <1>1 DEF Parser!Fields, Parser!Packet, Parser!Root, Parser!TheFile
  <1>3. Passed(scan)'
    BY <1>1, <1>2, AfterAre DEF CompilerInv, Passed
  <1>4. FieldsInv'
    BY <1>1, <1>2, AfterAre DEF CompilerInv, FieldsInv
  <1>5. ScanInv'
    BY <1>1 DEF ScanInv
  <1>6. names' \in Seq(STRING)
    BY <1>1 DEF CompilerInv, CompilerType
  <1>7. scan \notin {"end", "build"} /\ scan' \in CompilerSteps \ {"build", "end"}
    BY <1>1, AfterAre
  <1> QED
    BY <1>1, <1>3, <1>4, <1>5, <1>6, <1>7, Advance
-----------------------------------------------------------------------------
LEMMA RefuseEmptyKeeps ==
  ASSUME CompilerInv, Parser!RefuseEmpty
  PROVE  CompilerInv'
  <1>1. /\ scan = "read" /\ scan' = "end" /\ parsed' = "invalid argument" /\ inputs = <<>>
        /\ UNCHANGED <<inputs, current, packetIds, packetNames, packets, out, names, diagnostics>>
    BY DEF Parser!RefuseEmpty, Parser!batchVars
  <1>2. CompilerType'
    BY <1>1 DEF CompilerInv, CompilerType, CompilerSteps
  <1>3. Passed(scan)' /\ FieldsInv' /\ ScanInv'
    BY <1>1, AfterAre DEF Passed, FieldsInv, ScanInv
  <1>4. PriorInv'
    <2>1. packets = <<>> /\ packets \in Seq(Descriptor) /\ Len(packets) = 0
      BY <1>1 DEF CompilerInv, CompilerType, PriorInv
    <2>2. packets' \in Seq(Descriptor) /\ Len(packets') = 0 /\ inputs' = <<>> /\ scan' = "end"
      BY <1>1, <2>1
    <2>3. 1..Len(packets') = {}
      BY <2>2
    <2> QED
      BY <2>2, <2>3 DEF PriorInv
  <1>5. EndInv'
    BY <1>1 DEF CompilerInv, EndInv
  <1> QED
    BY <1>2, <1>3, <1>4, <1>5 DEF CompilerInv

LEMMA ReadKeeps ==
  ASSUME CompilerInv, inputs # <<>>, Parser!ReadPacketSource
  PROVE  CompilerInv'
  <1>1. scan = "read" /\ UNCHANGED Parser!batchVars /\ UNCHANGED <<inputs, current, packets, out>>
        /\ names' = <<>> /\ walk' = <<>> /\ event' = 0 /\ stack' = <<>> /\ names' \in Seq(STRING)
    BY DEF Parser!ReadPacketSource, Parser!batchVars
  <1>2. CASE ~Parser!TheFile.readable
    <2>1. Parser!Fail("SourceReadFailed", <<>>)
      BY <1>2 DEF Parser!ReadPacketSource
    <2>2. current \in Parser!Bad
      BY <1>2, BadIs DEF Parser!IsSchema, CompilerInv
    <2> QED
      BY <1>1, <1>2, <2>1, <2>2, Refuse
  <1>3. CASE Parser!TheFile.readable
    <2>7. Walking(Parser!Root', <<>>, <<>>)
      BY DEF Walking
    <2>1. scan' = "scan" /\ UNCHANGED <<diagnostics, parsed>>
      BY <1>3 DEF Parser!ReadPacketSource
    <2>2. Parser!TheFile' = Parser!TheFile
      BY <1>1 DEF Parser!TheFile
    <2>3. Passed(scan)'
      BY <1>3, <2>1, <2>2, AfterAre DEF Passed
    <2>4. FieldsInv'
      BY <1>1, <2>1, AfterAre DEF FieldsInv
    <2>5. ScanInv'
      BY <1>1, <2>7 DEF ScanInv, Parser!Walked
    <2>6. scan \notin {"end", "build"} /\ scan' \in CompilerSteps \ {"build", "end"}
      BY <1>1, <2>1, AfterAre
    <2> QED
      BY <1>1, <2>1, <2>3, <2>4, <2>5, <2>6, Advance
  <1> QED
    BY <1>2, <1>3

LEMMA ParseErrorKeeps ==
  ASSUME CompilerInv, inputs # <<>>, Parser!ParseError
  PROVE  CompilerInv'
  <1>1. /\ scan = "scan" /\ UNCHANGED <<inputs, current, packets, out, names>>
        /\ Parser!Fail("InvalidJson", <<>>)
        /\ (event = Parser!TheFile.events \/ Parser!TheFile.events # Parser!Whole)
    BY DEF Parser!ParseError, Parser!batchVars
  <1>2. event \in Nat /\ names' \in Seq(STRING)
    BY <1>1 DEF CompilerInv, ScanInv, CompilerType
  <1>3. Parser!TheFile.events # Parser!Whole
    BY <1>1, <1>2 DEF Parser!Whole
  <1>4. current \in Parser!Bad
    BY <1>3, BadIs DEF Parser!IsSchema, CompilerInv
  <1> QED
    BY <1>1, <1>2, <1>3, <1>4, Refuse

LEMMA ScannedKeeps ==
  ASSUME CompilerInv, inputs # <<>>, Parser!Scanned
  PROVE  CompilerInv'
  <1>1. scan = "scan" /\ scan' = "root" /\ Parser!Walked /\ Parser!TheFile.events = Parser!Whole
        /\ UNCHANGED <<Parser!batchVars, names, diagnostics, parsed, inputs, current>>
    BY DEF Parser!Scanned, Parser!batchVars
  <1>2. Parser!KeysUnique[Parser!Root] /\ Parser!TheFile.readable
    BY <1>1 DEF CompilerInv, ScanInv, Passed
  <1>3. UNCHANGED <<Parser!Root, Parser!TheFile>>
    BY <1>1 DEF Parser!Root, Parser!TheFile
  <1>4. Passed(scan)'
    BY <1>1, <1>2, <1>3, AfterAre DEF Passed
  <1>5. names' = <<>> /\ names' \in Seq(STRING)
    <2>1. "scan" \in CompilerSteps \ (AfterFields \union {"read", "end"})
      BY AfterAre
    <2>2. names = <<>>
      BY <1>1, <2>1 DEF CompilerInv, FieldsInv
    <2> QED
      BY <1>1, <2>2
  <1>6. FieldsInv'
    BY <1>1, <1>5, AfterAre DEF FieldsInv
  <1>7. ScanInv'
    BY <1>1 DEF ScanInv
  <1>8. scan \notin {"end", "build"} /\ scan' \in CompilerSteps \ {"build", "end"}
    BY <1>1, AfterAre
  <1> QED
    BY <1>1, <1>4, <1>5, <1>6, <1>7, <1>8, Advance
-----------------------------------------------------------------------------
LEMMA FrameIs ==
  ASSUME NEW f \in Frame
  PROVE  /\ f.value \in JsonValues /\ f.begun \in Nat /\ f.named \in BOOLEAN
         /\ f.value.kind \in {"object", "array"} /\ Len(Parser!Parts(f.value)) \in Nat
         /\ \A n \in 1..Len(Parser!Parts(f.value)) : Parser!Parts(f.value)[n] \in JsonValues
         /\ Known(f) \in {f.begun, f.begun + 1} /\ (~f.named => Known(f) = f.begun)
         /\ f.named => Known(f) = f.begun + 1
  BY PartsAre DEF Frame, Known

LEMMA MembersAre ==
  ASSUME NEW f \in Frame, f.value.kind = "object"
  PROVE  /\ Len(f.value.members) = Len(Parser!Parts(f.value))
         /\ DOMAIN f.value.members = 1..Len(Parser!Parts(f.value))
         /\ \A n \in 1..Len(Parser!Parts(f.value)) : f.value.members[n].key \in STRING
  <1>1. f.value \in JsonValues
    BY FrameIs
  <1>2. PICK members \in Seq([key : STRING, value : JsonValues]) : members = f.value.members
    BY <1>1, ValueKinds
  <1>3. Len(members) = Len(Parser!Parts(f.value))
    BY <1>1, <1>2, PartsAre
  <1>4. ASSUME NEW n \in 1..Len(members) PROVE members[n].key \in STRING
    <2>1. members[n] \in [key : STRING, value : JsonValues]
      BY ElementOfSeq
    <2> QED
      BY <2>1
  <1> QED
    BY <1>2, <1>3, <1>4

\* The key that comes has been seen before: the object is not unique.
LEMMA SeenBefore ==
  ASSUME NEW c, NEW f \in Frame, FrameInv(c, f, FALSE), f.value.kind = "object", ~f.named,
         f.begun # Len(Parser!Parts(f.value)), f.value.members[f.begun + 1].key \in c.keys
  PROVE  ~Parser!KeysUnique[f.value]
  <1>1. /\ f.value \in JsonValues /\ f.begun \in Nat /\ Len(Parser!Parts(f.value)) \in Nat
        /\ Known(f) = f.begun
        /\ f.begun <= Len(Parser!Parts(f.value)) /\ DOMAIN f.value.members = 1..Len(Parser!Parts(f.value))
    BY FrameIs, MembersAre DEF FrameInv
  <1>2. PICK n \in 1..f.begun : f.value.members[n].key = f.value.members[f.begun + 1].key
    BY <1>1 DEF FrameInv, Matches
  <1>3. n \in DOMAIN f.value.members /\ f.begun + 1 \in DOMAIN f.value.members /\ n # f.begun + 1
    BY <1>1, <1>2
  <1>4. ~OwnKeysDiffer(f.value)
    BY <1>2, <1>3 DEF OwnKeysDiffer
  <1> QED
    BY <1>1, <1>4, KeysUniqueIs

\* The key that comes is new.
LEMMA KeyTaken ==
  ASSUME NEW c, NEW f \in Frame, FrameInv(c, f, FALSE), f.value.kind = "object", ~f.named,
         f.begun # Len(Parser!Parts(f.value)), f.value.members[f.begun + 1].key \notin c.keys,
         NEW d, d.isObject = c.isObject, d.keys = c.keys \union {f.value.members[f.begun + 1].key},
         NEW g \in Frame, g.value = f.value, g.begun = f.begun, g.named = TRUE
  PROVE  FrameInv(d, g, FALSE)
  <1>1. /\ f.begun \in Nat /\ Len(Parser!Parts(f.value)) \in Nat /\ Known(f) = f.begun
        /\ Known(g) = f.begun + 1
        /\ f.begun + 1 <= Len(Parser!Parts(f.value))
    BY FrameIs DEF FrameInv
  <1>2. PICK members : members = f.value.members
    OBVIOUS
  <1>3. /\ c.keys = {members[n].key : n \in 1..f.begun}
        /\ \A m, n \in 1..f.begun : members[m].key = members[n].key => m = n
        /\ members[f.begun + 1].key \notin c.keys
    BY <1>1, <1>2 DEF FrameInv, Matches
  <1>4. \A n \in 1..(f.begun + 1) : n \in 1..f.begun \/ n = f.begun + 1
    BY <1>1
  <1>5. d.keys = {members[n].key : n \in 1..(f.begun + 1)}
    BY <1>1, <1>2, <1>3, <1>4
  <1>6. \A m, n \in 1..(f.begun + 1) : members[m].key = members[n].key => m = n
    BY <1>1, <1>3, <1>4
  <1>7. Matches(d, g)
    BY <1>1, <1>2, <1>5, <1>6 DEF Matches, FrameInv
  <1> QED
    BY <1>1, <1>7 DEF FrameInv

\* The next part begins.
LEMMA PartBegins ==
  ASSUME NEW c, NEW f \in Frame, FrameInv(c, f, FALSE), f.begun # Len(Parser!Parts(f.value)),
         f.value.kind = "object" => f.named,
         NEW d, d.isObject = c.isObject, d.keys = c.keys,
         NEW g \in Frame, g.value = f.value, g.begun = f.begun + 1, g.named = FALSE
  PROVE  /\ FrameInv(d, g, TRUE) /\ g.begun \in 1..Len(Parser!Parts(g.value))
         /\ Parser!KeysUnique[Parser!Parts(f.value)[f.begun + 1]] => FrameInv(d, g, FALSE)
  <1>1. /\ f.begun \in Nat /\ Len(Parser!Parts(f.value)) \in Nat /\ Known(g) = f.begun + 1
        /\ f.begun + 1 <= Len(Parser!Parts(f.value)) /\ f.value.kind \in {"object", "array"}
        /\ f.value.kind = "object" => Known(f) = f.begun + 1
    BY FrameIs DEF FrameInv
  <1>2. Matches(d, g)
    BY <1>1 DEF Matches, FrameInv
  <1>3. \A n \in 1..(f.begun + 1) : n \in 1..f.begun \/ n = f.begun + 1
    BY <1>1
  <1>4. \A n \in 1..f.begun : Parser!KeysUnique[Parser!Parts(f.value)[n]]
    BY DEF FrameInv
  <1> QED
    BY <1>1, <1>2, <1>3, <1>4 DEF FrameInv

LEMMA JustEntered ==
  ASSUME NEW v \in JsonValues, v.kind \in {"object", "array"},
         NEW d, d.isObject = (v.kind = "object"), d.keys = {}
  PROVE  Parser!Entered(v) \in Frame /\ Parser!Entered(v).value = v /\ FrameInv(d, Parser!Entered(v), FALSE)
  <1>1. PICK f : f = Parser!Entered(v)
    OBVIOUS
  <1>2. f.value = v /\ f.begun = 0 /\ f.named = FALSE /\ f \in Frame
    BY <1>1 DEF Parser!Entered, Frame
  <1>3. Known(f) = 0 /\ 1..0 = {} /\ Len(Parser!Parts(v)) \in Nat
    BY <1>2, FrameIs
  <1>4. Matches(d, f)
    BY <1>2, <1>3 DEF Matches
  <1> QED
    BY <1>1, <1>2, <1>3, <1>4 DEF FrameInv

\* All of a container has been read.
LEMMA AllRead ==
  ASSUME NEW c, NEW f \in Frame, FrameInv(c, f, FALSE), f.begun = Len(Parser!Parts(f.value))
  PROVE  Parser!KeysUnique[f.value]
  <1>1. /\ f.value \in JsonValues /\ f.begun \in Nat /\ Known(f) = f.begun
        /\ f.value.kind = "object" => DOMAIN f.value.members = 1..f.begun
    BY FrameIs, MembersAre DEF FrameInv
  <1>2. OwnKeysDiffer(f.value)
    BY <1>1 DEF OwnKeysDiffer, FrameInv, Matches
  <1>3. \A n \in 1..Len(Parser!Parts(f.value)) : Parser!KeysUnique[Parser!Parts(f.value)[n]]
    BY DEF FrameInv
  <1> QED
    BY <1>1, <1>2, <1>3, KeysUniqueIs
-----------------------------------------------------------------------------
LEMMA ReplaceLast ==
  ASSUME NEW S, NEW q \in Seq(S), q # <<>>, NEW e \in S, NEW r, r = [q EXCEPT ![Len(q)] = e]
  PROVE  /\ r \in Seq(S) /\ Len(r) = Len(q) /\ r # <<>> /\ r[Len(q)] = e
         /\ \A n \in 1..(Len(q) - 1) : r[n] = q[n]
  OBVIOUS

LEMMA FrontIs ==
  ASSUME NEW S, NEW q \in Seq(S), q # <<>>, NEW r, r = SubSeq(q, 1, Len(q) - 1)
  PROVE  /\ r \in Seq(S) /\ Len(r) = Len(q) - 1
         /\ \A n \in 1..(Len(q) - 1) : r[n] = q[n]
  <1>1. PICK k \in Nat : k = Len(q) - 1
    OBVIOUS
  <1>2. \A i \in 1..k : q[i] \in S
    BY <1>1
  <1>3. r = SubSeq(q, 1, k)
    BY <1>1
  <1>4. r \in Seq(S) /\ Len(r) = (IF 1 <= k THEN k - 1 + 1 ELSE 0) /\ \A i \in 1..(k - 1 + 1) : r[i] = q[1 + i - 1]
    BY <1>2, <1>3, SubSeqProperties
  <1>5. Len(r) = k
    BY <1>4
  <1>6. ASSUME NEW n \in 1..k PROVE r[n] = q[n]
    <2>1. n \in 1..(k - 1 + 1) /\ 1 + n - 1 = n
      OBVIOUS
    <2> QED
      BY <1>4, <2>1
  <1> QED
    BY <1>1, <1>4, <1>5, <1>6

\* Another state of the innermost container.
LEMMA WalkOn ==
  ASSUME NEW root, NEW c, NEW w, Walking(root, c, w), w # <<>>,
         NEW d \in Open, NEW f \in Frame, f.value = w[Len(w)].value, FrameInv(d, f, FALSE)
  PROVE  Walking(root, [c EXCEPT ![Len(c)] = d], [w EXCEPT ![Len(w)] = f])
  <1>1. w \in Seq(Frame) /\ c \in Seq(Open) /\ Len(c) = Len(w) /\ Len(w) \in Nat \ {0} /\ c # <<>>
    BY DEF Walking
  <1>2. PICK x : x = [w EXCEPT ![Len(w)] = f]
    OBVIOUS
  <1>3. PICK b : b = [c EXCEPT ![Len(c)] = d]
    OBVIOUS
  <1>4. /\ x \in Seq(Frame) /\ Len(x) = Len(w) /\ x # <<>> /\ x[Len(w)] = f
        /\ \A n \in 1..(Len(w) - 1) : x[n] = w[n]
    BY <1>1, <1>2, ReplaceLast
  <1>5. /\ b \in Seq(Open) /\ Len(b) = Len(w) /\ b[Len(w)] = d
        /\ \A n \in 1..(Len(w) - 1) : b[n] = c[n]
    BY <1>1, <1>3, ReplaceLast
  <1>6. \A n \in 1..Len(w) : x[n].value = w[n].value
    BY <1>1, <1>4
  <1>7. x[1].value = root
    BY <1>1, <1>6 DEF Walking
  <1>8. FrameInv(b[Len(x)], x[Len(x)], FALSE)
    BY <1>4, <1>5
  <1>9. \A n \in 1..(Len(x) - 1) : FrameInv(b[n], x[n], TRUE)
    BY <1>1, <1>4, <1>5 DEF Walking
  <1>10. ASSUME NEW n \in 1..(Len(w) - 1) PROVE x[n + 1].value = Parser!Parts(x[n].value)[x[n].begun]
    <2>1. n + 1 \in 1..Len(w) /\ x[n] = w[n]
      BY <1>1, <1>4
    <2> QED
      BY <1>6, <2>1 DEF Walking
  <1>11. Walking(root, b, x)
    BY <1>1, <1>4, <1>5, <1>7, <1>8, <1>9, <1>10 DEF Walking
  <1> QED
    BY <1>2, <1>3, <1>11

\* A container more.
LEMMA WalkInto ==
  ASSUME NEW root, NEW b, NEW x, x \in Seq(Frame), b \in Seq(Open), Len(b) = Len(x),
         NEW d \in Open, NEW f \in Frame, FrameInv(d, f, FALSE),
         x = <<>> => f.value = root,
         x # <<>> => x[1].value = root /\ f.value = Parser!Parts(x[Len(x)].value)[x[Len(x)].begun],
         \A i \in 1..Len(x) : FrameInv(b[i], x[i], TRUE),
         \A i \in 1..(Len(x) - 1) : x[i + 1].value = Parser!Parts(x[i].value)[x[i].begun]
  PROVE  Walking(root, Append(b, d), Append(x, f))
  <1>1. PICK y : y = Append(x, f)
    OBVIOUS
  <1>2. PICK a : a = Append(b, d)
    OBVIOUS
  <1>3. /\ y \in Seq(Frame) /\ Len(y) = Len(x) + 1 /\ y[Len(x) + 1] = f
        /\ \A n \in 1..Len(x) : y[n] = x[n]
    BY <1>1, AppendIs
  <1>4. /\ a \in Seq(Open) /\ Len(a) = Len(x) + 1 /\ a[Len(x) + 1] = d
        /\ \A n \in 1..Len(x) : a[n] = b[n]
    BY <1>2, AppendIs
  <1>5. Len(x) \in Nat /\ (x = <<>> <=> Len(x) = 0)
    OBVIOUS
  <1>6. y[1].value = root
    BY <1>3, <1>5
  <1>7. FrameInv(a[Len(y)], y[Len(y)], FALSE) /\ \A n \in 1..(Len(y) - 1) : FrameInv(a[n], y[n], TRUE)
    <2>1. a[Len(y)] = d /\ y[Len(y)] = f /\ Len(y) - 1 = Len(x)
      BY <1>3, <1>4, <1>5
    <2>2. \A n \in 1..Len(x) : FrameInv(a[n], y[n], TRUE)
      BY <1>3, <1>4
    <2> QED
      BY <2>1, <2>2
  <1>8. ASSUME NEW n \in 1..(Len(y) - 1) PROVE y[n + 1].value = Parser!Parts(y[n].value)[y[n].begun]
    <2>1. CASE n = Len(x)
      BY <1>3, <1>5, <2>1
    <2>2. CASE n \in 1..(Len(x) - 1)
      <3>1. n + 1 \in 1..Len(x) /\ n \in 1..Len(x)
        BY <1>5, <2>2
      <3> QED
        BY <1>3, <2>2, <3>1
    <2> QED
      BY <1>3, <1>5, <2>1, <2>2
  <1>9. Walking(root, a, y)
    BY <1>3, <1>4, <1>6, <1>7, <1>8 DEF Walking
  <1> QED
    BY <1>1, <1>2, <1>9

\* The innermost container ends.
LEMMA WalkOut ==
  ASSUME NEW root, NEW c, NEW w, Walking(root, c, w), w # <<>>, Parser!KeysUnique[w[Len(w)].value]
  PROVE  /\ Walking(root, SubSeq(c, 1, Len(c) - 1), SubSeq(w, 1, Len(w) - 1))
         /\ SubSeq(w, 1, Len(w) - 1) = <<>> => Parser!KeysUnique[root]
  <1>1. w \in Seq(Frame) /\ c \in Seq(Open) /\ Len(c) = Len(w) /\ Len(w) \in Nat \ {0} /\ c # <<>>
    BY DEF Walking
  <1>2. PICK x : x = SubSeq(w, 1, Len(w) - 1)
    OBVIOUS
  <1>3. PICK b : b = SubSeq(c, 1, Len(c) - 1)
    OBVIOUS
  <1>4. /\ x \in Seq(Frame) /\ Len(x) = Len(w) - 1
        /\ \A n \in 1..(Len(w) - 1) : x[n] = w[n]
    BY <1>1, <1>2, FrontIs
  <1>5. /\ b \in Seq(Open) /\ Len(b) = Len(w) - 1
        /\ \A n \in 1..(Len(w) - 1) : b[n] = c[n]
    BY <1>1, <1>3, FrontIs
  <1>6. x # <<>> => x[1].value = root
    <2>1. x # <<>> => Len(x) # 0
      BY <1>4
    <2>2. x # <<>> => 1 \in 1..(Len(w) - 1)
      BY <1>1, <1>4, <2>1
    <2> QED
      BY <1>4, <2>2 DEF Walking
  <1>7. x = <<>> => Parser!KeysUnique[root]
    <2>1. x = <<>> => Len(w) = 1
      <3>1. x = <<>> => Len(x) = 0
        OBVIOUS
      <3>2. PICK k \in Nat : k = Len(w)
        BY <1>1
      <3>3. Len(x) = k - 1
        BY <1>4, <3>2
      <3> QED
        BY <3>1, <3>2, <3>3
    <2> QED
      BY <2>1 DEF Walking
  <1>8. x # <<>> => FrameInv(b[Len(x)], x[Len(x)], FALSE)
    <2>1. SUFFICES ASSUME x # <<>> PROVE FrameInv(b[Len(x)], x[Len(x)], FALSE)
      OBVIOUS
    <2>2. Len(x) # 0
      BY <1>4, <2>1
    <2>3. Len(x) \in 1..(Len(w) - 1) /\ Len(x) + 1 = Len(w)
      BY <1>1, <1>4, <2>2
    <2>4. Parser!KeysUnique[Parser!Parts(w[Len(x)].value)[w[Len(x)].begun]]
      BY <2>3 DEF Walking
    <2>5. FrameInv(c[Len(x)], w[Len(x)], TRUE)
      BY <2>3 DEF Walking
    <2>6. FrameInv(c[Len(x)], w[Len(x)], FALSE)
      BY <2>4, <2>5 DEF FrameInv
    <2> QED
      BY <1>4, <1>5, <2>3, <2>6
  <1>11. ASSUME NEW n \in 1..(Len(x) - 1) PROVE FrameInv(b[n], x[n], TRUE)
    <2>1. n \in 1..(Len(w) - 1)
      BY <1>1, <1>4
    <2>2. x[n] = w[n] /\ b[n] = c[n]
      BY <1>4, <1>5, <2>1
    <2> QED
      BY <2>1, <2>2 DEF Walking
  <1>9. ASSUME NEW n \in 1..(Len(x) - 1) PROVE x[n + 1].value = Parser!Parts(x[n].value)[x[n].begun]
    <2>1. n \in 1..(Len(w) - 1) /\ n + 1 \in 1..(Len(w) - 1)
      BY <1>1, <1>4
    <2> QED
      BY <1>4, <2>1 DEF Walking
  <1>10. Walking(root, b, x)
    BY <1>1, <1>4, <1>5, <1>6, <1>8, <1>9, <1>11 DEF Walking
  <1> QED
    BY <1>2, <1>3, <1>7, <1>10

\* What is not unique inside is not unique.
LEMMA NotUniqueInside ==
  ASSUME NEW root, NEW c, NEW w, Walking(root, c, w), w # <<>>, ~Parser!KeysUnique[w[Len(w)].value]
  PROVE  ~Parser!KeysUnique[root]
  <1>1. w \in Seq(Frame) /\ Len(w) \in Nat \ {0} /\ w[1].value = root
    BY DEF Walking
  <1>2. SUFFICES ASSUME Parser!KeysUnique[root] PROVE FALSE
    OBVIOUS
  <1>3. PICK T : T = {n \in Nat : n + 1 \in 1..Len(w) => Parser!KeysUnique[w[n + 1].value]}
    OBVIOUS
  <1>4. 0 \in T
    BY <1>1, <1>2, <1>3
  <1>5. ASSUME NEW n \in Nat, n \in T PROVE n + 1 \in T
    <2>1. SUFFICES ASSUME n + 2 \in 1..Len(w) PROVE Parser!KeysUnique[w[n + 2].value]
      BY <1>3
    <2>2. n + 1 \in 1..(Len(w) - 1) /\ n + 1 \in 1..Len(w) /\ n + 1 < Len(w) /\ (n + 1) + 1 = n + 2
      BY <1>1, <2>1
    <2>3. PICK f \in Frame : f = w[n + 1]
      BY <1>1, <2>2
    <2>4. Parser!KeysUnique[f.value]
      BY <1>3, <1>5, <2>2, <2>3
    <2>5. FrameInv(c[n + 1], f, TRUE)
      <3>1. \A i \in 1..(Len(w) - 1) : FrameInv(c[i], w[i], TRUE)
        BY DEF Walking
      <3> QED
        BY <2>2, <2>3, <3>1
    <2>6. f.begun \in 1..Len(Parser!Parts(f.value))
      BY <2>5, FrameIs DEF FrameInv
    <2>7. Parser!KeysUnique[Parser!Parts(f.value)[f.begun]]
      BY <2>4, <2>6, FrameIs, KeysUniqueIs
    <2>8. w[n + 2].value = Parser!Parts(f.value)[f.begun]
      BY <2>2, <2>3 DEF Walking
    <2> QED
      BY <2>7, <2>8
  <1>6. Len(w) - 1 \in T
    <2>1. \A n \in Nat : n \in T
      BY <1>4, <1>5, AllNumbers
    <2> QED
      BY <1>1, <2>1
  <1>7. (Len(w) - 1) + 1 = Len(w) /\ Len(w) \in 1..Len(w)
    BY <1>1
  <1> QED
    BY <1>3, <1>6, <1>7
-----------------------------------------------------------------------------
LEMMA ScanStays ==
  ASSUME CompilerInv, inputs # <<>>, scan = "scan", Parser!Consume, Walking(Parser!Root, stack', walk'),
         walk' = <<>> => Parser!KeysUnique[Parser!Root]
  PROVE  CompilerInv'
  <1>1. /\ event' = event + 1 /\ scan' = "scan"
        /\ UNCHANGED <<Parser!batchVars, inputs, current, names, diagnostics, parsed>>
    BY DEF Parser!Consume, Parser!batchVars
  <1>2. UNCHANGED <<Parser!Root, Parser!TheFile>>
    BY <1>1 DEF Parser!Root, Parser!TheFile
  <1>3. Passed(scan)'
    BY <1>1, <1>2, AfterAre DEF CompilerInv, Passed
  <1>4. FieldsInv'
    BY <1>1, AfterAre DEF CompilerInv, FieldsInv
  <1>5. event' \in Nat \ {0}
    BY <1>1 DEF CompilerInv, ScanInv
  <1>6. ScanInv'
    BY <1>1, <1>2, <1>5 DEF ScanInv, Parser!Walked
  <1>7. names' \in Seq(STRING)
    BY <1>1 DEF CompilerInv, CompilerType
  <1>8. scan \notin {"end", "build"} /\ scan' \in CompilerSteps \ {"build", "end"}
    BY <1>1, AfterAre
  <1> QED
    BY <1>1, <1>3, <1>4, <1>6, <1>7, <1>8, Advance

LEMMA LastOfWalk ==
  ASSUME NEW root, NEW c, NEW w, Walking(root, c, w), w # <<>>
  PROVE  /\ c # <<>> /\ c \in Seq(Open) /\ Len(c) = Len(w) /\ w \in Seq(Frame)
         /\ c[Len(c)] \in Open /\ w[Len(w)] \in Frame /\ FrameInv(c[Len(c)], w[Len(w)], FALSE)
  <1>1. w \in Seq(Frame) /\ c \in Seq(Open) /\ Len(c) = Len(w) /\ Len(w) \in Nat \ {0} /\ c # <<>>
    BY DEF Walking
  <1>2. c[Len(c)] \in Open /\ w[Len(w)] \in Frame
    BY <1>1
  <1>3. FrameInv(c[Len(c)], w[Len(w)], FALSE)
    BY <1>1 DEF Walking
  <1> QED
    BY <1>1, <1>2, <1>3

LEMMA InnermostIs ==
  ASSUME CompilerInv, scan = "scan", walk # <<>>
  PROVE  /\ stack # <<>> /\ stack \in Seq(Open) /\ Len(stack) = Len(walk) /\ walk \in Seq(Frame)
         /\ Parser!Top \in Open /\ Parser!Inside \in Frame /\ FrameInv(Parser!Top, Parser!Inside, FALSE)
  <1>1. Walking(Parser!Root, stack, walk)
    BY DEF CompilerInv, ScanInv
  <1> QED
    BY <1>1, LastOfWalk DEF Parser!Top, Parser!Inside

Taken(c) == IF c.isObject THEN [c EXCEPT !.pendingKey = ""] ELSE [c EXCEPT !.nextIndex = c.nextIndex + 1]
BegunIn(f) == [f EXCEPT !.begun = f.begun + 1, !.named = FALSE]
PathOf(c) == Append(c.path, IF c.isObject THEN Parser!Key(c.pendingKey) ELSE Parser!Index(c.nextIndex))

LEMMA KeyForgotten ==
  ASSUME NEW c \in Open, NEW k \in Pending
  PROVE  /\ [c EXCEPT !.pendingKey = k] \in Open /\ [c EXCEPT !.pendingKey = k].isObject = c.isObject
         /\ [c EXCEPT !.pendingKey = k].keys = c.keys
  <1>1. PICK d : d = [c EXCEPT !.pendingKey = k]
    OBVIOUS
  <1>2. d \in Open /\ d.isObject = c.isObject /\ d.keys = c.keys
    BY <1>1 DEF Open
  <1> QED
    BY <1>1, <1>2

LEMMA IndexTaken ==
  ASSUME NEW c \in Open
  PROVE  /\ [c EXCEPT !.nextIndex = c.nextIndex + 1] \in Open
         /\ [c EXCEPT !.nextIndex = c.nextIndex + 1].isObject = c.isObject
         /\ [c EXCEPT !.nextIndex = c.nextIndex + 1].keys = c.keys
  <1>1. PICK n \in Nat : n = c.nextIndex + 1
    BY DEF Open
  <1>2. PICK d : d = [c EXCEPT !.nextIndex = n]
    OBVIOUS
  <1>3. d \in Open /\ d.isObject = c.isObject /\ d.keys = c.keys
    BY <1>2 DEF Open
  <1> QED
    BY <1>1, <1>2, <1>3

LEMMA TakenIs ==
  ASSUME NEW c \in Open
  PROVE  /\ Taken(c) \in Open /\ Taken(c).isObject = c.isObject /\ Taken(c).keys = c.keys
         /\ PathOf(c) \in Seq(PathPart)
  <1>1. CASE c.isObject
    <2>1. "" \in Pending
      BY Zenon DEF Pending
    <2>2. Taken(c) = [c EXCEPT !.pendingKey = ""]
      BY Zenon, <1>1 DEF Taken
    <2>3. Taken(c) \in Open /\ Taken(c).isObject = c.isObject /\ Taken(c).keys = c.keys
      BY Zenon, <2>1, <2>2, KeyForgotten
    <2>4. Parser!Key(c.pendingKey) \in PathPart
      BY DEF Open, Parser!Key, PathPart
    <2> QED
      BY <1>1, <2>3, <2>4, AppendIs DEF PathOf, Open
  <1>2. CASE ~c.isObject
    <2>1. Taken(c) = [c EXCEPT !.nextIndex = c.nextIndex + 1]
      BY Zenon, <1>2 DEF Taken
    <2>2. Taken(c) \in Open /\ Taken(c).isObject = c.isObject /\ Taken(c).keys = c.keys
      BY <2>1, IndexTaken
    <2>3. Parser!Index(c.nextIndex) \in PathPart
      BY DEF Open, Parser!Index, PathPart
    <2> QED
      BY <1>2, <2>2, <2>3, AppendIs DEF PathOf, Open
  <1> QED
    BY <1>1, <1>2

LEMMA BegunIs ==
  ASSUME NEW f \in Frame
  PROVE  /\ BegunIn(f) \in Frame /\ BegunIn(f).value = f.value /\ BegunIn(f).begun = f.begun + 1
         /\ BegunIn(f).named = FALSE
  <1>1. PICK n \in Nat : n = f.begun + 1
    BY DEF Frame
  <1>2. PICK g : g = [f EXCEPT !.begun = n, !.named = FALSE]
    OBVIOUS
  <1>3. g \in Frame /\ g.value = f.value /\ g.begun = n /\ g.named = FALSE
    BY <1>2 DEF Frame
  <1> QED
    BY <1>1, <1>2, <1>3 DEF BegunIn

LEMMA KeyKeeps ==
  ASSUME CompilerInv, inputs # <<>>, Parser!ScanKey
  PROVE  CompilerInv'
  <1> DEFINE k == Parser!Inside.value.members[Parser!Inside.begun + 1].key
  <1>1. scan = "scan" /\ walk # <<>> /\ Parser!Inside.begun # Len(Parser!Parts(Parser!Inside.value))
        /\ Parser!Inside.value.kind = "object" /\ ~Parser!Inside.named
    BY DEF Parser!ScanKey, Parser!AtKey, Parser!Emits, Parser!AllBegun, Parser!InObject
  <1>2. /\ stack # <<>> /\ stack \in Seq(Open) /\ Len(stack) = Len(walk) /\ walk \in Seq(Frame)
        /\ Parser!Top \in Open /\ Parser!Inside \in Frame /\ FrameInv(Parser!Top, Parser!Inside, FALSE)
        /\ Walking(Parser!Root, stack, walk)
    BY <1>1, InnermostIs DEF CompilerInv, ScanInv
  <1>3. Parser!Inside = walk[Len(walk)]
    BY DEF Parser!Inside
  <1>4. CASE k \in Parser!Top.keys
    <2>1. ~Parser!KeysUnique[Parser!Root]
      <3>1. ~Parser!KeysUnique[Parser!Inside.value]
        BY <1>1, <1>2, <1>4, SeenBefore
      <3> QED
        BY <1>1, <1>2, <1>3, <3>1, NotUniqueInside
    <2>2. ~Parser!IsSchema(Parser!TheFile)
      BY <2>1 DEF Parser!IsSchema, Parser!Root
    <2>3. current \in Parser!Bad
      BY <2>2, BadIs DEF CompilerInv
    <2>4. \E path : Parser!Fail("DuplicateKey", path)
      BY <1>4 DEF Parser!ScanKey, Parser!IsDuplicate
    <2>5. UNCHANGED <<inputs, current, packets, out, names>>
      BY <1>4 DEF Parser!ScanKey, Parser!IsDuplicate, Parser!batchVars
    <2>6. names' \in Seq(STRING)
      BY <2>5 DEF CompilerInv, CompilerType
    <2> QED
      BY <1>1, <2>1, <2>3, <2>4, <2>5, <2>6, Refuse DEF Parser!Root
  <1>5. CASE k \notin Parser!Top.keys
    <2>1. PICK c : c = [Parser!Top EXCEPT !.keys = Parser!Top.keys \union {k}, !.pendingKey = k]
      OBVIOUS
    <2>2. PICK f : f = [Parser!Inside EXCEPT !.named = TRUE]
      OBVIOUS
    <2>3. /\ stack' = [stack EXCEPT ![Len(stack)] = c] /\ walk' = [walk EXCEPT ![Len(walk)] = f]
          /\ Parser!Consume
      BY <1>5, <2>1, <2>2 DEF Parser!ScanKey, Parser!IsDuplicate, Parser!Named
    <2>4. k \in STRING
      <3>1. Parser!Inside.begun + 1 \in 1..Len(Parser!Parts(Parser!Inside.value))
        BY <1>1, <1>2, FrameIs DEF FrameInv
      <3> QED
        BY <1>1, <1>2, <3>1, MembersAre
    <2>5. c \in Open /\ c.isObject = Parser!Top.isObject /\ c.keys = Parser!Top.keys \union {k}
      <3> HIDE DEF k
      <3> QED
        BY <1>2, <2>1, <2>4 DEF Open, Pending
    <2>6. f \in Frame /\ f.value = Parser!Inside.value /\ f.begun = Parser!Inside.begun /\ f.named = TRUE
      BY <1>2, <2>2 DEF Frame
    <2>7. FrameInv(c, f, FALSE)
      BY <1>1, <1>2, <1>5, <2>5, <2>6, KeyTaken
    <2>8. Walking(Parser!Root, stack', walk')
      BY <1>1, <1>2, <1>3, <2>3, <2>5, <2>6, <2>7, WalkOn
    <2>9. walk' # <<>>
      BY <1>1, <1>2, <2>3, <2>6, ReplaceLast
    <2> QED
      BY <1>1, <2>3, <2>8, <2>9, ScanStays
  <1> QED
    BY <1>4, <1>5

\* What AfterValue and Begun make of the innermost container.
LEMMA ValueBegins ==
  ASSUME CompilerInv, inputs # <<>>, Parser!AtValue
  PROVE  /\ scan = "scan" /\ Parser!Coming \in JsonValues /\ Walking(Parser!Root, stack, walk)
         /\ walk = <<>> => stack = <<>> /\ Parser!AfterValue = <<>> /\ Parser!Begun = <<>> /\ Parser!Coming = Parser!Root
         /\ walk # <<>> =>
               /\ stack # <<>> /\ stack \in Seq(Open) /\ Len(stack) = Len(walk) /\ walk \in Seq(Frame)
               /\ Taken(Parser!Top) \in Open /\ BegunIn(Parser!Inside) \in Frame
               /\ Parser!AfterValue = [stack EXCEPT ![Len(stack)] = Taken(Parser!Top)]
               /\ Parser!Begun = [walk EXCEPT ![Len(walk)] = BegunIn(Parser!Inside)]
               /\ BegunIn(Parser!Inside).value = walk[Len(walk)].value
               /\ FrameInv(Taken(Parser!Top), BegunIn(Parser!Inside), TRUE)
               /\ Parser!Coming = Parser!Parts(BegunIn(Parser!Inside).value)[BegunIn(Parser!Inside).begun]
               /\ Parser!KeysUnique[Parser!Coming] => FrameInv(Taken(Parser!Top), BegunIn(Parser!Inside), FALSE)
  <1>1. scan = "scan" /\ Parser!Root \in JsonValues
    BY FileIs DEF Parser!AtValue, Parser!Emits, CompilerInv
  <1>2. Walking(Parser!Root, stack, walk)
    BY <1>1 DEF CompilerInv, ScanInv
  <1>3. CASE walk = <<>>
    <2>1. stack = <<>>
      BY <1>2, <1>3 DEF Walking
    <2> QED
      BY <1>1, <1>2, <1>3, <2>1 DEF Parser!AfterValue, Parser!Begun, Parser!Coming
  <1>4. CASE walk # <<>>
    <2>1. /\ stack # <<>> /\ stack \in Seq(Open) /\ Len(stack) = Len(walk) /\ walk \in Seq(Frame)
          /\ Parser!Top \in Open /\ Parser!Inside \in Frame /\ FrameInv(Parser!Top, Parser!Inside, FALSE)
      BY <1>1, <1>4, InnermostIs
    <2>2. /\ Parser!Inside.begun # Len(Parser!Parts(Parser!Inside.value))
          /\ Parser!Inside.value.kind = "object" => Parser!Inside.named
      BY <1>4 DEF Parser!AtValue, Parser!AllBegun, Parser!InObject
    <2>3. PICK c : c = Taken(Parser!Top)
      OBVIOUS
    <2>4. PICK f : f = BegunIn(Parser!Inside)
      OBVIOUS
    <2>5. c \in Open /\ c.isObject = Parser!Top.isObject /\ c.keys = Parser!Top.keys
      BY <2>1, <2>3, TakenIs
    <2>6. f \in Frame /\ f.value = Parser!Inside.value /\ f.begun = Parser!Inside.begun + 1 /\ f.named = FALSE
      BY <2>1, <2>4, BegunIs
    <2>7. /\ FrameInv(c, f, TRUE) /\ f.begun \in 1..Len(Parser!Parts(f.value))
          /\ Parser!KeysUnique[Parser!Parts(Parser!Inside.value)[Parser!Inside.begun + 1]] => FrameInv(c, f, FALSE)
      BY <2>1, <2>2, <2>5, <2>6, PartBegins
    <2>8. Parser!Coming = Parser!Parts(Parser!Inside.value)[Parser!Inside.begun + 1]
      BY <1>4 DEF Parser!Coming
    <2>9. Parser!Coming \in JsonValues
      BY <2>1, <2>6, <2>7, <2>8, FrameIs
    <2>10. /\ Parser!AfterValue = [stack EXCEPT ![Len(stack)] = c]
           /\ Parser!Begun = [walk EXCEPT ![Len(walk)] = f]
      BY <1>4, <2>1, <2>3, <2>4 DEF Parser!AfterValue, Parser!Begun, Taken, BegunIn
    <2> QED
      BY <1>1, <1>2, <1>4, <2>1, <2>3, <2>4, <2>5, <2>6, <2>7, <2>8, <2>9, <2>10 DEF Parser!Inside
  <1> QED
    BY <1>3, <1>4
-----------------------------------------------------------------------------
\* A container more within the innermost one.
LEMMA WalkDeeper ==
  ASSUME NEW root, NEW c, NEW w, Walking(root, c, w), w # <<>>,
         NEW d \in Open, NEW f \in Frame, f.value = w[Len(w)].value, FrameInv(d, f, TRUE),
         NEW e \in Open, NEW g \in Frame, FrameInv(e, g, FALSE), g.value = Parser!Parts(f.value)[f.begun]
  PROVE  Walking(root, Append([c EXCEPT ![Len(c)] = d], e), Append([w EXCEPT ![Len(w)] = f], g))
  <1>1. w \in Seq(Frame) /\ c \in Seq(Open) /\ Len(c) = Len(w) /\ Len(w) \in Nat \ {0} /\ c # <<>>
    BY DEF Walking
  <1>2. PICK x : x = [w EXCEPT ![Len(w)] = f]
    OBVIOUS
  <1>3. PICK b : b = [c EXCEPT ![Len(c)] = d]
    OBVIOUS
  <1>4. /\ x \in Seq(Frame) /\ Len(x) = Len(w) /\ x # <<>> /\ x[Len(w)] = f
        /\ \A n \in 1..(Len(w) - 1) : x[n] = w[n]
    BY <1>1, <1>2, ReplaceLast
  <1>5. /\ b \in Seq(Open) /\ Len(b) = Len(w) /\ b[Len(w)] = d
        /\ \A n \in 1..(Len(w) - 1) : b[n] = c[n]
    BY <1>1, <1>3, ReplaceLast
  <1>6. \A n \in 1..Len(w) : x[n].value = w[n].value
    BY <1>1, <1>4
  <1>7. x[1].value = root
    BY <1>1, <1>6 DEF Walking
  <1>8. g.value = Parser!Parts(x[Len(x)].value)[x[Len(x)].begun]
    BY <1>4
  <1>9. ASSUME NEW n \in 1..Len(x) PROVE FrameInv(b[n], x[n], TRUE)
    <2>1. CASE n = Len(w)
      <3>1. b[n] = d /\ x[n] = f
        BY <1>4, <1>5, <2>1
      <3> QED
        BY <3>1
    <2>2. CASE n \in 1..(Len(w) - 1)
      <3>1. FrameInv(c[n], w[n], TRUE)
        BY <2>2 DEF Walking
      <3> QED
        BY <1>4, <1>5, <2>2, <3>1
    <2>3. n = Len(w) \/ n \in 1..(Len(w) - 1)
      BY <1>1, <1>4
    <2> QED
      BY <2>1, <2>2, <2>3
  <1>10. ASSUME NEW n \in 1..(Len(w) - 1) PROVE x[n + 1].value = Parser!Parts(x[n].value)[x[n].begun]
    <2>1. n + 1 \in 1..Len(w) /\ x[n] = w[n]
      BY <1>1, <1>4
    <2> QED
      BY <1>6, <2>1 DEF Walking
  <1>11. Walking(root, Append(b, e), Append(x, g))
    <2>1. \A n \in 1..(Len(x) - 1) : x[n + 1].value = Parser!Parts(x[n].value)[x[n].begun]
      BY <1>4, <1>10
    <2>2. x \in Seq(Frame) /\ b \in Seq(Open) /\ Len(b) = Len(x) /\ x # <<>>
      BY <1>4, <1>5
    <2> QED
      BY <1>7, <1>8, <1>9, <2>1, <2>2, WalkInto
  <1> QED
    BY <1>2, <1>3, <1>11

LEMMA NewContainerIs ==
  ASSUME NEW o \in BOOLEAN, NEW p \in Seq(PathPart), NEW k \in Pending
  PROVE  LET d == [isObject |-> o, path |-> p, keys |-> {}, pendingKey |-> k, nextIndex |-> 0]
         IN  d \in Open /\ d.isObject = o /\ d.keys = {}
  BY DEF Open

LEMMA ContainerIs ==
  ASSUME NEW o \in BOOLEAN, stack # <<>> => Parser!Top \in Open
  PROVE  Parser!Container(o) \in Open /\ Parser!Container(o).isObject = o /\ Parser!Container(o).keys = {}
  <1>1. Parser!ValuePath \in Seq(PathPart)
    <2>1. CASE stack = <<>>
      <3>1. Parser!ValuePath = <<>>
        BY <2>1 DEF Parser!ValuePath
      <3> QED
        BY <3>1
    <2>2. CASE stack # <<>>
      BY <2>2, TakenIs DEF Parser!ValuePath, PathOf
    <2> QED
      BY <2>1, <2>2
  <1>2. "" \in Pending
    BY Zenon DEF Pending
  <1>3. Parser!Container(o) = [isObject |-> o, path |-> Parser!ValuePath, keys |-> {}, pendingKey |-> "", nextIndex |-> 0]
    BY Zenon DEF Parser!Container
  <1> QED
    BY Zenon, <1>1, <1>2, <1>3, NewContainerIs

LEMMA StartKeeps ==
  ASSUME CompilerInv, inputs # <<>>, Parser!ScanStart
  PROVE  CompilerInv'
  <1>1. Parser!AtValue /\ Parser!Coming.kind \in {"object", "array"} /\ Parser!Consume
        /\ stack' = Append(Parser!AfterValue, Parser!Container(Parser!Coming.kind = "object"))
        /\ walk' = Append(Parser!Begun, Parser!Entered(Parser!Coming))
    BY DEF Parser!ScanStart
  <1>2. scan = "scan" /\ Parser!Coming \in JsonValues /\ Walking(Parser!Root, stack, walk)
    BY <1>1, ValueBegins
  <1>3. PICK d : d = Parser!Container(Parser!Coming.kind = "object")
    OBVIOUS
  <1>4. PICK g : g = Parser!Entered(Parser!Coming)
    OBVIOUS
  <1>5. d \in Open /\ d.isObject = (Parser!Coming.kind = "object") /\ d.keys = {}
    <2>1. stack # <<>> => walk # <<>>
      BY <1>1, ValueBegins
    <2>2. stack # <<>> => Parser!Top \in Open
      BY <1>2, <2>1, InnermostIs
    <2> QED
      BY <1>3, <2>2, ContainerIs
  <1>6. g \in Frame /\ g.value = Parser!Coming /\ FrameInv(d, g, FALSE)
    BY <1>1, <1>2, <1>4, <1>5, JustEntered
  <1>7. Walking(Parser!Root, stack', walk') /\ walk' # <<>>
    <2>1. CASE walk = <<>>
      <3>1. stack' = Append(<<>>, d) /\ walk' = Append(<<>>, g) /\ Parser!Coming = Parser!Root
        BY <1>1, <1>3, <1>4, <2>1, ValueBegins
      <3>2. Walking(Parser!Root, Append(<<>>, d), Append(<<>>, g))
        <4>1. PICK x : x = <<>>
          OBVIOUS
        <4>2. x \in Seq(Frame) /\ x \in Seq(Open) /\ Len(x) = 0 /\ 1..0 = {} /\ 1..(0 - 1) = {}
          BY <4>1
        <4>3. Walking(Parser!Root, Append(x, d), Append(x, g))
          BY <1>5, <1>6, <3>1, <4>1, <4>2, WalkInto
        <4> QED
          BY <4>1, <4>3
      <3> QED
        BY <3>1, <3>2
    <2>2. CASE walk # <<>>
      <3>1. PICK c : c = Taken(Parser!Top)
        OBVIOUS
      <3>2. PICK f : f = BegunIn(Parser!Inside)
        OBVIOUS
      <3>3. /\ c \in Open /\ f \in Frame /\ f.value = walk[Len(walk)].value /\ FrameInv(c, f, TRUE)
            /\ Parser!Coming = Parser!Parts(f.value)[f.begun] /\ walk \in Seq(Frame)
            /\ Parser!AfterValue = [stack EXCEPT ![Len(stack)] = c]
            /\ Parser!Begun = [walk EXCEPT ![Len(walk)] = f]
        BY <1>1, <2>2, <3>1, <3>2, ValueBegins
      <3>4. Walking(Parser!Root, Append([stack EXCEPT ![Len(stack)] = c], d), Append([walk EXCEPT ![Len(walk)] = f], g))
        BY <1>2, <1>5, <1>6, <2>2, <3>3, WalkDeeper
      <3>5. Parser!Begun \in Seq(Frame)
        BY <2>2, <3>3, ReplaceLast
      <3>6. Append(Parser!Begun, g) # <<>>
        <4>1. PICK q \in Seq(Frame) : q = Parser!Begun
          BY <3>5
        <4>2. Len(Append(q, g)) = Len(q) + 1 /\ Len(q) \in Nat
          BY <1>6, AppendIs
        <4>3. Append(q, g) # <<>>
          BY <4>2
        <4> QED
          BY <4>1, <4>3
      <3> QED
        BY <1>1, <1>3, <1>4, <3>3, <3>4, <3>6
    <2> QED
      BY <2>1, <2>2
  <1> QED
    BY <1>1, <1>2, <1>7, ScanStays

LEMMA ScalarKeeps ==
  ASSUME CompilerInv, inputs # <<>>, Parser!ScanScalar
  PROVE  CompilerInv'
  <1>1. /\ Parser!AtValue /\ Parser!Coming.kind \notin {"object", "array"} /\ Parser!Consume
        /\ stack' = Parser!AfterValue /\ walk' = Parser!Begun
    BY DEF Parser!ScanScalar
  <1>2. scan = "scan" /\ Parser!Coming \in JsonValues /\ Walking(Parser!Root, stack, walk)
    BY <1>1, ValueBegins
  <1>3. Parser!KeysUnique[Parser!Coming]
    <2>1. Parser!Parts(Parser!Coming) = <<>> /\ OwnKeysDiffer(Parser!Coming)
      BY <1>1, <1>2, PartsAre DEF OwnKeysDiffer
    <2>2. Len(Parser!Parts(Parser!Coming)) = 0 /\ 1..0 = {}
      BY <2>1
    <2> QED
      BY <1>2, <2>1, <2>2, KeysUniqueIs
  <1>4. CASE walk = <<>>
    <2>1. stack' = <<>> /\ walk' = <<>> /\ Parser!Coming = Parser!Root
      BY <1>1, <1>4, ValueBegins
    <2>2. Walking(Parser!Root, <<>>, <<>>)
      BY DEF Walking
    <2> QED
      BY <1>1, <1>2, <1>3, <2>1, <2>2, ScanStays
  <1>5. CASE walk # <<>>
    <2>1. PICK c : c = Taken(Parser!Top)
      OBVIOUS
    <2>2. PICK f : f = BegunIn(Parser!Inside)
      OBVIOUS
    <2>3. /\ c \in Open /\ f \in Frame /\ f.value = walk[Len(walk)].value /\ FrameInv(c, f, FALSE)
          /\ walk \in Seq(Frame)
          /\ Parser!AfterValue = [stack EXCEPT ![Len(stack)] = c]
          /\ Parser!Begun = [walk EXCEPT ![Len(walk)] = f]
      BY <1>1, <1>3, <1>5, <2>1, <2>2, ValueBegins
    <2>4. Walking(Parser!Root, stack', walk')
      BY <1>1, <1>2, <1>5, <2>3, WalkOn
    <2>5. walk' # <<>>
      BY <1>1, <1>5, <2>3, ReplaceLast
    <2> QED
      BY <1>1, <1>2, <2>4, <2>5, ScanStays
  <1> QED
    BY <1>4, <1>5

LEMMA EndKeeps ==
  ASSUME CompilerInv, inputs # <<>>, Parser!ScanEnd
  PROVE  CompilerInv'
  <1>1. /\ scan = "scan" /\ walk # <<>>
        /\ Parser!Inside.begun = Len(Parser!Parts(Parser!Inside.value)) /\ Parser!Consume
        /\ stack' = SubSeq(stack, 1, Len(stack) - 1) /\ walk' = SubSeq(walk, 1, Len(walk) - 1)
    BY DEF Parser!ScanEnd, Parser!AtEnd, Parser!Emits, Parser!AllBegun
  <1>2. /\ Parser!Inside \in Frame /\ FrameInv(Parser!Top, Parser!Inside, FALSE)
        /\ Walking(Parser!Root, stack, walk)
    BY <1>1, InnermostIs DEF CompilerInv, ScanInv
  <1>3. Parser!KeysUnique[walk[Len(walk)].value]
    <2>1. Parser!KeysUnique[Parser!Inside.value]
      BY <1>1, <1>2, AllRead
    <2> QED
      BY <2>1 DEF Parser!Inside
  <1>4. Walking(Parser!Root, stack', walk') /\ (walk' = <<>> => Parser!KeysUnique[Parser!Root])
    BY <1>1, <1>2, <1>3, WalkOut
  <1> QED
    BY <1>1, <1>4, ScanStays
-----------------------------------------------------------------------------
\* Sums of sizes.
Sums(f, first, size, n) == f[0] = first /\ \A k \in 1..n : f[k] = f[k - 1] + size[k]

LEMMA SumsExist ==
  ASSUME NEW first \in Nat, NEW n \in Nat, NEW size, \A k \in 1..n : size[k] \in Nat
  PROVE  \E h : h = [k \in 0..n |-> h[k]] /\ Sums(h, first, size, n)
  <1>1. PICK rule : rule = [x \in (1..n) \X Nat |-> x[2] + size[x[1]]]
    OBVIOUS
  <1>2. ASSUME NEW k \in 1..n, NEW i \in Nat PROVE rule[<<k, i>>] = i + size[k] /\ rule[<<k, i>>] \in Nat
    <2>1. PICK x : x = <<k, i>>
      OBVIOUS
    <2>2. x \in (1..n) \X Nat /\ x[1] = k /\ x[2] = i
      BY <2>1
    <2>3. PICK a \in Nat : a = size[k]
      OBVIOUS
    <2> QED
      BY <1>1, <2>1, <2>2, <2>3
  <1>3. PICK h : Follows(h, first, rule, n)
    BY RecursionDefined
  <1>4. \A k \in Nat : k <= n => h[k] \in Nat
    <2>1. PICK T : T = {k \in Nat : k <= n => h[k] \in Nat}
      OBVIOUS
    <2>2. 0 \in T
      BY <1>3, <2>1 DEF Follows
    <2>3. ASSUME NEW k \in Nat, k \in T PROVE k + 1 \in T
      <3>1. CASE k + 1 <= n
        <4>1. k + 1 \in 1..n /\ (k + 1) - 1 = k /\ k <= n
          BY <3>1
        <4>2. h[k] \in Nat
          BY <2>1, <2>3, <4>1
        <4>3. h[k + 1] = rule[<<k + 1, h[k]>>]
          BY <1>3, <4>1 DEF Follows
        <4>4. rule[<<k + 1, h[k]>>] \in Nat
          BY <1>2, <4>1, <4>2
        <4> QED
          BY <2>1, <4>3, <4>4
      <3>2. CASE ~(k + 1 <= n)
        BY <2>1, <3>2
      <3> QED
        BY <3>1, <3>2
    <2> QED
      BY <2>1, <2>2, <2>3, AllNumbers
  <1>5. ASSUME NEW k \in 1..n PROVE h[k] = h[k - 1] + size[k]
    <2>1. k - 1 \in Nat /\ k - 1 <= n
      OBVIOUS
    <2>2. h[k - 1] \in Nat
      BY <1>4, <2>1
    <2> QED
      BY <1>2, <1>3, <2>2 DEF Follows
  <1> QED
    BY <1>3, <1>5 DEF Follows, Sums

LEMMA SumsAre ==
  ASSUME NEW first \in Nat, NEW n \in Nat, NEW size, \A k \in 1..n : size[k] \in Nat,
         NEW f, Sums(f, first, size, n)
  PROVE  \A k \in 0..n : f[k] \in Nat /\ f[k] <= f[n]
  <1>1. PICK T : T = {k \in Nat : k <= n => f[k] \in Nat}
    OBVIOUS
  <1>2. 0 \in T
    BY <1>1 DEF Sums
  <1>3. ASSUME NEW k \in Nat, k \in T PROVE k + 1 \in T
    <2>1. CASE k + 1 <= n
      <3>1. k + 1 \in 1..n /\ (k + 1) - 1 = k /\ k <= n
        BY <2>1
      <3>2. PICK a \in Nat, b \in Nat : a = f[k] /\ b = size[k + 1]
        BY <1>1, <1>3, <3>1
      <3>3. f[k + 1] = a + b
        BY <3>1, <3>2 DEF Sums
      <3> QED
        BY <1>1, <3>3
    <2>2. CASE ~(k + 1 <= n)
      BY <1>1, <2>2
    <2> QED
      BY <2>1, <2>2
  <1>4. \A k \in 0..n : f[k] \in Nat
    <2>1. \A k \in Nat : k \in T
      BY <1>2, <1>3, AllNumbers
    <2> QED
      BY <1>1, <2>1
  <1>5. PICK D : D = {j \in Nat : j <= n => f[n - j] <= f[n]}
    OBVIOUS
  <1>6. 0 \in D
    <2>1. n - 0 = n /\ n \in 0..n
      OBVIOUS
    <2>2. PICK a \in Nat : a = f[n]
      BY <1>4, <2>1
    <2> QED
      BY <1>5, <2>1, <2>2
  <1>7. ASSUME NEW j \in Nat, j \in D PROVE j + 1 \in D
    <2>1. CASE j + 1 <= n
      <3>1. /\ n - j \in 1..n /\ n - j \in 0..n /\ (n - j) - 1 \in 0..n /\ n \in 0..n
            /\ (n - j) - 1 = n - (j + 1)
        BY <2>1
      <3>2. PICK a \in Nat, b \in Nat, c \in Nat, d \in Nat :
                a = f[n - j] /\ b = f[n - (j + 1)] /\ c = size[n - j] /\ d = f[n]
        BY <1>4, <3>1
      <3>3. a = b + c
        BY <3>1, <3>2 DEF Sums
      <3>4. a <= d
        BY <1>5, <1>7, <2>1, <3>2
      <3> QED
        BY <1>5, <3>2, <3>3, <3>4
    <2>2. CASE ~(j + 1 <= n)
      BY <1>5, <2>2
    <2> QED
      BY <2>1, <2>2
  <1>8. ASSUME NEW k \in 0..n PROVE f[k] <= f[n]
    <2>1. n - k \in Nat /\ n - k <= n /\ n - (n - k) = k
      OBVIOUS
    <2>2. n - k \in D
      BY <1>6, <1>7, <2>1, AllNumbers
    <2>3. f[n - (n - k)] <= f[n]
      BY <1>5, <2>1, <2>2
    <2> QED
      BY <2>1, <2>3
  <1> QED
    BY <1>4, <1>8

Sized(size, n) == \A k \in 1..n : size[k] \in Nat

LEMMA SumsShift ==
  ASSUME NEW first \in Nat, NEW second \in Nat, NEW n \in Nat, NEW size, Sized(size, n),
         NEW f, Sums(f, first, size, n), NEW g, Sums(g, second, size, n)
  PROVE  \A k \in 0..n : g[k] + first = f[k] + second
  <1>1. PICK T : T = {k \in Nat : k <= n => g[k] + first = f[k] + second}
    OBVIOUS
  <1>2. 0 \in T
    BY <1>1 DEF Sums
  <1>3. ASSUME NEW k \in Nat, k \in T PROVE k + 1 \in T
    <2>1. CASE k + 1 <= n
      <3>1. k + 1 \in 1..n /\ (k + 1) - 1 = k /\ k <= n /\ k \in 0..n
        BY <2>1
      <3>2. PICK a \in Nat, b \in Nat, c \in Nat : a = f[k] /\ b = size[k + 1] /\ c = g[k]
        BY <3>1, SumsAre DEF Sized
      <3>3. f[k + 1] = a + b /\ g[k + 1] = c + b /\ c + first = a + second
        BY <1>1, <1>3, <3>1, <3>2 DEF Sums
      <3> QED
        BY <1>1, <3>3
    <2>2. CASE ~(k + 1 <= n)
      BY <1>1, <2>2
    <2> QED
      BY <2>1, <2>2
  <1>4. \A k \in Nat : k \in T
    BY <1>2, <1>3, AllNumbers
  <1>5. \A k \in 0..n : k \in Nat /\ k <= n
    OBVIOUS
  <1> QED
    BY <1>1, <1>4, <1>5

\* The two recursive sums of a packet.
LEMMA UsedIs ==
  ASSUME NEW items \in Seq(JsonValues),
         \A n \in 1..Len(items) : Parser!SizeOf[Parser!Get(items[n], "type").string] \in Nat
  PROVE  Sums(Parser!UsedBy(items), 0,
              [n \in 1..Len(items) |-> Parser!SizeOf[Parser!Get(items[n], "type").string]], Len(items))
  <1>1. PICK L \in Nat : L = Len(items)
    OBVIOUS
  <1>2. PICK size : size = [n \in 1..L |-> Parser!SizeOf[Parser!Get(items[n], "type").string]]
    OBVIOUS
  <1>3. PICK h : h = [k \in 0..L |-> h[k]] /\ Sums(h, 0, size, L)
    BY <1>1, <1>2, SumsExist
  <1>4. h = [n \in 0..L |-> IF n = 0 THEN 0 ELSE h[n - 1] + Parser!SizeOf[Parser!Get(items[n], "type").string]]
    <2>1. ASSUME NEW n \in 0..L
          PROVE  h[n] = IF n = 0 THEN 0 ELSE h[n - 1] + Parser!SizeOf[Parser!Get(items[n], "type").string]
      <3>1. CASE n = 0
        BY <1>3, <3>1 DEF Sums
      <3>2. CASE n # 0
        <4>1. n \in 1..L
          BY <3>2
        <4> QED
          BY <1>2, <1>3, <3>2, <4>1 DEF Sums
      <3> QED
        BY <3>1, <3>2
    <2> QED
      BY <1>3, <2>1
  <1>5. PICK f : f = CHOOSE u : u = [n \in 0..L |->
                        IF n = 0 THEN 0 ELSE u[n - 1] + Parser!SizeOf[Parser!Get(items[n], "type").string]]
    OBVIOUS
  <1>6. f = [n \in 0..L |-> IF n = 0 THEN 0 ELSE f[n - 1] + Parser!SizeOf[Parser!Get(items[n], "type").string]]
    BY Zenon, <1>4, <1>5
  <1>7. Parser!UsedBy(items) = f
    BY <1>1, <1>5 DEF Parser!UsedBy
  <1>8. Sums(f, 0, size, L)
    <2>1. 0 \in 0..L /\ \A k \in 1..L : k \in 0..L /\ k # 0
      OBVIOUS
    <2> QED
      BY <1>2, <1>6, <2>1 DEF Sums
  <1> QED
    BY <1>1, <1>2, <1>7, <1>8

LEMMA EndOfIs ==
  ASSUME NEW p, NEW L \in Nat, L = Len(p.fields), \A n \in 1..L : Parser!SizeOf[p.fields[n].type] \in Nat
  PROVE  Sums(Parser!EndOf(p), 2, [n \in 1..L |-> Parser!SizeOf[p.fields[n].type]], L)
  <1>2. PICK size : size = [n \in 1..L |-> Parser!SizeOf[p.fields[n].type]]
    OBVIOUS
  <1>3. PICK h : h = [k \in 0..L |-> h[k]] /\ Sums(h, 2, size, L)
    BY <1>2, SumsExist
  <1>4. h = [n \in 0..L |-> IF n = 0 THEN 2 ELSE h[n - 1] + Parser!SizeOf[p.fields[n].type]]
    <2>1. ASSUME NEW n \in 0..L PROVE h[n] = IF n = 0 THEN 2 ELSE h[n - 1] + Parser!SizeOf[p.fields[n].type]
      <3>1. CASE n = 0
        BY <1>3, <3>1 DEF Sums
      <3>2. CASE n # 0
        <4>1. n \in 1..L
          BY <3>2
        <4> QED
          BY <1>2, <1>3, <3>2, <4>1 DEF Sums
      <3> QED
        BY <3>1, <3>2
    <2> QED
      BY <1>3, <2>1
  <1>5. PICK f : f = CHOOSE u : u = [n \in 0..L |-> IF n = 0 THEN 2 ELSE u[n - 1] + Parser!SizeOf[p.fields[n].type]]
    OBVIOUS
  <1>6. f = [n \in 0..L |-> IF n = 0 THEN 2 ELSE f[n - 1] + Parser!SizeOf[p.fields[n].type]]
    BY Zenon, <1>4, <1>5
  <1>7. Parser!EndOf(p) = f
    BY <1>5 DEF Parser!EndOf
  <1>8. Sums(f, 2, size, L)
    <2>1. 0 \in 0..L /\ \A k \in 1..L : k \in 0..L /\ k # 0
      OBVIOUS
    <2> QED
      BY <1>2, <1>6, <2>1 DEF Sums
  <1> QED
    BY <1>2, <1>7, <1>8
-----------------------------------------------------------------------------
LEMMA SizeIs ==
  ASSUME NEW t \in DOMAIN Parser!SizeOf
  PROVE  Parser!SizeOf[t] \in Nat
  BY DEF Parser!SizeOf

LEMMA FunctionIsSequence ==
  ASSUME NEW S, NEW n \in Nat, NEW f, f = [k \in 1..n |-> f[k]], \A k \in 1..n : f[k] \in S
  PROVE  f \in Seq(S) /\ Len(f) = n
  OBVIOUS

\* The names being those of the fields, legal and different, the fields are legal.
LEMMA FieldsLegal ==
  ASSUME CompilerInv, inputs # <<>>, scan \in AfterField
  PROVE  Parser!Fields \in Seq(JsonValues) /\ Legal(Parser!Fields)
  <1>1. Parser!Root \in JsonValues /\ scan \in AfterFields
    BY FileIs, AfterAre DEF CompilerInv
  <1>2. PICK items \in Seq(JsonValues) : items = Parser!Fields
    BY <1>1, PartsKnown DEF CompilerInv
  <1>3. /\ Len(names) = Len(items)
        /\ \A n \in 1..Len(items) : Parser!IsField(items[n]) /\ names[n] = Parser!NameOf(items[n])
        /\ \A m, n \in 1..Len(items) : names[m] = names[n] => m = n
    BY <1>1, <1>2 DEF CompilerInv, FieldsInv
  <1>4. ASSUME NEW m \in 1..Len(items), NEW n \in 1..Len(items),
               Parser!Get(items[m], "name") = Parser!Get(items[n], "name")
        PROVE  m = n
    <2>1. Parser!NameOf(items[m]) = Parser!NameOf(items[n])
      BY <1>4 DEF Parser!NameOf
    <2> QED
      BY <1>3, <2>1
  <1> QED
    BY <1>2, <1>3, <1>4 DEF Legal

\* What is made of a file.
LEMMA PacketIs ==
  ASSUME Parser!Root \in JsonValues, NEW s \in AfterFields, Passed(s),
         Parser!Fields \in Seq(JsonValues), Legal(Parser!Fields)
  PROVE  Parser!ThePacket \in Descriptor /\ Describes(Parser!ThePacket, Parser!TheFile)
  <1>1. /\ Parser!IsName(Parser!Get(Parser!Packet, "name"))
        /\ Parser!IsUnsigned16(Parser!Get(Parser!Packet, "id"), 0)
        /\ Parser!IsUnsigned16(Parser!Get(Parser!Packet, "payloadVersion"), 1)
        /\ Parser!Get(Parser!Packet, "name") \in JsonValues
        /\ Parser!Get(Parser!Packet, "id") \in JsonValues
        /\ Parser!Get(Parser!Packet, "payloadVersion") \in JsonValues
    BY PartsKnown, AfterAre DEF Passed
  <1>2. PICK name \in STRING : /\ name = Parser!Get(Parser!Packet, "name").string
                               /\ Parser!Text(name) = Parser!Get(Parser!Packet, "name")
    BY <1>1, NameIs
  <1>3. PICK id \in Nat : /\ id = Parser!Unsigned16(Parser!Get(Parser!Packet, "id"))
                          /\ Parser!Number(id) = Parser!Get(Parser!Packet, "id")
    BY <1>1, NumberIs
  <1>4. PICK version \in Nat : /\ version = Parser!Unsigned16(Parser!Get(Parser!Packet, "payloadVersion"))
                               /\ Parser!Number(version) = Parser!Get(Parser!Packet, "payloadVersion")
    BY <1>1, NumberIs
  <1>5. PICK items \in Seq(JsonValues) : items = Parser!Fields
    OBVIOUS
  <1>6. PICK made : made = [n \in 1..Len(items) |-> [name |-> Parser!NameOf(items[n]), type |-> Parser!TypeOf(items[n])]]
    OBVIOUS
  <1>7. ASSUME NEW n \in 1..Len(items)
        PROVE  /\ made[n] \in [name : STRING, type : STRING]
               /\ Parser!Text(made[n].name) = Parser!Get(items[n], "name")
               /\ Parser!Text(made[n].type) = Parser!Get(items[n], "type")
    <2>1. items[n] \in JsonValues /\ Parser!IsField(items[n])
      BY <1>5 DEF Legal
    <2>2. PICK a \in STRING, b \in STRING : /\ a = Parser!NameOf(items[n]) /\ b = Parser!TypeOf(items[n])
                                            /\ Parser!Text(a) = Parser!Get(items[n], "name")
                                            /\ Parser!Text(b) = Parser!Get(items[n], "type")
      BY <2>1, FieldIs
    <2>3. made[n] = [name |-> a, type |-> b]
      BY <1>6, <2>2
    <2> QED
      BY <2>2, <2>3
  <1>8. made \in Seq([name : STRING, type : STRING]) /\ Len(made) = Len(items) /\ DOMAIN items = 1..Len(items)
    <2>1. made = [n \in 1..Len(items) |-> made[n]] /\ Len(items) \in Nat
      BY <1>6
    <2> QED
      BY <1>7, <2>1, FunctionIsSequence
  <1>9. Parser!ThePacket = [name |-> name, id |-> id, version |-> version, fields |-> made]
    BY <1>2, <1>3, <1>4, <1>5, <1>6, <1>8 DEF Parser!ThePacket
  <1>10. PICK p : p = Parser!ThePacket
    OBVIOUS
  <1>11. p \in Descriptor
    BY <1>8, <1>9, <1>10 DEF Descriptor
  <1>12. p.name = name /\ p.id = id /\ p.version = version /\ p.fields = made
    BY <1>9, <1>10
  <1>13. /\ Parser!Packet = Parser!Get(Parser!TheFile.value, "packet")
         /\ items = Parser!Get(Parser!Get(Parser!TheFile.value, "packet"), "fields").items
    BY <1>5 DEF Parser!Packet, Parser!Root, Parser!Fields
  <1>14. Describes(p, Parser!TheFile)
    BY <1>2, <1>3, <1>4, <1>7, <1>8, <1>12, <1>13 DEF Describes
  <1> QED
    BY <1>10, <1>11, <1>14

\* It is legal unless a field ends behind MaxSize.
LEMMA LayoutDecides ==
  ASSUME Parser!Root \in JsonValues, NEW s \in AfterFields, Passed(s),
         Parser!Fields \in Seq(JsonValues), Legal(Parser!Fields)
  PROVE  Parser!IsSchema(Parser!TheFile) <=>
             {n \in DOMAIN Parser!ThePacket.fields : Parser!EndOf(Parser!ThePacket)[n] > MaxSource} = {}
  <1>1. PICK items \in Seq(JsonValues) : items = Parser!Fields
    OBVIOUS
  <1>2. PICK L \in Nat : L = Len(items) /\ DOMAIN items = 1..L
    OBVIOUS
  <1>3. PICK size : size = [n \in 1..L |-> Parser!SizeOf[Parser!Get(items[n], "type").string]]
    OBVIOUS
  <1>4. ASSUME NEW n \in 1..L
        PROVE  size[n] \in Nat /\ Parser!SizeOf[Parser!Get(items[n], "type").string] \in Nat
    <2>1. items[n] \in JsonValues /\ Parser!IsField(items[n])
      BY <1>1, <1>2 DEF Legal
    <2>2. Parser!TypeOf(items[n]) \in DOMAIN Parser!SizeOf
      BY <2>1, FieldIs
    <2>3. Parser!SizeOf[Parser!TypeOf(items[n])] \in Nat
      BY <2>2, SizeIs
    <2> QED
      BY <1>3, <2>3 DEF Parser!TypeOf
  <1>5. PICK p : p = Parser!ThePacket
    OBVIOUS
  <1>6. p.fields = [n \in 1..L |-> [name |-> Parser!NameOf(items[n]), type |-> Parser!TypeOf(items[n])]]
    BY <1>1, <1>2, <1>5 DEF Parser!ThePacket
  <1>7. DOMAIN p.fields = 1..L /\ Len(p.fields) = L
    BY <1>6
  <1>8. \A n \in 1..L : p.fields[n].type = Parser!Get(items[n], "type").string
    BY <1>6 DEF Parser!TypeOf
  <1>9. [n \in 1..L |-> Parser!SizeOf[p.fields[n].type]] = size
    BY <1>3, <1>8
  <1>10. PICK f : f = Parser!UsedBy(items)
    OBVIOUS
  <1>11. Sums(f, 0, size, L)
    BY <1>2, <1>3, <1>4, <1>10, UsedIs
  <1>12. PICK g : g = Parser!EndOf(p)
    OBVIOUS
  <1>13. Sums(g, 2, size, L)
    <2>1. \A n \in 1..L : Parser!SizeOf[p.fields[n].type] \in Nat
      BY <1>4, <1>8
    <2> QED
      BY <1>7, <1>9, <1>12, <2>1, EndOfIs
  <1>14. \A k \in 0..L : g[k] = f[k] + 2
    <2>1. Sized(size, L)
      BY <1>4 DEF Sized
    <2>2. PICK first \in Nat, second \in Nat : first = 0 /\ second = 2
      OBVIOUS
    <2>3. Sums(f, first, size, L) /\ Sums(g, second, size, L)
      BY <1>11, <1>13, <2>2
    <2>4. \A k \in 0..L : g[k] + first = f[k] + second
      BY <2>1, <2>3, SumsShift
    <2>5. ASSUME NEW k \in 0..L PROVE g[k] = f[k] + 2
      <3>1. PICK a \in Nat, b \in Nat : a = f[k] /\ b = g[k]
        BY <1>4, <1>11, <1>13, SumsAre
      <3> QED
        BY <2>2, <2>4, <3>1
    <2> QED
      BY <2>5
  <1>15. \A k \in 0..L : g[k] \in Nat /\ g[k] <= g[L]
    BY <1>4, <1>13, SumsAre
  <1>16. \A k \in 0..L : f[k] \in Nat
    BY <1>4, <1>11, SumsAre
  <1>17. MaxSource \in Nat /\ MaxSource >= 2
    BY InputsAssumption DEF Parser!InputsTyped
  <1>18. Parser!IsSchema(Parser!TheFile) <=> f[L] <= MaxSource - 2
    BY <1>1, <1>2, <1>10, PassedIsLegal
  <1>19. f[L] <= MaxSource - 2 <=> g[L] <= MaxSource
    <2>1. L \in 0..L
      OBVIOUS
    <2>2. PICK a \in Nat : a = f[L]
      BY <1>16, <2>1
    <2>3. g[L] = a + 2
      BY <1>14, <2>1, <2>2
    <2> QED
      BY <1>17, <2>2, <2>3
  <1>20. g[L] <= MaxSource <=> \A n \in 1..L : ~(g[n] > MaxSource)
    <2>1. PICK m \in Nat : m = MaxSource /\ m >= 2
      BY <1>17
    <2>2. PICK e \in Nat : e = g[L]
      BY <1>15
    <2>3. ASSUME e <= m, NEW n \in 1..L PROVE ~(g[n] > m)
      <3>1. n \in 0..L
        OBVIOUS
      <3>2. PICK a \in Nat : a = g[n] /\ a <= e
        BY <1>15, <2>2, <3>1
      <3> QED
        BY <2>3, <3>2
    <2>4. ASSUME \A n \in 1..L : ~(g[n] > m) PROVE e <= m
      <3>1. CASE L = 0
        <4>1. e = 2
          BY <1>13, <2>2, <3>1 DEF Sums
        <4> QED
          BY <2>1, <4>1
      <3>2. CASE L # 0
        <4>1. ~(e > m)
          BY <2>2, <2>4, <3>2
        <4> QED
          BY <4>1
      <3> QED
        BY <3>1, <3>2
    <2> QED
      BY <2>1, <2>2, <2>3, <2>4
  <1>21. (\A n \in 1..L : ~(g[n] > MaxSource)) <=> {n \in DOMAIN p.fields : g[n] > MaxSource} = {}
    BY <1>7
  <1> QED
    BY <1>5, <1>12, <1>18, <1>19, <1>20, <1>21
-----------------------------------------------------------------------------
\* Two files clash when what is made of them has the same id or the same name.
LEMMA ClashIs ==
  ASSUME NEW p, NEW file, Describes(p, file), NEW q, NEW other, Describes(q, other)
  PROVE  Parser!Clash(file, other) <=> p.id = q.id \/ p.name = q.name
  <1>1. /\ Parser!Number(p.id) = Parser!Get(Parser!Get(file.value, "packet"), "id")
        /\ Parser!Text(p.name) = Parser!Get(Parser!Get(file.value, "packet"), "name")
        /\ Parser!Number(q.id) = Parser!Get(Parser!Get(other.value, "packet"), "id")
        /\ Parser!Text(q.name) = Parser!Get(Parser!Get(other.value, "packet"), "name")
    BY DEF Describes
  <1>2. Parser!Number(p.id) = Parser!Number(q.id) <=> p.id = q.id
    <2>1. Parser!Number(p.id).number = p.id /\ Parser!Number(q.id).number = q.id
      BY DEF Parser!Number
    <2> QED
      BY <2>1
  <1>3. Parser!Text(p.name) = Parser!Text(q.name) <=> p.name = q.name
    <2>1. Parser!Text(p.name).string = p.name /\ Parser!Text(q.name).string = q.name
      BY DEF Parser!Text
    <2> QED
      BY <2>1
  <1>4. Parser!Clash(file, other) <=> Parser!Number(p.id) = Parser!Number(q.id) \/ Parser!Text(p.name) = Parser!Text(q.name)
    BY <1>1 DEF Parser!Clash
  <1> QED
    BY <1>2, <1>3, <1>4

\* The packets before the one at hand are those of legal files.
LEMMA PriorAre ==
  ASSUME CompilerInv, inputs # <<>>, scan # "end", NEW n \in 1..Len(packets)
  PROVE  /\ n \in DOMAIN inputs /\ n \in 1..(current - 1) /\ Parser!IsSchema(inputs[n])
         /\ Describes(packets[n], inputs[n])
         /\ Len(packets) = current - 1 /\ packets \in Seq(Descriptor)
  <1>1. /\ n \in DOMAIN inputs /\ n \notin Parser!Bad /\ Describes(packets[n], inputs[n])
        /\ Len(packets) = current - 1
        /\ packets \in Seq(Descriptor)
    BY DEF CompilerInv, PriorInv
  <1>2. Parser!IsSchema(inputs[n])
    BY <1>1 DEF Parser!Bad
  <1> QED
    BY <1>1, <1>2

LEMMA ValidateKeeps ==
  ASSUME CompilerInv, inputs # <<>>, Parser!ValidateBatchPacket
  PROVE  CompilerInv'
  <1>1. /\ scan = "batch" /\ UNCHANGED <<inputs, current, packets, out, names>>
        /\ packetIds' = packetIds \union {Parser!ThePacket.id}
    BY DEF Parser!ValidateBatchPacket
  <1>2. Parser!Root \in JsonValues /\ scan \in AfterField /\ scan \in AfterFields /\ Passed(scan)
    BY <1>1, FileIs, AfterAre DEF CompilerInv
  <1>3. Parser!Fields \in Seq(JsonValues) /\ Legal(Parser!Fields)
    BY <1>2, FieldsLegal
  <1>4. Parser!ThePacket \in Descriptor /\ Describes(Parser!ThePacket, Parser!TheFile)
    BY <1>2, <1>3, PacketIs
  <1>5. packetIds = {packets[n].id : n \in 1..Len(packets)} /\ packetNames = {packets[n].name : n \in 1..Len(packets)}
    BY <1>1 DEF CompilerInv, PriorInv
  <1>6. Parser!KeysUnique[Parser!TheFile.value] /\ names' \in Seq(STRING) /\ current \in DOMAIN inputs
    BY <1>1, <1>2, AfterAre, FileIs DEF Passed, Parser!Root, CompilerInv, CompilerType
  <1>7. ASSUME NEW n \in 1..Len(packets),
               packets[n].id = Parser!ThePacket.id \/ packets[n].name = Parser!ThePacket.name
        PROVE  current \in Parser!Bad
    <2>1. /\ n \in DOMAIN inputs /\ n \in 1..(current - 1) /\ Parser!IsSchema(inputs[n])
          /\ Describes(packets[n], inputs[n])
      BY <1>1, PriorAre
    <2>2. Parser!Clash(inputs[n], Parser!TheFile)
      BY <1>4, <1>7, <2>1, ClashIs
    <2> QED
      BY <1>6, <2>1, <2>2 DEF Parser!Bad, Parser!TheFile
  <1>8. CASE Parser!ThePacket.id \in packetIds
    <2>1. PICK n \in 1..Len(packets) : packets[n].id = Parser!ThePacket.id
      BY <1>5, <1>8
    <2>2. \E path : Parser!Fail("DuplicatePacketId", path)
      BY <1>8 DEF Parser!ValidateBatchPacket
    <2>3. current \in Parser!Bad
      BY <1>7, <2>1
    <2> QED
      BY <1>1, <1>6, <2>2, <2>3, Refuse
  <1>9. CASE Parser!ThePacket.id \notin packetIds /\ Parser!ThePacket.name \in packetNames
    <2>1. PICK n \in 1..Len(packets) : packets[n].name = Parser!ThePacket.name
      BY <1>5, <1>9
    <2>2. \E path : Parser!Fail("DuplicatePacketName", path)
      BY <1>9 DEF Parser!ValidateBatchPacket, Parser!IsNewName
    <2>3. current \in Parser!Bad
      BY <1>7, <2>1
    <2> QED
      BY <1>1, <1>6, <2>2, <2>3, Refuse
  <1>10. CASE Parser!ThePacket.id \notin packetIds /\ Parser!ThePacket.name \notin packetNames
    <2>1. /\ packetNames' = packetNames \union {Parser!ThePacket.name}
          /\ scan' = "build" /\ UNCHANGED <<diagnostics, parsed>>
      BY <1>10 DEF Parser!ValidateBatchPacket, Parser!IsNewName
    <2>2. UNCHANGED <<Parser!TheFile, Parser!Root, Parser!Packet, Parser!Fields, Parser!ThePacket, Parser!Bad>>
      BY <1>1 DEF Parser!TheFile, Parser!Root, Parser!Packet, Parser!Fields, Parser!ThePacket, Parser!Bad
    <2>3. CompilerType'
      BY <1>1, <2>1, AfterAre DEF CompilerInv, CompilerType
    <2>4. Passed(scan)'
      BY <1>1, <1>2, <2>1, <2>2, AfterAre DEF Passed
    <2>5. FieldsInv'
      BY <1>1, <2>1, <2>2, AfterAre DEF CompilerInv, FieldsInv
    <2>6. ScanInv'
      BY <2>1 DEF ScanInv
    <2>7. ASSUME NEW n \in 1..Len(packets) PROVE ~Parser!Clash(inputs[n], Parser!TheFile)
      <3>1. Describes(packets[n], inputs[n])
        BY <1>1, PriorAre
      <3>2. packets[n].id # Parser!ThePacket.id /\ packets[n].name # Parser!ThePacket.name
        BY <1>5, <1>10
      <3> QED
        BY <1>4, <3>1, <3>2, ClashIs
    <2>8. PriorInv'
      <3>1. packets \in Seq(Descriptor)
            /\ \A n \in 1..Len(packets) : n \in DOMAIN inputs /\ n \notin Parser!Bad /\ Describes(packets[n], inputs[n])
        BY DEF CompilerInv, PriorInv
      <3>2. Len(packets) = current - 1
        BY <1>1 DEF CompilerInv, PriorInv
      <3> QED
        BY <1>1, <1>5, <2>1, <2>2, <2>7, <3>1, <3>2 DEF PriorInv
    <2>9. EndInv'
      BY <1>1, <2>1 DEF CompilerInv, EndInv
    <2> QED
      BY <2>3, <2>4, <2>5, <2>6, <2>8, <2>9 DEF CompilerInv
  <1> QED
    BY <1>8, <1>9, <1>10

LEMMA BuildKeeps ==
  ASSUME CompilerInv, inputs # <<>>, Parser!Build
  PROVE  CompilerInv'
  <1>1. scan = "build" /\ UNCHANGED <<inputs, packetIds, packetNames, names>>
    BY DEF Parser!Build
  <1>2. Parser!Root \in JsonValues /\ scan \in AfterField /\ scan \in AfterFields /\ Passed(scan)
    BY <1>1, FileIs, AfterAre DEF CompilerInv
  <1>3. Parser!Fields \in Seq(JsonValues) /\ Legal(Parser!Fields)
    BY <1>2, FieldsLegal
  <1>4. Parser!ThePacket \in Descriptor /\ Describes(Parser!ThePacket, Parser!TheFile)
    BY <1>2, <1>3, PacketIs
  <1>5. Parser!IsSchema(Parser!TheFile) <=>
            {n \in DOMAIN Parser!ThePacket.fields : Parser!EndOf(Parser!ThePacket)[n] > MaxSource} = {}
    BY <1>2, <1>3, LayoutDecides
  <1>6. /\ Parser!KeysUnique[Parser!TheFile.value] /\ names' \in Seq(STRING)
        /\ current \in DOMAIN inputs /\ CompilerType
    BY <1>1, <1>2, AfterAre, FileIs DEF Passed, Parser!Root, CompilerInv, CompilerType
  <1>7. CASE ~Parser!IsSchema(Parser!TheFile)
    <2>1. UNCHANGED <<current, packets, out>> /\ \E path : Parser!Fail("LayoutOverflow", path)
      BY <1>5, <1>7 DEF Parser!Build
    <2>2. current \in Parser!Bad
      BY <1>6, <1>7, BadIs
    <2> QED
      BY <1>1, <1>6, <2>1, <2>2, Refuse
  <1>8. CASE Parser!IsSchema(Parser!TheFile)
    <2>1. /\ packets' = Append(packets, Parser!ThePacket) /\ UNCHANGED diagnostics
          /\ IF current < Len(inputs)
             THEN current' = current + 1 /\ scan' = "read" /\ UNCHANGED <<parsed, out>>
             ELSE scan' = "end" /\ parsed' = "success" /\ out' = packets' /\ UNCHANGED current
      BY <1>5, <1>8 DEF Parser!Build
    <2>2. PICK p \in Descriptor : p = Parser!ThePacket
      BY <1>4
    <2>3. packets \in Seq(Descriptor) /\ Len(packets) = current - 1 /\ current \in Nat \ {0}
          /\ (\A n \in 1..Len(packets) : n \in DOMAIN inputs /\ n \notin Parser!Bad /\ Describes(packets[n], inputs[n]))
          /\ (\A n \in 1..Len(packets) : ~Parser!Clash(inputs[n], Parser!TheFile))
      BY <1>1, <1>6 DEF CompilerInv, PriorInv, CompilerType
    <2>4. PICK q \in Seq(Descriptor) : q = packets
      BY <2>3
    <2>5. PICK r : r = Append(q, p)
      OBVIOUS
    <2>6. /\ r \in Seq(Descriptor) /\ Len(r) = Len(q) + 1 /\ r[Len(q) + 1] = p
          /\ \A n \in 1..Len(q) : r[n] = q[n]
      BY <2>5, AppendIs
    <2>7. packets' = r
      BY <2>1, <2>2, <2>4, <2>5
    <2>8. Len(q) + 1 = current /\ Len(q) \in Nat /\ Len(r) = current
      BY <2>3, <2>4, <2>6
    <2>9. current \notin Parser!Bad
      <3>1. \A m \in 1..(current - 1) : ~Parser!Clash(inputs[m], inputs[current])
        BY <2>3 DEF Parser!TheFile
      <3> QED
        BY <1>8, <3>1 DEF Parser!Bad, Parser!TheFile
    <2>10. Parser!Bad' = Parser!Bad /\ inputs' = inputs
      BY <1>1 DEF Parser!Bad
    <2>11. ASSUME NEW n \in 1..Len(r)
           PROVE  n \in DOMAIN inputs /\ n \notin Parser!Bad /\ Describes(r[n], inputs[n])
      <3>1. CASE n \in 1..Len(q)
        <4>1. r[n] = packets[n] /\ n \in 1..Len(packets)
          BY <2>4, <2>6, <3>1
        <4> QED
          BY <2>3, <4>1
      <3>2. CASE n = Len(q) + 1
        <4>1. n = current /\ r[n] = Parser!ThePacket
          BY <2>2, <2>6, <2>8, <3>2
        <4> QED
          BY <1>4, <1>6, <2>9, <4>1 DEF Parser!TheFile
      <3>3. n \in 1..Len(q) \/ n = Len(q) + 1
        BY <2>6, <2>8
      <3> QED
        BY <3>1, <3>2, <3>3
    <2>12. /\ packetIds = {r[n].id : n \in 1..Len(r)}
           /\ packetNames = {r[n].name : n \in 1..Len(r)}
      <3>1. /\ packetIds = {q[n].id : n \in 1..Len(q)} \union {p.id}
            /\ packetNames = {q[n].name : n \in 1..Len(q)} \union {p.name}
        BY <1>1, <2>2, <2>4 DEF CompilerInv, PriorInv
      <3>2. \A n : n \in 1..Len(r) <=> n \in 1..Len(q) \/ n = Len(q) + 1
        BY <2>6, <2>8
      <3>3. {r[n].id : n \in 1..Len(r)} = {q[n].id : n \in 1..Len(q)} \union {p.id}
        BY <2>6, <3>2
      <3>4. {r[n].name : n \in 1..Len(r)} = {q[n].name : n \in 1..Len(q)} \union {p.name}
        BY <2>6, <3>2
      <3> QED
        BY <3>1, <3>3, <3>4
    <2>13. scan' \in {"read", "end"}
      BY <2>1
    <2>14. Passed(scan)' /\ FieldsInv' /\ ScanInv'
      BY <2>13, AfterAre DEF Passed, FieldsInv, ScanInv
    <2>15. CASE current < Len(inputs)
      <3>1. current' = current + 1 /\ scan' = "read" /\ UNCHANGED <<diagnostics, parsed, out>>
        BY <2>1, <2>15
      <3>2. CompilerType'
        <4>1. current' \in Nat \ {0} /\ current' <= Len(inputs)
          BY <1>6, <2>3, <2>15, <3>1 DEF CompilerType
        <4> QED
          BY <1>1, <1>6, <2>10, <3>1, <4>1 DEF CompilerType, CompilerSteps
      <3>3. PriorInv'
        <4>1. Len(r) = current' - 1
          BY <2>3, <2>8, <3>1
        <4> QED
          BY <1>1, <2>6, <2>7, <2>10, <2>11, <2>12, <3>1, <4>1 DEF PriorInv
      <3>4. EndInv'
        BY <1>1, <3>1 DEF CompilerInv, EndInv
      <3> QED
        BY <2>14, <3>2, <3>3, <3>4 DEF CompilerInv
    <2>16. CASE ~(current < Len(inputs))
      <3>1. scan' = "end" /\ parsed' = "success" /\ out' = r /\ UNCHANGED <<diagnostics, current>>
        BY <2>1, <2>7, <2>16
      <3>2. CompilerType'
        BY <1>1, <1>6, <2>10, <3>1 DEF CompilerType, CompilerSteps
      <3>3. PriorInv'
        BY <2>6, <2>7, <2>10, <2>11, <3>1 DEF PriorInv
      <3>4. Len(r) = Len(inputs)
        BY <1>6, <2>3, <2>8, <2>16 DEF CompilerType
      <3>5. EndInv'
        <4>1. diagnostics = <<>>
          BY <1>1 DEF CompilerInv, EndInv
        <4> QED
          BY <2>7, <2>10, <3>1, <3>4, <4>1 DEF EndInv
      <3> QED
        BY <2>14, <3>2, <3>3, <3>5 DEF CompilerInv
    <2> QED
      BY <2>15, <2>16
  <1> QED
    BY <1>7, <1>8

LEMMA CompilerInitially == Parser!Init => CompilerInv
  <1> SUFFICES ASSUME Parser!Init PROVE CompilerInv
    OBVIOUS
  <1>1. inputs \in Seq(JsonFile)
    BY InputsAssumption DEF Parser!Init, Parser!InputsTyped, JsonFile
  <1>2. CompilerType
    <2>1. inputs # <<>> => 1 <= Len(inputs)
      <3>1. PICK b \in Seq(JsonFile) : b = inputs
        BY <1>1
      <3>2. b # <<>> => 1 <= Len(b)
        OBVIOUS
      <3> QED
        BY <3>1, <3>2
    <2>2. <<>> \in Seq(STRING)
      OBVIOUS
    <2> QED
      BY <1>1, <2>1, <2>2 DEF Parser!Init, CompilerType, CompilerSteps
  <1>3. Passed(scan) /\ FieldsInv /\ ScanInv
    BY AfterAre DEF Parser!Init, Passed, FieldsInv, ScanInv
  <1>4. PriorInv
    <2>1. packets = <<>> /\ packets \in Seq(Descriptor) /\ Len(packets) = 0 /\ 1..0 = {}
      BY DEF Parser!Init
    <2> QED
      BY <2>1 DEF Parser!Init, PriorInv
  <1>5. EndInv
    BY DEF Parser!Init, EndInv
  <1> QED
    BY <1>2, <1>3, <1>4, <1>5 DEF CompilerInv

LEMMA CompilerStepKeeps == CompilerInv /\ [Parser!Next]_(Parser!vars) => CompilerInv'
  <1> SUFFICES ASSUME CompilerInv, [Parser!Next]_(Parser!vars) PROVE CompilerInv'
    OBVIOUS
  <1>1. CASE Parser!RefuseEmpty
    BY <1>1, RefuseEmptyKeeps
  <1>2. ASSUME inputs # <<>>,
               \/ Parser!ReadPacketSource \/ Parser!ParseError \/ Parser!ScanKey \/ Parser!ScanStart
               \/ Parser!ScanScalar \/ Parser!ScanEnd \/ Parser!Scanned
        PROVE  CompilerInv'
    BY <1>2, ReadKeeps, ParseErrorKeeps, KeyKeeps, StartKeeps, ScalarKeeps, EndKeeps, ScannedKeeps
  <1>3. ASSUME inputs # <<>>,
               \/ Parser!CheckRoot \/ Parser!CheckMembers \/ Parser!CheckVersion
               \/ Parser!CheckSupported \/ Parser!CheckPacket \/ Parser!CheckPacketMembers
               \/ Parser!CheckName \/ Parser!CheckId \/ Parser!CheckPayloadVersion \/ Parser!CheckFields
        PROVE  CompilerInv'
    BY <1>3, ChecksKeep
  <1>4. ASSUME inputs # <<>>,
               Parser!ParseField \/ Parser!FieldsParsed \/ Parser!ValidateBatchPacket \/ Parser!Build
        PROVE  CompilerInv'
    BY <1>4, FieldKeeps, FieldsParsedKeeps, ValidateKeeps, BuildKeeps
  <1>5. CASE UNCHANGED Parser!vars
    <2>1. /\ UNCHANGED <<inputs, current, scan, walk, event, stack, names, packetIds, packetNames, packets>>
          /\ UNCHANGED <<diagnostics, parsed, out>>
      BY <1>5 DEF Parser!vars
    <2>2. UNCHANGED <<Parser!TheFile, Parser!Root, Parser!Packet, Parser!Fields, Parser!ThePacket,
                      Parser!Bad, Parser!Walked>>
      BY <2>1
      DEF Parser!TheFile, Parser!Root, Parser!Packet, Parser!Fields, Parser!ThePacket, Parser!Bad, Parser!Walked
    <2>3. CompilerType'
      BY <2>1 DEF CompilerInv, CompilerType
    <2>4. Passed(scan)'
      BY <2>1, <2>2 DEF CompilerInv, Passed
    <2>5. FieldsInv'
      BY <2>1, <2>2 DEF CompilerInv, FieldsInv
    <2>6. ScanInv'
      BY <2>1, <2>2 DEF CompilerInv, ScanInv
    <2>7. PriorInv'
      BY <2>1, <2>2 DEF CompilerInv, PriorInv
    <2>8. EndInv'
      BY <2>1, <2>2 DEF CompilerInv, EndInv, RefusedInv
    <2> QED
      BY <2>3, <2>4, <2>5, <2>6, <2>7, <2>8 DEF CompilerInv
  <1> QED
    BY <1>1, <1>2, <1>3, <1>4, <1>5 DEF Parser!Next
-----------------------------------------------------------------------------
LEMMA InvGivesParse == CompilerInv => ParseMatches
  <1> SUFFICES ASSUME CompilerInv, scan = "end" PROVE ParseMatches
    BY DEF ParseMatches, Parser!ParseMatches
  <1>1. CASE inputs = <<>> /\ parsed = "invalid argument" /\ out = Parser!Untouched
    <2>1. Parser!Bad = {}
      <3>1. DOMAIN inputs = {}
        <4>1. PICK b \in Seq(JsonFile) : b = <<>> /\ b = inputs
          BY <1>1 DEF CompilerInv, CompilerType
        <4>2. Len(b) = 0 /\ DOMAIN b = 1..Len(b)
          BY <4>1
        <4> QED
          BY <4>1, <4>2
      <3> QED
        BY <3>1 DEF Parser!Bad
    <2> QED
      BY <1>1, <2>1 DEF ParseMatches, Parser!ParseMatches
  <1>2. CASE inputs # <<>> /\ RefusedInv
    <2>1. /\ parsed # "success" /\ out = Parser!Untouched /\ current \in Parser!Bad
          /\ Len(diagnostics) = 1 /\ diagnostics[1].file = current
          /\ Parser!TheFile.readable /\ Parser!TheFile.events = Parser!Whole =>
                (diagnostics[1].id = "DuplicateKey" <=> ~Parser!KeysUnique[Parser!TheFile.value])
      BY <1>2 DEF RefusedInv
    <2>2. ASSUME NEW n \in Parser!Bad PROVE current <= n
      <3>1. n \in DOMAIN inputs /\ DOMAIN inputs = 1..Len(inputs) /\ current \in Nat
        BY <2>2 DEF Parser!Bad, CompilerInv, CompilerType
      <3>2. n \notin 1..(current - 1)
        BY <1>2, <2>2 DEF RefusedInv, CompilerInv, PriorInv
      <3> QED
        BY <3>1, <3>2
    <2> QED
      BY <2>1, <2>2 DEF ParseMatches, Parser!ParseMatches, Parser!TheFile
  <1>3. CASE inputs # <<>> /\ parsed = "success" /\ out = packets /\ diagnostics = <<>> /\ Len(packets) = Len(inputs)
    <2>1. \A n \in 1..Len(packets) : n \in DOMAIN inputs /\ n \notin Parser!Bad /\ Describes(packets[n], inputs[n])
      BY DEF CompilerInv, PriorInv
    <2>2. DOMAIN inputs = 1..Len(inputs) /\ DOMAIN packets = 1..Len(packets)
      BY DEF CompilerInv, CompilerType, PriorInv
    <2>3. Parser!Bad = {}
      BY <1>3, <2>1, <2>2 DEF Parser!Bad
    <2>4. \A n \in DOMAIN out : Describes(out[n], inputs[n])
      BY <1>3, <2>1, <2>2
    <2> QED
      BY <1>3, <2>3, <2>4 DEF ParseMatches, Parser!ParseMatches, Describes
  <1> QED
    BY <1>1, <1>2, <1>3 DEF CompilerInv, EndInv

\* Compile gives the descriptors of the files exactly if every file is a legal schema and none
\* shares an id or a name with one before it; otherwise it leaves the caller's set alone and its
\* one diagnostic names the first bad file, a repeated key first (ParseMatches).
THEOREM ParseIsRight == Parser!Spec => []ParseMatches
  <1>1. Parser!Init => CompilerInv
    BY CompilerInitially
  <1>2. CompilerInv /\ [Parser!Next]_(Parser!vars) => CompilerInv'
    BY CompilerStepKeeps
  <1>3. CompilerInv => ParseMatches
    BY InvGivesParse
  <1> QED
    BY <1>1, <1>2, <1>3, PTL DEF Parser!Spec
=============================================================================
