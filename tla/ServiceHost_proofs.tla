------------------------- MODULE ServiceHost_proofs -------------------------
(***************************************************************************)
(* What holds of ServiceHost for any services, packets, jobs and threads:  *)
(* a job has one owner, the objects in it are constructed and destroyed    *)
(* once, nothing reaches the world unchecked, the search finds exactly     *)
(* what was registered, and the host is what JobCustody promises.          *)
(*                                                                         *)
(* The inductive invariant has four parts, each about its own variables:   *)
(* RegistryInv (what is staged, stored and looked up), OwnerInv (who has   *)
(* which job), ObjectInv (what is constructed in it) and CheckInv (what it *)
(* has been through).  The search is taken apart first: std::sort leaves   *)
(* the entries in strict order, and on such entries std::lower_bound stops *)
(* at the place where the identifier is or would be.                       *)
(*                                                                         *)
(* At the end, of ServiceJobLayout: the layout of a job is sound for every *)
(* width of the machine word, every size of the job and every binding that *)
(* was validated.                                                          *)
(***************************************************************************)
EXTENDS ServiceHost, ServiceJobLayout, FiniteSetTheorems, SequenceTheorems, TLAPS

Hosting == {"decode", "decoding", "middleware"}
Party   == Ingress \union World \union {"executor"}
-----------------------------------------------------------------------------
\* What is staged is the beginning of what is wanted, and takes no identifier twice.
StagedInv(s) ==
    /\ s = [wanted |-> s.wanted, staged |-> s.staged]
    /\ s.wanted \in Registration
    /\ s.staged \in Seq(Binding)
    /\ Len(s.staged) <= Len(s.wanted.bindings)
    /\ \A n \in 1..Len(s.staged) : s.staged[n] = s.wanted.bindings[n]
    /\ \A m, n \in 1..Len(s.staged) :
          s.staged[m].packetId = s.staged[n].packetId => m = n
    /\ \A n \in 1..Len(s.staged), m \in 1..Len(services) :
          ~HasPacketId(services[m].bindings, s.staged[n].packetId)

\* No identifier is there twice.
UniqueIds(list) ==
    \A m, n \in 1..Len(list) :
        \A k \in 1..Len(list[m].bindings), l \in 1..Len(list[n].bindings) :
            list[m].bindings[k].packetId = list[n].bindings[l].packetId => m = n /\ k = l

\* The bindings registered are those of the services.
RegisteredInv ==
    \A b : b \in registered <=>
               \E n \in 1..Len(services) :
                   \E k \in 1..Len(services[n].bindings) : b = services[n].bindings[k]

RegistryInv ==
    /\ state \in {"Configuring", "Ready", "Destroyed"}
    /\ services \in Seq(Registration)
    /\ Len(services) <= MaxServices
    /\ Cardinality(staging) <= 1
    /\ staging # {} => state = "Configuring" /\ Len(services) < MaxServices
    /\ \A s \in staging : StagedInv(s)
    /\ UniqueIds(services)
    /\ state # "Destroyed" => RegisteredInv
    /\ state = "Ready" => lookup = Sorted(LookupEntries)

\* x has job j: an ingress thread, a world thread, or the executor.
Owns(x, j) ==
    \/ x \in Ingress /\ job[x] = j /\ pc[x] \in Hosting
    \/ x \in World /\ worldJob[x] = j
    \/ x = "executor" /\ j \in inbox

\* An allocated job has one owner, another has none.
Sole(j) == IF j \in allocated THEN \E x \in Party : \A y : Owns(y, j) <=> y = x
           ELSE \A y : ~Owns(y, j)

OwnerType ==
    /\ pc \in [Ingress -> {"idle", "decode", "decoding", "middleware", "admitted"}]
    /\ job \in [Ingress -> Job \union {NoJob}]
    /\ allocated \in SUBSET Job
    /\ inbox \in SUBSET Job
    /\ worldPc \in [World -> {"idle", "holding", "handler", "encode", "output"}]
    /\ worldJob \in [World -> Job \union {NoJob}]
    /\ \A t \in Ingress : pc[t] = "idle" <=> job[t] = NoJob
    /\ \A w \in World : worldPc[w] = "idle" <=> worldJob[w] = NoJob

OwnerInv == OwnerType /\ \A j \in Job : Sole(j)

\* A request is there from the binding's construction on, a response while a world thread is
\* in the handler or the encoder of its job.
Requested(t) == pc[t] \in Hosting => requests[job[t]] = (IF pc[t] = "decode" THEN 0 ELSE 1)

Responding(w, j) ==
    worldJob[w] = j /\ (worldPc[w] = "encode" \/ (worldPc[w] = "handler" /\ Responds(j)))

Balanced(j) ==
    /\ j \notin allocated => requests[j] = 0 /\ responses[j] = 0
    /\ (j \in inbox \/ \E w \in World : worldJob[w] = j) => requests[j] = 1
    /\ responses[j] = 1 <=> \E w \in World : Responding(w, j)

ObjectInv ==
    /\ requests \in [Job -> {0, 1}]
    /\ responses \in [Job -> {0, 1}]
    /\ \A t \in Ingress : Requested(t)
    /\ \A j \in Job : Balanced(j)

\* A job is Ready until it is executed, which only the world does ...
Fresh(t) == pc[t] \in Hosting => jobState[job[t]] = "Ready"

\* ... and it is of the service, the binding and the size that were looked up for its packet.
Checked(j) ==
    /\ j \in allocated =>
          /\ info[j].service.middlewareCount \in Nat
          /\ passed[j] <= info[j].service.middlewareCount
          /\ info[j].binding.packetId = info[j].packet.id
          /\ info[j].binding.payloadBytes = info[j].packet.size
          /\ info[j].binding \in registered
    /\ j \in inbox => jobState[j] = "Ready"
    /\ InWorld(j) => passed[j] = info[j].service.middlewareCount

CheckInv ==
    /\ info = [j \in Job |-> info[j]]
    /\ passed \in [Job -> Nat]
    /\ jobState \in [Job -> {"Ready", "Executed"}]
    /\ handled = [j \in Job |-> IF jobState[j] = "Ready" THEN 0 ELSE 1]
    /\ \A t \in Ingress : Fresh(t)
    /\ \A j \in Job : Checked(j)

Inv == RegistryInv /\ OwnerInv /\ ObjectInv /\ CheckInv
-----------------------------------------------------------------------------
(***************************************************************************)
(* std::sort and std::lower_bound                                          *)
(***************************************************************************)
\* A finite set of entries with different identifiers can be put in strict order: an entry
\* goes to the place behind all that are below it.
LEMMA EntriesCanBeSorted ==
  ASSUME NEW E, IsFiniteSet(E),
         \A e \in E : e.packetId \in Nat,
         \A e, f \in E : e.packetId = f.packetId => e = f
  PROVE  \E s \in SetToSeqs(E) :
             \A m, n \in DOMAIN s : m < n => s[m].packetId <= s[n].packetId
  <1> DEFINE Below(e) == {f \in E : f.packetId < e.packetId}
             N == Cardinality(E)
  <1>1. N \in Nat /\ IsFiniteSet(1..N) /\ Cardinality(1..N) = N
    BY FS_CardinalityType, FS_Interval
  <1>2. \A e \in E : IsFiniteSet(Below(e)) /\ Cardinality(Below(e)) \in Nat
    BY FS_Subset, FS_CardinalityType
  <1>3. ASSUME NEW e \in E PROVE Cardinality(Below(e)) < N
    <2>1. Below(e) \in SUBSET (E \ {e})
      OBVIOUS
    <2>2. IsFiniteSet(E \ {e}) /\ Cardinality(E \ {e}) = N - 1
      BY FS_RemoveElement
    <2>3. Cardinality(Below(e)) <= N - 1
      BY <2>1, <2>2, FS_Subset
    <2> QED
      BY <1>1, <1>2, <2>3
  <1>4. ASSUME NEW e \in E, NEW f \in E, e.packetId < f.packetId
        PROVE  Cardinality(Below(e)) < Cardinality(Below(f))
    <2>1. Below(e) \union {e} \in SUBSET Below(f) /\ e \notin Below(e)
      BY <1>4
    <2>2. Cardinality(Below(e) \union {e}) = Cardinality(Below(e)) + 1
      BY <1>2, <2>1, FS_AddElement
    <2>3. Cardinality(Below(e) \union {e}) <= Cardinality(Below(f))
      BY <1>2, <2>1, FS_Subset
    <2> QED
      BY <1>2, <2>2, <2>3
  <1> HIDE DEF Below, N
  <1>5. PICK rank \in [E -> Nat] : \A e \in E : rank[e] = Cardinality(Below(e)) + 1
    <2>1. \A e \in E : Cardinality(Below(e)) + 1 \in Nat
      BY <1>2
    <2> DEFINE r == [e \in E |-> Cardinality(Below(e)) + 1]
    <2>2. r \in [E -> Nat] /\ \A e \in E : r[e] = Cardinality(Below(e)) + 1
      BY <2>1, Zenon
    <2> QED
      BY <2>2
  <1>6. /\ \A e \in E : rank[e] \in 1..N
        /\ \A e, f \in E : e.packetId < f.packetId => rank[e] < rank[f]
    <2>1. ASSUME NEW e \in E PROVE rank[e] \in 1..N
      BY <1>1, <1>2, <1>3, <1>5
    <2>2. ASSUME NEW e \in E, NEW f \in E, e.packetId < f.packetId PROVE rank[e] < rank[f]
      <3>1. Cardinality(Below(e)) < Cardinality(Below(f))
        BY <1>4, <2>2
      <3>2. rank[e] = Cardinality(Below(e)) + 1 /\ rank[f] = Cardinality(Below(f)) + 1
        BY <1>5
      <3> QED
        BY <1>2, <3>1, <3>2
    <2> QED
      BY <2>1, <2>2
  <1>7. rank \in Surjection(E, 1..N)
    <2>1. rank \in [E -> 1..N]
      BY <1>5, <1>6
    <2>2. ASSUME NEW e \in E, NEW f \in E, rank[e] = rank[f] PROVE e = f
      <3>1. ~(rank[e] < rank[f]) /\ ~(rank[f] < rank[e])
        BY <1>5, <2>2
      <3>2. ~(e.packetId < f.packetId) /\ ~(f.packetId < e.packetId)
        BY <1>6, <3>1
      <3> QED
        BY <3>2
    <2>3. rank \in Injection(E, 1..N)
      BY <2>1, <2>2 DEF Injection, IsInjective
    <2> QED
      BY <1>1, <2>3, FS_Injection DEF N
  <1> DEFINE s == [n \in 1..N |-> CHOOSE e \in E : rank[e] = n]
  <1>8. \A n \in 1..N : s[n] \in E /\ rank[s[n]] = n
    BY <1>7 DEF Surjection
  <1> HIDE DEF s
  <1>9. s \in [1..N -> E]
    BY <1>8 DEF s
  <1>10. ASSUME NEW m \in 1..N, NEW n \in 1..N, m < n PROVE s[m].packetId <= s[n].packetId
    <2>1. s[m] \in E /\ s[n] \in E /\ s[m].packetId \in Nat /\ s[n].packetId \in Nat
      BY <1>8
    <2>2. ~(s[n].packetId < s[m].packetId)
      BY <1>1, <1>6, <1>8, <1>10, <2>1
    <2> QED
      BY <2>1, <2>2
  <1>11. s \in SetToSeqs(E)
    <2>1. \A m, n \in 1..N : m # n => s[m] # s[n]
      BY <1>8
    <2> QED
      BY <1>9, <2>1 DEF SetToSeqs, N
  <1> QED
    BY <1>9, <1>10, <1>11

\* Numbers have a least one.
LEMMA LeastNumber ==
  ASSUME NEW T, T \subseteq Nat, T # {}
  PROVE  \E x \in T : \A y \in T : x <= y
  <1>1. PICK x \in T : \A y \in T : ~(<<y, x>> \in OpToRel(<, Nat))
    BY NatLessThanWellFounded, WFMin
  <1>2. \A y \in T : ~(y < x)
    BY <1>1 DEF OpToRel
  <1>3. x \in Nat /\ \A y \in T : y \in Nat
    OBVIOUS
  <1> QED
    BY <1>2, <1>3

\* A function that does what LowerBound's search does.
IsSearch(search, id) ==
    search = [count \in 0..Len(lookup) |->
                [first \in 1..(Len(lookup) + 1 - count) |->
                    LET half == count \div 2
                        middle == first + half
                    IN  IF count = 0 THEN first
                        ELSE IF lookup[middle].packetId < id
                        THEN search[count - half - 1][middle + 1]
                        ELSE search[half][first]]]

LEMMA LowerBoundSearches ==
  \A id : LowerBound(id) = (CHOOSE search : IsSearch(search, id))[Len(lookup)][1]
  BY Zenon DEF LowerBound, IsSearch

\* Entries on either side of a place: those before it are below the identifier, those behind are not.
IsPlaceOf(k, id) ==
    /\ k \in 1..(Len(lookup) + 1)
    /\ \A m \in 1..Len(lookup) : lookup[m].packetId < id <=> m < k

\* The halves of a count, and where they lie.
LEMMA Halves ==
  ASSUME NEW count \in Nat, count # 0
  PROVE  /\ count \div 2 \in 0..(count - 1)
         /\ count - (count \div 2) - 1 \in 0..(count - 1)
  OBVIOUS

\* There is such a function when the entries have a place for the identifier ...
LEMMA SearchExists ==
  ASSUME Len(lookup) \in Nat, NEW id, NEW k, IsPlaceOf(k, id)
  PROVE  \E search : IsSearch(search, id)
  <1> DEFINE len == Len(lookup)
             Near(count, first) == IF k < first THEN first
                                   ELSE IF k > first + count THEN first + count ELSE k
             g == [count \in 0..len |-> [first \in 1..(len + 1 - count) |-> Near(count, first)]]
  <1>1. \A count \in 0..len : \A first \in 1..(len + 1 - count) : g[count][first] = Near(count, first)
    OBVIOUS
  <1>2. ASSUME NEW count \in 0..len, NEW first \in 1..(len + 1 - count)
        PROVE  Near(count, first) =
                    LET half == count \div 2
                        middle == first + half
                    IN  IF count = 0 THEN first
                        ELSE IF lookup[middle].packetId < id
                        THEN g[count - half - 1][middle + 1]
                        ELSE g[half][first]
    <2>1. CASE count = 0
      BY <2>1 DEF IsPlaceOf
    <2>2. CASE count # 0
      <3>1. PICK half \in 0..(count - 1) : half = count \div 2
        BY <2>2, Halves
      <3>2. PICK middle \in 1..len : middle = first + half
        BY <3>1
      <3>3. /\ g[count - half - 1][middle + 1] = Near(count - half - 1, middle + 1)
            /\ g[half][first] = Near(half, first)
        <4>1. /\ count - half - 1 \in 0..len
              /\ middle + 1 \in 1..(len + 1 - (count - half - 1))
          BY <3>1, <3>2
        <4>2. half \in 0..len /\ first \in 1..(len + 1 - half)
          BY <3>1
        <4> QED
          BY <1>1, <4>1, <4>2
      <3>4. CASE middle < k
        <4>1. Near(count, first) = Near(count - half - 1, middle + 1)
          <5>1. /\ middle + 1 + (count - half - 1) = first + count
                /\ first < middle + 1 /\ middle + 1 <= k
            BY <3>1, <3>2, <3>4 DEF IsPlaceOf
          <5>2. k \in Nat /\ first \in Nat
            BY DEF IsPlaceOf
          <5> QED
            BY <5>1, <5>2
        <4>2. lookup[middle].packetId < id
          BY <3>2, <3>4 DEF IsPlaceOf
        <4> HIDE DEF Near, g
        <4> QED
          BY <2>2, <3>1, <3>2, <3>3, <4>1, <4>2
      <3>5. CASE ~(middle < k)
        <4>1. Near(count, first) = Near(half, first)
          BY <3>1, <3>2, <3>5 DEF IsPlaceOf
        <4>2. ~(lookup[middle].packetId < id)
          BY <3>2, <3>5 DEF IsPlaceOf
        <4> HIDE DEF Near, g
        <4> QED
          BY <2>2, <3>1, <3>2, <3>3, <4>1, <4>2
      <3> QED
        BY <3>4, <3>5
    <2> QED
      BY <2>1, <2>2
  <1>3. IsSearch(g, id)
    BY <1>2, Zenon DEF IsSearch
  <1> QED
    BY <1>3

\* ... and every such function answers the place: the smallest count for which it did not would
\* have answered what a smaller one does.
LEMMA SearchAnswers ==
  ASSUME Len(lookup) \in Nat, NEW id, NEW k, IsPlaceOf(k, id),
         NEW search, IsSearch(search, id)
  PROVE  search[Len(lookup)][1] = k
  <1> DEFINE len == Len(lookup)
             Right(count) == \A first \in 1..(len + 1 - count) :
                                first <= k /\ k <= first + count => search[count][first] = k
             Wrong == {count \in 0..len : ~Right(count)}
  <1> DEFINE Answer(count, first) ==
                 LET half == count \div 2
                     middle == first + half
                 IN  IF count = 0 THEN first
                     ELSE IF lookup[middle].packetId < id
                     THEN search[count - half - 1][middle + 1]
                     ELSE search[half][first]
  <1>1. \A count \in 0..len : \A first \in 1..(len + 1 - count) :
             search[count][first] = Answer(count, first)
    <2>1. \A count \in 0..len :
             search[count] = [first \in 1..(len + 1 - count) |-> Answer(count, first)]
      BY Zenon DEF IsSearch
    <2> HIDE DEF Answer
    <2> QED
      BY <2>1
  <1>2. ASSUME NEW count \in 0..len, \A c \in 0..(count - 1) : Right(c)
        PROVE  Right(count)
    <2> SUFFICES ASSUME NEW first \in 1..(len + 1 - count), first <= k, k <= first + count
                 PROVE  search[count][first] = k
      OBVIOUS
    <2>1. CASE count = 0
      BY <1>1, <2>1 DEF IsPlaceOf
    <2>2. CASE count # 0
      <3>1. PICK half \in 0..(count - 1) : half = count \div 2
        BY <2>2, Halves
      <3>2. PICK middle \in 1..len : middle = first + half
        BY <3>1
      <3>3. CASE middle < k
        <4>1. search[count][first] = search[count - half - 1][middle + 1]
          BY <1>1, <2>2, <3>1, <3>2, <3>3 DEF IsPlaceOf
        <4>2. PICK rest \in 0..(count - 1), next \in 1..(len + 1 - (count - half - 1)) :
                 rest = count - half - 1 /\ next = middle + 1
          BY <3>1, <3>2
        <4>3. next <= k /\ k <= next + rest
          BY <3>1, <3>2, <3>3, <4>2 DEF IsPlaceOf
        <4> QED
          BY <1>2, <4>1, <4>2, <4>3
      <3>4. CASE ~(middle < k)
        <4>1. search[count][first] = search[half][first]
          BY <1>1, <2>2, <3>1, <3>2, <3>4 DEF IsPlaceOf
        <4>2. first \in 1..(len + 1 - half) /\ k <= first + half
          BY <3>1, <3>2, <3>4 DEF IsPlaceOf
        <4> QED
          BY <1>2, <3>1, <4>1, <4>2
      <3> QED
        BY <3>3, <3>4
    <2> QED
      BY <2>1, <2>2
  <1> HIDE DEF Right
  <1>3. Wrong = {}
    <2>1. SUFFICES ASSUME Wrong # {} PROVE FALSE
      OBVIOUS
    <2>2. PICK least \in Wrong : \A c \in Wrong : least <= c
      <3>1. Wrong \subseteq Nat
        OBVIOUS
      <3> HIDE DEF Wrong
      <3> QED
        BY <2>1, <3>1, LeastNumber
    <2>3. \A c \in 0..(least - 1) : Right(c)
      BY <2>2
    <2> QED
      BY <1>2, <2>2, <2>3
  <1>4. Right(len)
    BY <1>3
  <1> QED
    BY <1>4 DEF Right, IsPlaceOf

\* std::lower_bound answers the place of the identifier.
LEMMA LowerBoundIsPlace ==
  ASSUME Len(lookup) \in Nat, NEW id, NEW k, IsPlaceOf(k, id)
  PROVE  LowerBound(id) = k
  <1>1. PICK search : search = CHOOSE s : IsSearch(s, id)
    OBVIOUS
  <1>2. IsSearch(search, id)
    BY <1>1, SearchExists, Zenon
  <1> QED
    BY <1>1, <1>2, SearchAnswers, LowerBoundSearches
-----------------------------------------------------------------------------
(***************************************************************************)
(* The lookup                                                              *)
(***************************************************************************)
LEMMA RegistrationShape ==
  \A r \in Registration : /\ r.bindings \in Seq(Binding)
                          /\ r.middlewareCount \in Nat
                          /\ r = [bindings |-> r.bindings, middlewareCount |-> r.middlewareCount]
                          /\ Len(r.bindings) \in Nat
                          /\ DOMAIN r.bindings = 1..Len(r.bindings)
                          /\ \A k \in 1..Len(r.bindings) :
                                r.bindings[k] \in Binding /\ r.bindings[k].packetId \in Nat
  <1> SUFFICES ASSUME NEW r \in Registration
               PROVE  /\ r.bindings \in Seq(Binding)
                      /\ r.middlewareCount \in Nat
                      /\ r = [bindings |-> r.bindings, middlewareCount |-> r.middlewareCount]
                      /\ Len(r.bindings) \in Nat
                      /\ DOMAIN r.bindings = 1..Len(r.bindings)
                      /\ \A k \in 1..Len(r.bindings) :
                            r.bindings[k] \in Binding /\ r.bindings[k].packetId \in Nat
    OBVIOUS
  <1>1. r \in [bindings : Seq(Binding), middlewareCount : Nat]
    BY HostAssumption
  <1>2. /\ r.bindings \in Seq(Binding) /\ r.middlewareCount \in Nat
        /\ r = [bindings |-> r.bindings, middlewareCount |-> r.middlewareCount]
    BY <1>1
  <1>3. \A b \in Binding : b.packetId \in Nat
    BY DEF Binding
  <1> QED
    BY <1>2, <1>3

LEMMA ServicesShape ==
  ASSUME services \in Seq(Registration)
  PROVE  /\ Len(services) \in Nat
         /\ DOMAIN services = 1..Len(services)
         /\ \A n \in 1..Len(services) :
               /\ services[n] \in Registration
               /\ DOMAIN services[n].bindings = 1..Len(services[n].bindings)
               /\ Len(services[n].bindings) \in Nat
               /\ \A k \in 1..Len(services[n].bindings) :
                     /\ services[n].bindings[k] \in Binding
                     /\ services[n].bindings[k].packetId \in Nat
  <1>1. \A n \in 1..Len(services) : services[n] \in Registration
    OBVIOUS
  <1> QED
    BY <1>1, RegistrationShape

Entry(n, k) == [packetId |-> services[n].bindings[k].packetId, serviceIndex |-> n,
                bindingIndex |-> k]

LEMMA EntriesOfServices ==
  ASSUME services \in Seq(Registration)
  PROVE  LookupEntries = UNION {{Entry(n, k) : k \in 1..Len(services[n].bindings)}
                                   : n \in 1..Len(services)}
  BY ServicesShape DEF LookupEntries, Entry

LEMMA EntryMembers ==
  ASSUME services \in Seq(Registration), NEW e
  PROVE  e \in LookupEntries <=> \E n \in 1..Len(services) :
                                    \E k \in 1..Len(services[n].bindings) : e = Entry(n, k)
  BY EntriesOfServices

LEMMA ImageIsFinite ==
  ASSUME NEW S, IsFiniteSet(S), NEW f
  PROVE  IsFiniteSet({f[x] : x \in S})
  <1> DEFINE T == {f[x] : x \in S}
             g == [x \in S |-> f[x]]
  <1>1. g \in Surjection(S, T)
    BY DEF Surjection
  <1> QED
    BY <1>1, FS_Surjection

LEMMA EntriesFinite ==
  ASSUME services \in Seq(Registration)
  PROVE  IsFiniteSet(LookupEntries)
  <1> DEFINE OfService(n) == {Entry(n, k) : k \in 1..Len(services[n].bindings)}
             D == 1..Len(services)
  <1>1. ASSUME NEW n \in D PROVE IsFiniteSet(OfService(n))
    <2>1. IsFiniteSet(1..Len(services[n].bindings))
      <3>1. 1 \in Int /\ Len(services[n].bindings) \in Int
        BY ServicesShape
      <3> QED
        BY <3>1, FS_Interval
    <2> DEFINE f == [k \in 1..Len(services[n].bindings) |-> Entry(n, k)]
    <2>2. OfService(n) = {f[k] : k \in 1..Len(services[n].bindings)}
      OBVIOUS
    <2> HIDE DEF f
    <2> QED
      BY <2>1, <2>2, ImageIsFinite
  <1>2. IsFiniteSet({OfService(n) : n \in D})
    <2>1. IsFiniteSet(D)
      <3>1. 1 \in Int /\ Len(services) \in Int
        OBVIOUS
      <3> QED
        BY <3>1, FS_Interval
    <2> DEFINE f == [n \in D |-> OfService(n)]
    <2> HIDE DEF OfService, D
    <2>2. {OfService(n) : n \in D} = {f[n] : n \in D}
      OBVIOUS
    <2> HIDE DEF f
    <2> QED
      BY <2>1, <2>2, ImageIsFinite
  <1> HIDE DEF OfService, D
  <1>3. \A T \in {OfService(n) : n \in D} : IsFiniteSet(T)
    BY <1>1
  <1>4. IsFiniteSet(UNION {OfService(n) : n \in D})
    BY <1>2, <1>3, FS_UNION
  <1> QED
    BY <1>4, EntriesOfServices DEF OfService, D

\* The lookup of a host that is Ready: every entry, once, in order.
LEMMA ReadyLookup ==
  ASSUME RegistryInv, state = "Ready"
  PROVE  /\ Len(lookup) \in Nat
         /\ \A m \in 1..Len(lookup) : lookup[m] \in LookupEntries /\ lookup[m].packetId \in Nat
         /\ \A e \in LookupEntries : \E m \in 1..Len(lookup) : lookup[m] = e
         /\ \A m, n \in 1..Len(lookup) : m < n => lookup[m].packetId <= lookup[n].packetId
  <1> USE DEF RegistryInv
  <1>1. /\ \A e \in LookupEntries : e.packetId \in Nat
        /\ \A e, f \in LookupEntries : e.packetId = f.packetId => e = f
    <2>1. ASSUME NEW e \in LookupEntries PROVE e.packetId \in Nat
      BY EntryMembers, ServicesShape DEF Entry
    <2>2. ASSUME NEW e \in LookupEntries, NEW f \in LookupEntries, e.packetId = f.packetId
          PROVE  e = f
      <3>1. PICK n \in 1..Len(services) : \E k \in 1..Len(services[n].bindings) : e = Entry(n, k)
        BY EntryMembers
      <3>2. PICK k \in 1..Len(services[n].bindings) : e = Entry(n, k)
        BY <3>1
      <3>3. PICK m \in 1..Len(services) : \E l \in 1..Len(services[m].bindings) : f = Entry(m, l)
        BY EntryMembers
      <3>4. PICK l \in 1..Len(services[m].bindings) : f = Entry(m, l)
        BY <3>3
      <3>5. services[n].bindings[k].packetId = services[m].bindings[l].packetId
        BY <2>2, <3>2, <3>4 DEF Entry
      <3> QED
        BY <3>2, <3>4, <3>5 DEF UniqueIds
    <2> QED
      BY <2>1, <2>2
  <1> DEFINE E == LookupEntries
             N == Cardinality(E)
  <1>2. IsFiniteSet(E)
    BY EntriesFinite
  <1>3. lookup \in SetToSeqs(E) /\ \A m, n \in DOMAIN lookup :
                                      m < n => lookup[m].packetId <= lookup[n].packetId
    <2> HIDE DEF E
    <2>1. lookup = Sorted(E)
      BY DEF E
    <2>2. \E s \in SetToSeqs(E) : \A m, n \in DOMAIN s : m < n => s[m].packetId <= s[n].packetId
      <3>1. /\ \A e \in E : e.packetId \in Nat
            /\ \A e, f \in E : e.packetId = f.packetId => e = f
        BY <1>1 DEF E
      <3> QED
        BY <1>2, <3>1, EntriesCanBeSorted, Zenon
    <2> QED
      BY <2>1, <2>2, Zenon DEF Sorted
  <1> HIDE DEF E
  <1>4. /\ lookup \in [1..N -> E] /\ DOMAIN lookup = 1..N
        /\ \A m, n \in 1..N : m # n => lookup[m] # lookup[n]
    BY <1>3 DEF SetToSeqs
  <1>5. N \in Nat /\ IsFiniteSet(1..N) /\ Cardinality(1..N) = N
    BY <1>2, FS_CardinalityType, FS_Interval
  <1> HIDE DEF N
  <1>6. Len(lookup) = N
    BY <1>4, <1>5
  <1>7. lookup \in Surjection(1..N, E)
    <2>1. lookup \in Injection(1..N, E)
      BY <1>4 DEF Injection, IsInjective
    <2> QED
      BY <1>2, <1>5, <2>1, FS_Injection DEF N
  <1>8. \A e \in E : \E m \in 1..N : lookup[m] = e
    BY <1>7 DEF Surjection
  <1>9. \A m \in 1..N : lookup[m] \in E /\ lookup[m].packetId \in Nat
    BY <1>1, <1>4 DEF E
  <1> QED
    BY <1>3, <1>4, <1>5, <1>6, <1>8, <1>9 DEF E

\* There is a place for every identifier in a lookup that is in order.
LEMMA PlaceExists ==
  ASSUME RegistryInv, state = "Ready", NEW id \in Nat
  PROVE  \E k : IsPlaceOf(k, id)
  <1> DEFINE N == Len(lookup)
             T == {m \in 1..(N + 1) : m = N + 1 \/ ~(lookup[m].packetId < id)}
  <1>1. /\ N \in Nat
        /\ \A m \in 1..N : lookup[m].packetId \in Nat
        /\ \A m, n \in 1..N : m < n => lookup[m].packetId <= lookup[n].packetId
    BY ReadyLookup
  <1> HIDE DEF N
  <1>2. PICK k \in T : \A y \in T : k <= y
    <2>1. T \subseteq Nat /\ N + 1 \in T
      BY <1>1
    <2> HIDE DEF T
    <2> QED
      BY <2>1, LeastNumber
  <1>3. k \in 1..(N + 1) /\ (k = N + 1 \/ ~(lookup[k].packetId < id))
    OBVIOUS
  <1>4. ASSUME NEW m \in 1..N PROVE lookup[m].packetId < id <=> m < k
    <2>1. CASE m < k
      <3>1. m \notin T
        BY <1>1, <1>2, <1>3, <2>1
      <3> QED
        BY <1>1, <2>1, <3>1
    <2>2. CASE m = k
      BY <1>1, <1>3, <2>2
    <2>3. CASE k < m
      <3>1. k \in 1..N /\ ~(lookup[k].packetId < id) /\ lookup[k].packetId <= lookup[m].packetId
        BY <1>1, <1>3, <2>3
      <3> QED
        BY <1>1, <2>3, <3>1
    <2> QED
      BY <1>1, <1>3, <2>1, <2>2, <2>3
  <1> QED
    BY <1>3, <1>4 DEF IsPlaceOf, N

\* An identifier is found if an entry has it, and the entry found is one that has it.
LEMMA FoundIffListed ==
  ASSUME RegistryInv, state = "Ready", NEW id \in Nat
  PROVE  /\ IsFound(id) <=> \E m \in 1..Len(lookup) : lookup[m].packetId = id
         /\ IsFound(id) => LowerBound(id) \in 1..Len(lookup)
  <1>1. PICK k : IsPlaceOf(k, id)
    BY PlaceExists
  <1>2. /\ Len(lookup) \in Nat
        /\ \A m \in 1..Len(lookup) : lookup[m].packetId \in Nat
        /\ \A m, n \in 1..Len(lookup) : m < n => lookup[m].packetId <= lookup[n].packetId
    BY ReadyLookup
  <1>3. LowerBound(id) = k
    BY <1>1, <1>2, LowerBoundIsPlace
  <1>4. k \in 1..(Len(lookup) + 1) /\ \A m \in 1..Len(lookup) : lookup[m].packetId < id <=> m < k
    BY <1>1 DEF IsPlaceOf
  <1>5. ASSUME NEW m \in 1..Len(lookup), lookup[m].packetId = id
        PROVE  k <= Len(lookup) /\ lookup[k].packetId = id
    <2>1. ~(m < k) /\ k \in 1..Len(lookup)
      BY <1>2, <1>4, <1>5
    <2>2. ~(lookup[k].packetId < id) /\ lookup[k].packetId <= lookup[m].packetId
      BY <1>2, <1>4, <2>1
    <2> QED
      BY <1>2, <1>5, <2>1, <2>2
  <1> QED
    BY <1>2, <1>3, <1>4, <1>5 DEF IsFound

\* What is found is a binding of a registered service, and of that identifier.
LEMMA FoundBinding ==
  ASSUME RegistryInv, state = "Ready", NEW id \in Nat, IsFound(id)
  PROVE  /\ FindBinding(id).packetId = id
         /\ FindBinding(id) \in registered
         /\ FindService(id).middlewareCount \in Nat
  <1>1. PICK p : p = LowerBound(id)
    OBVIOUS
  <1>2. p \in 1..Len(lookup) /\ lookup[p].packetId = id
    BY <1>1, FoundIffListed DEF IsFound
  <1>3. PICK n \in 1..Len(services) :
           \E k \in 1..Len(services[n].bindings) : lookup[p] = Entry(n, k)
    <2>1. services \in Seq(Registration) /\ lookup[p] \in LookupEntries
      BY <1>2, ReadyLookup DEF RegistryInv
    <2> QED
      BY <2>1, EntryMembers
  <1>4. PICK k \in 1..Len(services[n].bindings) : lookup[p] = Entry(n, k)
    BY <1>3
  <1>5. /\ lookup[p].serviceIndex = n /\ lookup[p].bindingIndex = k
        /\ lookup[p].packetId = services[n].bindings[k].packetId
    BY <1>4 DEF Entry
  <1>6. FindService(id) = services[n] /\ FindBinding(id) = services[n].bindings[k]
    BY <1>1, <1>5, Zenon DEF FindService, FindBinding
  <1>7. services[n] \in Registration
    BY DEF RegistryInv
  <1>8. services[n].middlewareCount \in Nat
    BY <1>7, RegistrationShape
  <1>9. services[n].bindings[k] \in registered
    BY DEF RegistryInv, RegisteredInv
  <1> QED
    BY <1>2, <1>5, <1>6, <1>8, <1>9

\* An identifier is found if a binding with it was registered.
LEMMA FoundIffRegistered ==
  ASSUME RegistryInv, state = "Ready", NEW id \in Nat
  PROVE  IsFound(id) <=> \E b \in registered : b.packetId = id
  <1>1. services \in Seq(Registration)
    BY DEF RegistryInv
  <1>2. ASSUME NEW b \in registered, b.packetId = id PROVE IsFound(id)
    <2>1. PICK n \in 1..Len(services) :
             \E k \in 1..Len(services[n].bindings) : b = services[n].bindings[k]
      BY DEF RegistryInv, RegisteredInv
    <2>2. PICK k \in 1..Len(services[n].bindings) : b = services[n].bindings[k]
      BY <2>1
    <2>3. Entry(n, k) \in LookupEntries
      BY <1>1, EntryMembers
    <2>4. PICK m \in 1..Len(lookup) : lookup[m] = Entry(n, k)
      BY <2>3, ReadyLookup
    <2>5. lookup[m].packetId = id
      BY <1>2, <2>2, <2>4 DEF Entry
    <2> QED
      BY <2>5, FoundIffListed
  <1> QED
    BY <1>2, FoundBinding
-----------------------------------------------------------------------------
(***************************************************************************)
(* The invariant, part by part                                             *)
(***************************************************************************)
LEMMA InitInv == Init => Inv
  <1> SUFFICES ASSUME Init PROVE Inv
    OBVIOUS
  <1> USE DEF Init
  <1>1. RegistryInv
    BY HostAssumption, FS_EmptySet DEF RegistryInv, RegisteredInv, UniqueIds
  <1>2. OwnerInv
    <2>1. ASSUME NEW j \in Job PROVE Sole(j)
      BY HostAssumption DEF Sole, Owns, Hosting
    <2>2. OwnerType
      BY DEF OwnerType
    <2> QED
      BY <2>1, <2>2 DEF OwnerInv
  <1>3. ObjectInv
    BY HostAssumption DEF ObjectInv, Requested, Balanced, Responding, Hosting
  <1>4. CheckInv
    BY HostAssumption DEF CheckInv, Fresh, Checked, InWorld, Hosting
  <1> QED
    BY <1>1, <1>2, <1>3, <1>4 DEF Inv

\* What RegistryInv says of the services, as long as they are the same.
LEMMA ServicesSame ==
  ASSUME RegistryInv, UNCHANGED <<state, services, registered>>
  PROVE  /\ UniqueIds(services') /\ (state' # "Destroyed" => RegisteredInv')
         /\ LookupEntries' = LookupEntries
  <1>1. UniqueIds(services')
    <2>1. UniqueIds(services) /\ services' = services
      BY DEF RegistryInv
    <2> QED
      BY <2>1, Zenon
  <1>2. state' # "Destroyed" => RegisteredInv'
    <2>1. (state # "Destroyed" => RegisteredInv) /\ UNCHANGED <<state, services, registered>>
      BY DEF RegistryInv
    <2> QED
      BY <2>1 DEF RegisteredInv
  <1> QED
    BY <1>1, <1>2 DEF LookupEntries

\* The registry is only touched by registration and by Destroy.
LEMMA RegistrySame == RegistryInv /\ UNCHANGED hostVars => RegistryInv'
  <1> SUFFICES ASSUME RegistryInv, UNCHANGED hostVars PROVE RegistryInv'
    OBVIOUS
  <1> USE DEF hostVars
  <1>1. \A s \in staging : StagedInv(s)'
    BY DEF RegistryInv, StagedInv
  <1> QED
    BY <1>1, ServicesSame DEF RegistryInv

LEMMA RegisterKeepsRegistry ==
  ASSUME RegistryInv, NEW r \in Registration, RegisterService(r)
  PROVE  RegistryInv'
  <1> DEFINE s == [wanted |-> r, staged |-> << >>]
  <1>1. staging' = {s} /\ UNCHANGED <<state, services, lookup, registered>>
    BY DEF RegisterService
  <1>2. StagedInv(s)'
    <2>1. s.wanted = r /\ s.staged = << >> /\ Len(<< >>) = 0
      OBVIOUS
    <2> QED
      BY <2>1, RegistrationShape DEF StagedInv
  <1> HIDE DEF s
  <1>3. LookupEntries' = LookupEntries /\ Cardinality(staging') <= 1
    BY <1>1, FS_Singleton DEF LookupEntries
  <1>4. UniqueIds(services') /\ (state' # "Destroyed" => RegisteredInv')
    BY <1>1, ServicesSame
  <1> QED
    BY <1>1, <1>2, <1>3, <1>4 DEF RegistryInv, RegisterService

LEMMA StageFailsKeepsRegistry ==
  ASSUME RegistryInv, NEW s \in staging, StageFails(s)
  PROVE  RegistryInv'
  <1>1. staging' = {} /\ UNCHANGED <<state, services, lookup, registered>>
    BY DEF StageFails
  <1>2. LookupEntries' = LookupEntries /\ Cardinality(staging') <= 1
    BY <1>1, FS_EmptySet DEF LookupEntries
  <1>3. UniqueIds(services') /\ (state' # "Destroyed" => RegisteredInv')
    BY <1>1, ServicesSame
  <1> QED
    BY <1>1, <1>2, <1>3 DEF RegistryInv

LEMMA StageBindingKeepsRegistry ==
  ASSUME RegistryInv, NEW s \in staging, StageBinding(s)
  PROVE  RegistryInv'
  <1> DEFINE b == NextBinding(s)
             t == [wanted |-> s.wanted, staged |-> Append(s.staged, b)]
             len == Len(s.staged)
  <1>1. /\ StagedInv(s) /\ services \in Seq(Registration)
        /\ len < Len(s.wanted.bindings)
        /\ ~Taken(s.staged, b.packetId)
        /\ b = s.wanted.bindings[len + 1]
        /\ UNCHANGED <<state, services, lookup, registered>>
    BY DEF RegistryInv, StageBinding, NextBinding
  <1>2. staging' = {t}
    BY <1>1 DEF StageBinding, StagedInv
  <1>3. /\ s.staged \in Seq(Binding) /\ len \in Nat /\ DOMAIN s.staged = 1..len
        /\ s.wanted \in Registration
        /\ b \in Binding
    BY <1>1, RegistrationShape DEF StagedInv
  <1>4. StagedInv(t)'
    <2> HIDE DEF b
    <2>1. PICK q : q = Append(s.staged, b)
      OBVIOUS
    <2>2. /\ q \in Seq(Binding) /\ Len(q) = len + 1
          /\ q[len + 1] = b
          /\ \A n \in 1..len : q[n] = s.staged[n]
      BY <1>3, <2>1
    <2>3. t.wanted = s.wanted /\ t.staged = q
      BY <2>1
    <2>4. \A n \in 1..len : s.staged[n].packetId # b.packetId
      BY <1>1, <1>3 DEF Taken, HasPacketId
    <2>5. \A m \in 1..Len(services) : ~HasPacketId(services[m].bindings, b.packetId)
      BY <1>1, ServicesShape DEF Taken
    <2>6. \A n \in 1..(len + 1) : q[n] = s.wanted.bindings[n]
      BY <1>1, <1>3, <2>2 DEF StagedInv
    <2>7. ASSUME NEW m \in 1..(len + 1), NEW n \in 1..(len + 1), q[m].packetId = q[n].packetId
          PROVE  m = n
      <3>1. CASE m \in 1..len /\ n \in 1..len
        BY <1>1, <1>3, <2>2, <2>7, <3>1 DEF StagedInv
      <3>2. CASE m = len + 1 /\ n \in 1..len
        BY <2>2, <2>4, <2>7, <3>2
      <3>3. CASE m \in 1..len /\ n = len + 1
        BY <2>2, <2>4, <2>7, <3>3
      <3> QED
        BY <1>3, <3>1, <3>2, <3>3
    <2>8. ASSUME NEW n \in 1..(len + 1), NEW m \in 1..Len(services)
          PROVE  ~HasPacketId(services[m].bindings, q[n].packetId)
      <3>1. CASE n = len + 1
        BY <2>2, <2>5, <3>1
      <3>2. CASE n \in 1..len
        BY <1>1, <2>2, <3>2 DEF StagedInv
      <3> QED
        BY <1>3, <3>1, <3>2
    <2>9. len + 1 <= Len(s.wanted.bindings)
      BY <1>1, <1>3, RegistrationShape
    <2> HIDE DEF t, len
    <2>10. t = [wanted |-> t.wanted, staged |-> t.staged]
      BY DEF t
    <2> QED
      BY <1>1, <1>3, <2>2, <2>3, <2>6, <2>7, <2>8, <2>9, <2>10 DEF StagedInv
  <1> HIDE DEF t, b
  <1>5. LookupEntries' = LookupEntries /\ Cardinality(staging') <= 1
    <2>1. Cardinality(staging') = 1
      BY <1>2, FS_Singleton
    <2> QED
      BY <1>1, <2>1 DEF LookupEntries
  <1>6. UniqueIds(services') /\ (state' # "Destroyed" => RegisteredInv')
    BY <1>1, ServicesSame
  <1> QED
    BY <1>1, <1>2, <1>4, <1>5, <1>6 DEF RegistryInv

\* What is stored is what was wanted, whole.
LEMMA StageCommitKeepsRegistry ==
  ASSUME RegistryInv, NEW s \in staging, StageCommit(s)
  PROVE  RegistryInv'
  <1> DEFINE w == s.wanted
             len == Len(services)
  <1>1. /\ StagedInv(s) /\ services \in Seq(Registration) /\ len \in Nat
        /\ state = "Configuring" /\ len < MaxServices
        /\ staging' = {} /\ UNCHANGED <<state, lookup>>
    BY DEF RegistryInv, StageCommit, StoreService
  <1>2. /\ w \in Registration /\ s.staged \in Seq(Binding)
        /\ w = [bindings |-> w.bindings, middlewareCount |-> w.middlewareCount]
        /\ w.bindings \in Seq(Binding)
    BY <1>1, RegistrationShape DEF StagedInv
  <1>3. s.staged = w.bindings
    <2>1. Len(s.staged) = Len(w.bindings) /\ \A n \in 1..Len(s.staged) : s.staged[n] = w.bindings[n]
      BY <1>1 DEF StagedInv, StageCommit
    <2> QED
      BY <1>2, <2>1
  <1>4. /\ services' = Append(services, w)
        /\ registered' = registered \union {w.bindings[n] : n \in 1..Len(w.bindings)}
    BY <1>2, <1>3, RegistrationShape DEF StageCommit, StoreService
  <1>5. /\ \A m, n \in 1..Len(w.bindings) : w.bindings[m].packetId = w.bindings[n].packetId => m = n
        /\ \A n \in 1..Len(w.bindings), m \in 1..len :
              \A k \in 1..Len(services[m].bindings) :
                  services[m].bindings[k].packetId # w.bindings[n].packetId
    BY <1>1, <1>3, ServicesShape DEF StagedInv, HasPacketId
  <1> HIDE DEF w
  <1>6. /\ services' \in Seq(Registration) /\ Len(services') = len + 1
        /\ services'[len + 1] = w
        /\ \A n \in 1..len : services'[n] = services[n]
    BY <1>1, <1>2, <1>4
  <1> HIDE DEF len
  <1>7. UniqueIds(services')
    <2> SUFFICES ASSUME NEW m \in 1..(len + 1), NEW n \in 1..(len + 1),
                        NEW k \in 1..Len(services'[m].bindings),
                        NEW l \in 1..Len(services'[n].bindings),
                        services'[m].bindings[k].packetId = services'[n].bindings[l].packetId
                 PROVE  m = n /\ k = l
      BY <1>6 DEF UniqueIds
    <2>1. CASE m \in 1..len /\ n \in 1..len
      <3>1. services'[m] = services[m] /\ services'[n] = services[n]
        BY <1>6, <2>1
      <3>2. UniqueIds(services)
        BY DEF RegistryInv
      <3> QED
        BY <2>1, <3>1, <3>2 DEF UniqueIds, len
    <2>2. CASE m = len + 1 /\ n \in 1..len
      <3>1. services'[m] = w /\ services'[n] = services[n]
        BY <1>6, <2>2
      <3>2. services[n].bindings[l].packetId # w.bindings[k].packetId
        BY <1>5, <2>2, <3>1
      <3> QED
        BY <3>1, <3>2
    <2>3. CASE m \in 1..len /\ n = len + 1
      <3>1. services'[m] = services[m] /\ services'[n] = w
        BY <1>6, <2>3
      <3>2. services[m].bindings[k].packetId # w.bindings[l].packetId
        BY <1>5, <2>3, <3>1
      <3> QED
        BY <3>1, <3>2
    <2>4. CASE m = len + 1 /\ n = len + 1
      <3>1. services'[m] = w /\ services'[n] = w
        BY <1>6, <2>4
      <3> QED
        BY <1>5, <2>4, <3>1
    <2> QED
      BY <1>1, <2>1, <2>2, <2>3, <2>4
  <1>8. RegisteredInv'
    <2> SUFFICES ASSUME NEW b
                 PROVE  b \in registered' <=>
                            \E n \in 1..(len + 1) :
                                \E k \in 1..Len(services'[n].bindings) : b = services'[n].bindings[k]
      BY <1>6 DEF RegisteredInv
    <2>1. b \in registered <=> \E n \in 1..len :
                                   \E k \in 1..Len(services'[n].bindings) : b = services'[n].bindings[k]
      BY <1>1, <1>6 DEF RegistryInv, RegisteredInv, len
    <2>2. b \in registered' <=> b \in registered \/ \E k \in 1..Len(w.bindings) : b = w.bindings[k]
      BY <1>4
    <2>3. \A n \in 1..(len + 1) : n \in 1..len \/ n = len + 1
      BY <1>1
    <2>4. 1..len \subseteq 1..(len + 1) /\ len + 1 \in 1..(len + 1)
      BY <1>1
    <2> QED
      BY <1>6, <2>1, <2>2, <2>3, <2>4
  <1>9. Cardinality(staging') <= 1
    BY <1>1, FS_EmptySet
  <1>10. len + 1 <= MaxServices
    BY <1>1, HostAssumption
  <1>11. /\ state' = "Configuring" /\ state' # "Ready" /\ staging' = {}
         /\ Len(services') <= MaxServices
         /\ \A x \in staging' : StagedInv(x)'
    BY <1>1, <1>6, <1>10
  <1> QED
    BY <1>6, <1>7, <1>8, <1>9, <1>11 DEF RegistryInv

LEMMA RegistryStep == Inv /\ [Next]_vars => RegistryInv'
  <1> SUFFICES ASSUME RegistryInv, [Next]_vars PROVE RegistryInv'
    BY DEF Inv
  <1>1. CASE RegistrationStep
    <2>1. CASE \E r \in Registration : RegisterService(r)
      BY <2>1, RegisterKeepsRegistry
    <2>2. CASE \E s \in staging : StageBinding(s) \/ StageFails(s) \/ StageCommit(s)
      BY <2>2, StageBindingKeepsRegistry, StageFailsKeepsRegistry, StageCommitKeepsRegistry
    <2>3. CASE FinalizeRegistration
      <3>1. UniqueIds(services') /\ RegisteredInv'
        <4>1. services' = services /\ registered' = registered
          BY <2>3 DEF FinalizeRegistration
        <4>2. UniqueIds(services) /\ RegisteredInv
          BY <2>3 DEF FinalizeRegistration, RegistryInv
        <4> QED
          BY <4>1, <4>2, Zenon DEF RegisteredInv
      <3>2. LookupEntries' = LookupEntries
        BY <2>3 DEF FinalizeRegistration, LookupEntries
      <3> QED
        BY <2>3, <3>1, <3>2 DEF FinalizeRegistration, RegistryInv
    <2> QED
      BY <1>1, <2>1, <2>2, <2>3 DEF RegistrationStep
  <1>2. CASE Destroy
    BY <1>2, HostAssumption DEF Destroy, RegistryInv, UniqueIds
  <1>3. CASE UNCHANGED hostVars
    BY <1>3, RegistrySame
  <1>4. ASSUME NEW t \in Ingress, IngressStep(t) PROVE UNCHANGED hostVars
    BY <1>4 DEF IngressStep, AllocateServiceJob, DecodeRequest, RequestDecoded, DecodeFails,
                Middleware, MiddlewareRejects, ExecutorAdmits, SubmitSucceeds, SubmitFails
  <1>5. ASSUME NEW w \in World, WorldStep(w) PROVE UNCHANGED hostVars
    BY <1>5 DEF WorldStep, WorldTake, ExecuteBegin, OneWayReturns, HandlerFails, HandlerResponds,
                EncodeResponse, EncodeFails, OutputReturns, WorldDestroy
  <1> QED
    BY <1>1, <1>2, <1>3, <1>4, <1>5 DEF Next, vars
-----------------------------------------------------------------------------
\* Who has a job has it alone.
LEMMA HostHolds ==
  ASSUME OwnerInv, NEW t \in Ingress, pc[t] \in Hosting
  PROVE  /\ job[t] \in allocated /\ job[t] \in Job
         /\ \A y : Owns(y, job[t]) <=> y = t
         /\ job[t] \notin inbox
         /\ \A w \in World : worldJob[w] # job[t]
         /\ \A u \in Ingress \ {t} : job[u] = job[t] => pc[u] \notin Hosting
  <1>1. job[t] \in Job
    BY DEF OwnerInv, OwnerType, Hosting
  <1>2. Owns(t, job[t]) /\ Sole(job[t])
    BY <1>1 DEF OwnerInv, Owns
  <1>3. job[t] \in allocated /\ \A y : Owns(y, job[t]) <=> y = t
    BY <1>2 DEF Sole
  <1> QED
    BY <1>1, <1>3, HostAssumption DEF Owns

LEMMA WorldHolds ==
  ASSUME OwnerInv, NEW w \in World, worldPc[w] # "idle"
  PROVE  /\ worldJob[w] \in allocated /\ worldJob[w] \in Job
         /\ \A y : Owns(y, worldJob[w]) <=> y = w
         /\ worldJob[w] \notin inbox
         /\ \A v \in World \ {w} : worldJob[v] # worldJob[w]
         /\ \A t \in Ingress : job[t] = worldJob[w] => pc[t] \notin Hosting
  <1>1. worldJob[w] \in Job
    BY DEF OwnerInv, OwnerType
  <1>2. Owns(w, worldJob[w]) /\ Sole(worldJob[w])
    BY <1>1 DEF OwnerInv, Owns
  <1>3. worldJob[w] \in allocated /\ \A y : Owns(y, worldJob[w]) <=> y = w
    BY <1>2 DEF Sole
  <1> QED
    BY <1>1, <1>3, HostAssumption DEF Owns

LEMMA ExecutorHolds ==
  ASSUME OwnerInv, NEW j \in inbox
  PROVE  /\ j \in allocated /\ j \in Job
         /\ \A y : Owns(y, j) <=> y = "executor"
         /\ \A w \in World : worldJob[w] # j
         /\ \A t \in Ingress : job[t] = j => pc[t] \notin Hosting
  <1>1. j \in Job
    BY DEF OwnerInv, OwnerType
  <1>2. Owns("executor", j) /\ Sole(j)
    BY <1>1 DEF OwnerInv, Owns
  <1>3. j \in allocated /\ \A y : Owns(y, j) <=> y = "executor"
    BY <1>2 DEF Sole
  <1> QED
    BY <1>1, <1>3, HostAssumption DEF Owns

LEMMA FreeJobUnowned ==
  ASSUME OwnerInv, NEW j \in Job, j \notin allocated
  PROVE  /\ \A y : ~Owns(y, j)
         /\ j \notin inbox
         /\ \A w \in World : worldJob[w] # j
         /\ \A t \in Ingress : job[t] = j => pc[t] \notin Hosting
  <1>1. \A y : ~Owns(y, j)
    BY DEF OwnerInv, Sole
  <1> QED
    BY <1>1 DEF Owns

LEMMA OwnerTypeStep == OwnerType /\ [Next]_vars => OwnerType'
  <1> SUFFICES ASSUME OwnerType, [Next]_vars PROVE OwnerType'
    OBVIOUS
  <1> USE HostAssumption DEF OwnerType
  <1>1. ASSUME UNCHANGED callVars, UNCHANGED allocated, UNCHANGED worldVars PROVE OwnerType'
    BY <1>1 DEF callVars, worldVars
  <1>2. CASE RegistrationStep \/ Destroy \/ UNCHANGED vars
    BY <1>1, <1>2 DEF RegistrationStep, RegisterService, StageBinding, StageFails, StageCommit,
                      StoreService, FinalizeRegistration, Destroy, vars, jobVars
  <1>3. ASSUME NEW t \in Ingress, IngressStep(t) PROVE OwnerType'
    <2>1. CASE \E p \in Packet, j \in Job : AllocateServiceJob(t, p, j)
      BY <2>1 DEF AllocateServiceJob, worldVars
    <2>2. CASE DecodeRequest(t)
      BY <2>2 DEF DecodeRequest, worldVars
    <2>3. CASE RequestDecoded(t)
      BY <2>3 DEF RequestDecoded, jobVars, worldVars
    <2>4. CASE DecodeFails(t)
      BY <2>4 DEF DecodeFails, Return, worldVars
    <2>5. CASE Middleware(t)
      BY <2>5, <1>1 DEF Middleware
    <2>6. CASE MiddlewareRejects(t)
      BY <2>6 DEF MiddlewareRejects, DestroyJob, Return, worldVars
    <2>7. CASE ExecutorAdmits(t)
      BY <2>7 DEF ExecutorAdmits, jobVars
    <2>8. CASE SubmitSucceeds(t)
      BY <2>8 DEF SubmitSucceeds, Return, jobVars, worldVars
    <2>9. CASE SubmitFails(t)
      BY <2>9 DEF SubmitFails, DestroyJob, Return, worldVars
    <2> QED
      BY <1>3, <2>1, <2>2, <2>3, <2>4, <2>5, <2>6, <2>7, <2>8, <2>9 DEF IngressStep
  <1>4. ASSUME NEW w \in World, WorldStep(w) PROVE OwnerType'
    <2>1. CASE \E j \in Job : WorldTake(w, j)
      BY <2>1 DEF WorldTake, callVars, jobVars
    <2>2. CASE ExecuteBegin(w)
      BY <2>2 DEF ExecuteBegin, callVars
    <2>3. CASE OneWayReturns(w) \/ HandlerResponds(w) \/ OutputReturns(w)
      BY <2>3 DEF OneWayReturns, HandlerResponds, OutputReturns, callVars, jobVars
    <2>4. CASE HandlerFails(w) \/ EncodeResponse(w) \/ EncodeFails(w)
      BY <2>4 DEF HandlerFails, EncodeResponse, EncodeFails, callVars
    <2>5. CASE WorldDestroy(w)
      BY <2>5 DEF WorldDestroy, DestroyJob, callVars
    <2> QED
      BY <1>4, <2>1, <2>2, <2>3, <2>4, <2>5 DEF WorldStep
  <1> QED
    BY <1>2, <1>3, <1>4 DEF Next

\* Most steps move no job.
LEMMA OwnersSame ==
  ASSUME OwnerInv, UNCHANGED <<job, allocated, inbox, worldJob>>,
         \A t \in Ingress : pc'[t] \in Hosting <=> pc[t] \in Hosting
  PROVE  \A j \in Job : Sole(j)'
  <1>1. \A y, j : Owns(y, j)' <=> Owns(y, j)
    BY DEF Owns
  <1> QED
    BY <1>1 DEF OwnerInv, Sole

\* The others move one.
LEMMA OneMoves ==
  ASSUME OwnerInv, NEW j \in Job, Sole(j)',
         \A k \in Job \ {j} : \A y : Owns(y, k)' <=> Owns(y, k),
         \A k \in Job \ {j} : k \in allocated' <=> k \in allocated
  PROVE  \A k \in Job : Sole(k)'
  <1>1. ASSUME NEW k \in Job \ {j} PROVE Sole(k)'
    BY <1>1 DEF OwnerInv, Sole
  <1> QED
    BY <1>1

LEMMA HostFrees ==
  ASSUME OwnerInv, NEW t \in Ingress, pc[t] \in Hosting, Return(t),
         allocated' = allocated \ {job[t]}, UNCHANGED <<inbox, worldJob>>
  PROVE  \A k \in Job : Sole(k)'
  <1>1. PICK j : j = job[t]
    OBVIOUS
  <1>2. /\ j \in Job /\ j \notin inbox /\ \A w \in World : worldJob[w] # j
        /\ \A u \in Ingress \ {t} : job[u] = j => pc[u] \notin Hosting
    BY <1>1, HostHolds
  <1>3. /\ \A u \in Ingress \ {t} : pc'[u] = pc[u] /\ job'[u] = job[u]
        /\ pc'[t] \notin Hosting /\ pc'[t] = "idle"
    BY DEF Return, OwnerInv, OwnerType, Hosting
  <1>4. \A y : ~Owns(y, j)'
    BY <1>2, <1>3 DEF Owns
  <1>5. \A k \in Job \ {j} : \A y : Owns(y, k)' <=> Owns(y, k)
    BY <1>1, <1>3 DEF Owns
  <1>6. Sole(j)'
    BY <1>1, <1>4 DEF Sole
  <1>7. \A k \in Job \ {j} : k \in allocated' <=> k \in allocated
    BY <1>1
  <1> QED
    BY <1>2, <1>5, <1>6, <1>7, OneMoves

LEMMA SoleStep == OwnerInv /\ [Next]_vars => \A k \in Job : Sole(k)'
  <1> SUFFICES ASSUME OwnerInv, [Next]_vars PROVE \A k \in Job : Sole(k)'
    OBVIOUS
  <1>1. CASE RegistrationStep \/ Destroy \/ UNCHANGED vars
    <2>1. UNCHANGED <<job, allocated, inbox, worldJob, pc>>
      BY <1>1 DEF RegistrationStep, RegisterService, StageBinding, StageFails, StageCommit,
                  StoreService, FinalizeRegistration, Destroy, vars, callVars, jobVars, worldVars
    <2> QED
      BY <2>1, OwnersSame
  <1>2. ASSUME NEW t \in Ingress, IngressStep(t) PROVE \A k \in Job : Sole(k)'
    <2> USE DEF OwnerInv, OwnerType, Hosting
    <2>1. ASSUME NEW p \in Packet, NEW j \in Job, AllocateServiceJob(t, p, j)
          PROVE  \A k \in Job : Sole(k)'
      <3>1. /\ j \notin allocated /\ pc[t] = "idle"
            /\ allocated' = allocated \union {j} /\ UNCHANGED <<inbox, worldJob>>
            /\ \A u \in Ingress \ {t} : pc'[u] = pc[u] /\ job'[u] = job[u]
            /\ pc'[t] = "decode" /\ job'[t] = j
        BY <2>1 DEF AllocateServiceJob, worldVars
      <3>2. /\ j \notin inbox /\ \A w \in World : worldJob[w] # j
            /\ \A u \in Ingress \ {t} : job[u] = j => pc[u] \notin Hosting
        BY <3>1, FreeJobUnowned
      <3>3. \A y : Owns(y, j)' <=> y = t
        BY <3>1, <3>2, HostAssumption DEF Owns
      <3>4. \A k \in Job \ {j} : \A y : Owns(y, k)' <=> Owns(y, k)
        BY <3>1 DEF Owns
      <3>5. Sole(j)'
        BY <3>1, <3>3 DEF Sole, Party
      <3>6. \A k \in Job \ {j} : k \in allocated' <=> k \in allocated
        BY <3>1
      <3> QED
        BY <3>4, <3>5, <3>6, OneMoves
    <2>2. CASE DecodeRequest(t) \/ RequestDecoded(t) \/ Middleware(t)
      <3>1. /\ UNCHANGED <<job, allocated, inbox, worldJob>>
            /\ \A u \in Ingress : pc'[u] \in Hosting <=> pc[u] \in Hosting
        BY <2>2 DEF DecodeRequest, RequestDecoded, Middleware, callVars, jobVars, worldVars
      <3> QED
        BY <3>1, OwnersSame
    <2>3. CASE DecodeFails(t) \/ MiddlewareRejects(t) \/ SubmitFails(t)
      <3>1. /\ pc[t] \in Hosting /\ Return(t) /\ allocated' = allocated \ {job[t]}
            /\ UNCHANGED <<inbox, worldJob>>
        BY <2>3 DEF DecodeFails, MiddlewareRejects, SubmitFails, DestroyJob, worldVars
      <3> QED
        BY <3>1, HostFrees
    <2>4. CASE ExecutorAdmits(t)
      <3>1. PICK j : j = job[t]
        OBVIOUS
      <3>2. /\ pc[t] = "middleware" /\ pc'[t] = "admitted"
            /\ UNCHANGED <<job, allocated, worldJob>> /\ inbox' = inbox \union {j}
            /\ \A u \in Ingress \ {t} : pc'[u] = pc[u]
        BY <2>4, <3>1 DEF ExecutorAdmits, jobVars
      <3>3. /\ j \in Job /\ j \in allocated /\ \A w \in World : worldJob[w] # j
            /\ \A u \in Ingress \ {t} : job[u] = j => pc[u] \notin Hosting
        BY <3>1, <3>2, HostHolds
      <3>4. \A y : Owns(y, j)' <=> y = "executor"
        BY <3>2, <3>3 DEF Owns
      <3>5. \A k \in Job \ {j} : \A y : Owns(y, k)' <=> Owns(y, k)
        BY <3>1, <3>2 DEF Owns
      <3>6. Sole(j)'
        BY <3>2, <3>3, <3>4 DEF Sole, Party
      <3>7. \A k \in Job \ {j} : k \in allocated' <=> k \in allocated
        BY <3>2
      <3> QED
        BY <3>3, <3>5, <3>6, <3>7, OneMoves
    <2>5. CASE SubmitSucceeds(t)
      <3>1. /\ pc[t] = "admitted" /\ pc'[t] = "idle"
            /\ UNCHANGED <<allocated, inbox, worldJob>>
            /\ \A u \in Ingress \ {t} : pc'[u] = pc[u] /\ job'[u] = job[u]
        BY <2>5 DEF SubmitSucceeds, Return, jobVars, worldVars
      <3>2. \A y, k : Owns(y, k)' <=> Owns(y, k)
        BY <3>1 DEF Owns
      <3> QED
        BY <3>1, <3>2 DEF Sole
    <2> QED
      BY <1>2, <2>1, <2>2, <2>3, <2>4, <2>5 DEF IngressStep
  <1>3. ASSUME NEW w \in World, WorldStep(w) PROVE \A k \in Job : Sole(k)'
    <2> USE DEF OwnerInv, OwnerType
    <2>1. ASSUME NEW j \in Job, WorldTake(w, j) PROVE \A k \in Job : Sole(k)'
      <3>1. /\ worldPc[w] = "idle" /\ worldJob[w] = NoJob /\ j \in inbox
            /\ inbox' = inbox \ {j} /\ UNCHANGED <<pc, job, allocated>>
            /\ \A v \in World \ {w} : worldJob'[v] = worldJob[v]
            /\ worldJob'[w] = j
        BY <2>1 DEF WorldTake, callVars, jobVars
      <3>2. /\ j \in allocated /\ \A v \in World : worldJob[v] # j
            /\ \A u \in Ingress : job[u] = j => pc[u] \notin Hosting
        BY <3>1, ExecutorHolds
      <3>3. \A y : Owns(y, j)' <=> y = w
        BY <3>1, <3>2 DEF Owns
      <3>4. \A k \in Job \ {j} : \A y : Owns(y, k)' <=> Owns(y, k)
        BY <3>1, HostAssumption DEF Owns
      <3>5. Sole(j)'
        BY <3>1, <3>2, <3>3 DEF Sole, Party
      <3>6. \A k \in Job \ {j} : k \in allocated' <=> k \in allocated
        BY <3>1
      <3> QED
        BY <3>4, <3>5, <3>6, OneMoves
    <2>2. CASE ExecuteBegin(w) \/ OneWayReturns(w) \/ HandlerFails(w) \/ HandlerResponds(w)
               \/ EncodeResponse(w) \/ EncodeFails(w) \/ OutputReturns(w)
      <3>1. UNCHANGED <<pc, job, allocated, inbox, worldJob>>
        BY <2>2 DEF ExecuteBegin, OneWayReturns, HandlerFails, HandlerResponds, EncodeResponse,
                    EncodeFails, OutputReturns, callVars, jobVars
      <3> QED
        BY <3>1, OwnersSame
    <2>3. CASE WorldDestroy(w)
      <3>1. PICK j : j = worldJob[w]
        OBVIOUS
      <3>2. /\ worldPc[w] = "holding" /\ worldJob'[w] = NoJob
            /\ allocated' = allocated \ {j} /\ UNCHANGED <<pc, job, inbox>>
            /\ \A v \in World \ {w} : worldJob'[v] = worldJob[v]
        BY <2>3, <3>1 DEF WorldDestroy, DestroyJob, callVars
      <3>3. /\ j \in Job /\ j \notin inbox /\ \A v \in World \ {w} : worldJob[v] # j
            /\ \A u \in Ingress : job[u] = j => pc[u] \notin Hosting
        BY <3>1, <3>2, WorldHolds
      <3>4. \A y : ~Owns(y, j)'
        BY <3>2, <3>3, HostAssumption DEF Owns
      <3>5. \A k \in Job \ {j} : \A y : Owns(y, k)' <=> Owns(y, k)
        BY <3>1, <3>2, HostAssumption DEF Owns
      <3>6. Sole(j)'
        BY <3>2, <3>4 DEF Sole
      <3>7. \A k \in Job \ {j} : k \in allocated' <=> k \in allocated
        BY <3>2
      <3> QED
        BY <3>3, <3>5, <3>6, <3>7, OneMoves
    <2> QED
      BY <1>3, <2>1, <2>2, <2>3 DEF WorldStep
  <1> QED
    BY <1>1, <1>2, <1>3 DEF Next

LEMMA OwnerStep == Inv /\ [Next]_vars => OwnerInv'
  BY OwnerTypeStep, SoleStep DEF Inv, OwnerInv
-----------------------------------------------------------------------------
\* The objects of a job that a step leaves alone are as they were.
LEMMA BalancedSame ==
  ASSUME NEW k \in Job, Balanced(k),
         k \in allocated' <=> k \in allocated,
         k \in inbox' <=> k \in inbox,
         requests'[k] = requests[k], responses'[k] = responses[k], info'[k] = info[k],
         \A w \in World : worldJob'[w] = k <=> worldJob[w] = k,
         \A w \in World : worldJob[w] = k => worldPc'[w] = worldPc[w]
  PROVE  Balanced(k)'
  <1>1. \A w \in World : Responding(w, k)' <=> Responding(w, k)
    BY DEF Responding, Responds
  <1> QED
    BY <1>1 DEF Balanced

\* A step of a thread that has job j changes the objects of no other job.
LEMMA OneBalances ==
  ASSUME OwnerInv, ObjectInv, NEW j \in Job, Balanced(j)',
         \A k \in Job \ {j} : /\ k \in allocated' <=> k \in allocated
                              /\ k \in inbox' <=> k \in inbox
                              /\ requests'[k] = requests[k] /\ responses'[k] = responses[k]
                              /\ info'[k] = info[k]
                              /\ \A w \in World : worldJob'[w] = k <=> worldJob[w] = k
                              /\ \A w \in World : worldJob[w] = k => worldPc'[w] = worldPc[w]
  PROVE  \A k \in Job : Balanced(k)'
  <1>1. ASSUME NEW k \in Job \ {j} PROVE Balanced(k)'
    BY BalancedSame DEF ObjectInv
  <1> QED
    BY <1>1

\* What is constructed in the job of a world thread.
LEMMA WorldObjects ==
  ASSUME OwnerInv, ObjectInv, NEW w \in World, worldPc[w] # "idle"
  PROVE  /\ requests[worldJob[w]] = 1
         /\ responses[worldJob[w]] =
                (IF worldPc[w] = "encode" \/ (worldPc[w] = "handler" /\ Responds(worldJob[w]))
                 THEN 1 ELSE 0)
  <1>1. PICK j : j = worldJob[w]
    OBVIOUS
  <1>2. j \in Job /\ \A v \in World \ {w} : worldJob[v] # j
    BY <1>1, WorldHolds
  <1>3. Balanced(j) /\ responses[j] \in {0, 1}
    BY <1>2 DEF ObjectInv
  <1>4. (\E v \in World : Responding(v, j)) <=> Responding(w, j)
    BY <1>2 DEF Responding
  <1> QED
    BY <1>1, <1>3, <1>4 DEF Balanced, Responding

\* And in that of an ingress thread: no response.
LEMMA HostObjects ==
  ASSUME OwnerInv, ObjectInv, NEW t \in Ingress, pc[t] \in Hosting
  PROVE  /\ requests[job[t]] = (IF pc[t] = "decode" THEN 0 ELSE 1)
         /\ responses[job[t]] = 0
  <1>1. PICK j : j = job[t]
    OBVIOUS
  <1>2. j \in Job /\ \A v \in World : worldJob[v] # j
    BY <1>1, HostHolds
  <1>3. Balanced(j) /\ responses[j] \in {0, 1} /\ Requested(t)
    BY <1>2 DEF ObjectInv
  <1>4. ~\E v \in World : Responding(v, j)
    BY <1>2 DEF Responding
  <1> QED
    BY <1>1, <1>3, <1>4 DEF Balanced, Requested

\* A step that touches neither the objects nor the world.
LEMMA ObjectsSame ==
  ASSUME ObjectInv, UNCHANGED <<allocated, info, requests, responses, worldVars>>,
         \A t \in Ingress : Requested(t)'
  PROVE  ObjectInv'
  <1>1. ASSUME NEW k \in Job PROVE Balanced(k)'
    BY BalancedSame DEF ObjectInv, worldVars
  <1> QED
    BY <1>1 DEF ObjectInv

\* An ingress thread frees its job, and the request in it.
LEMMA HostFreesObjects ==
  ASSUME OwnerInv, ObjectInv, NEW t \in Ingress, pc[t] \in Hosting, pc[t] # "decode",
         Return(t), DestroyJob(job[t]), UNCHANGED <<info, responses, worldVars>>
  PROVE  ObjectInv'
  <1>1. PICK j : j = job[t]
    OBVIOUS
  <1>2. /\ j \in Job /\ j \notin inbox /\ \A w \in World : worldJob[w] # j
        /\ \A u \in Ingress \ {t} : job[u] = j => pc[u] \notin Hosting
        /\ requests[j] = 1 /\ responses[j] = 0
    BY <1>1, HostHolds, HostObjects
  <1>3. /\ requests' = [requests EXCEPT ![j] = 0] /\ allocated' = allocated \ {j}
        /\ UNCHANGED <<info, responses, inbox, worldPc, worldJob>>
    BY <1>1, <1>2 DEF DestroyJob, worldVars
  <1>4. requests \in [Job -> {0, 1}] /\ responses \in [Job -> {0, 1}]
    BY DEF ObjectInv
  <1>5. Balanced(j)'
    BY <1>2, <1>3, <1>4 DEF Balanced, Responding
  <1>6. \A k \in Job : Balanced(k)'
    BY <1>2, <1>3, <1>4, <1>5, OneBalances
  <1>7. ASSUME NEW u \in Ingress PROVE Requested(u)'
    <2>1. CASE u = t
      BY <2>1 DEF Requested, Return, Hosting, OwnerInv, OwnerType
    <2>2. CASE u # t
      <3>1. pc'[u] = pc[u] /\ job'[u] = job[u] /\ Requested(u)
        BY <2>2 DEF Return, OwnerInv, OwnerType, ObjectInv
      <3>2. pc[u] \in Hosting => job[u] \in Job \ {j}
        BY <1>2, <2>2, HostHolds
      <3> QED
        BY <1>3, <1>4, <3>1, <3>2 DEF Requested
    <2> QED
      BY <2>1, <2>2
  <1> QED
    BY <1>3, <1>4, <1>6, <1>7 DEF ObjectInv

LEMMA IngressObjects ==
  ASSUME OwnerInv, ObjectInv, NEW t \in Ingress, IngressStep(t)
  PROVE  ObjectInv'
  <1>1. /\ requests \in [Job -> {0, 1}] /\ responses \in [Job -> {0, 1}]
        /\ \A u \in Ingress : Requested(u)
    BY DEF ObjectInv
  <1>2. ASSUME NEW p \in Packet, NEW j \in Job, AllocateServiceJob(t, p, j) PROVE ObjectInv'
    <2>1. /\ j \notin allocated /\ allocated' = allocated \union {j}
          /\ requests' = [requests EXCEPT ![j] = 0]
          /\ responses' = [responses EXCEPT ![j] = 0]
          /\ UNCHANGED <<inbox, worldPc, worldJob>>
          /\ \A u \in Ingress \ {t} : pc'[u] = pc[u] /\ job'[u] = job[u]
          /\ pc'[t] = "decode" /\ job'[t] = j
      BY <1>2 DEF AllocateServiceJob, worldVars, OwnerInv, OwnerType
    <2>2. \A k \in Job \ {j} : info'[k] = info[k]
      BY <1>2 DEF AllocateServiceJob
    <2>3. /\ j \notin inbox /\ \A w \in World : worldJob[w] # j
          /\ \A u \in Ingress : job[u] = j => pc[u] \notin Hosting
      BY <2>1, FreeJobUnowned
    <2>4. Balanced(j)'
      BY <1>1, <2>1, <2>3 DEF Balanced, Responding
    <2>5. \A k \in Job : Balanced(k)'
      BY <1>1, <2>1, <2>2, <2>4, OneBalances
    <2>6. ASSUME NEW u \in Ingress PROVE Requested(u)'
      <3>1. CASE u = t
        BY <1>1, <2>1, <3>1 DEF Requested
      <3>2. CASE u # t
        <4>1. pc[u] \in Hosting => job[u] \in Job \ {j}
          BY <2>3, HostHolds
        <4> QED
          BY <1>1, <2>1, <3>2, <4>1 DEF Requested
      <3> QED
        BY <3>1, <3>2
    <2> QED
      BY <1>1, <2>1, <2>5, <2>6 DEF ObjectInv
  <1>3. CASE DecodeRequest(t)
    <2>1. PICK j : j = job[t]
      OBVIOUS
    <2>2. /\ j \in Job /\ j \in allocated /\ j \notin inbox /\ \A w \in World : worldJob[w] # j
          /\ \A u \in Ingress \ {t} : job[u] = j => pc[u] \notin Hosting
          /\ requests[j] = 0 /\ responses[j] = 0
      BY <1>3, <2>1, HostHolds, HostObjects DEF DecodeRequest, Hosting
    <2>3. /\ requests' = [requests EXCEPT ![j] = 1]
          /\ UNCHANGED <<job, allocated, info, responses, inbox, worldPc, worldJob>>
          /\ \A u \in Ingress \ {t} : pc'[u] = pc[u]
          /\ pc'[t] = "decoding"
      BY <1>3, <2>1, <2>2 DEF DecodeRequest, worldVars, OwnerInv, OwnerType
    <2>4. Balanced(j)'
      BY <1>1, <2>2, <2>3 DEF Balanced, Responding
    <2>5. \A k \in Job : Balanced(k)'
      BY <1>1, <2>2, <2>3, <2>4, OneBalances
    <2>6. ASSUME NEW u \in Ingress PROVE Requested(u)'
      <3>1. CASE u = t
        BY <1>1, <2>1, <2>2, <2>3, <3>1 DEF Requested
      <3>2. CASE u # t
        <4>1. pc[u] \in Hosting => job[u] \in Job \ {j}
          BY <2>2, <3>2, HostHolds
        <4> QED
          BY <1>1, <2>3, <3>2, <4>1 DEF Requested
      <3> QED
        BY <3>1, <3>2
    <2> QED
      BY <1>1, <2>2, <2>3, <2>5, <2>6 DEF ObjectInv
  <1>4. CASE RequestDecoded(t) \/ Middleware(t) \/ SubmitSucceeds(t)
    <2>1. UNCHANGED <<allocated, info, requests, responses, worldVars>>
      BY <1>4 DEF RequestDecoded, Middleware, SubmitSucceeds, jobVars
    <2>2. \A u \in Ingress : Requested(u)'
      BY <1>1, <1>4 DEF RequestDecoded, Middleware, SubmitSucceeds, Return, callVars, jobVars,
                        Requested, Hosting, OwnerInv, OwnerType
    <2> QED
      BY <2>1, <2>2, ObjectsSame
  <1>5. CASE DecodeFails(t) \/ MiddlewareRejects(t) \/ SubmitFails(t)
    <2>1. /\ pc[t] \in Hosting /\ pc[t] # "decode" /\ Return(t) /\ DestroyJob(job[t])
          /\ UNCHANGED <<info, responses, worldVars>>
      BY <1>5 DEF DecodeFails, MiddlewareRejects, SubmitFails, DestroyJob, Hosting
    <2> QED
      BY <2>1, HostFreesObjects
  <1>6. CASE ExecutorAdmits(t)
    <2>1. PICK j : j = job[t]
      OBVIOUS
    <2>2. /\ pc[t] = "middleware" /\ pc'[t] = "admitted"
          /\ inbox' = inbox \union {j}
          /\ UNCHANGED <<job, allocated, info, requests, responses, worldPc, worldJob>>
          /\ \A u \in Ingress \ {t} : pc'[u] = pc[u]
      BY <1>6, <2>1 DEF ExecutorAdmits, jobVars, OwnerInv, OwnerType
    <2>3. j \in Job /\ j \in allocated /\ requests[j] = 1
      BY <2>1, <2>2, HostHolds, HostObjects DEF Hosting
    <2>4. Balanced(j)'
      <3>1. Balanced(j)
        BY <2>3 DEF ObjectInv
      <3>2. \A w \in World : Responding(w, j)' <=> Responding(w, j)
        BY <2>2 DEF Responding, Responds
      <3> QED
        BY <2>2, <2>3, <3>1, <3>2 DEF Balanced
    <2>5. \A k \in Job : Balanced(k)'
      BY <2>2, <2>3, <2>4, OneBalances
    <2>6. \A u \in Ingress : Requested(u)'
      BY <1>1, <2>2 DEF Requested, Hosting
    <2> QED
      BY <1>1, <2>2, <2>5, <2>6 DEF ObjectInv
  <1> QED
    BY <1>2, <1>3, <1>4, <1>5, <1>6 DEF IngressStep

\* An ingress thread notices nothing of what is done in the world.
LEMMA RequestedSame ==
  ASSUME OwnerInv, ObjectInv, UNCHANGED <<pc, job>>,
         NEW j, \A u \in Ingress : job[u] = j => pc[u] \notin Hosting,
         \A k \in Job \ {j} : requests'[k] = requests[k]
  PROVE  \A u \in Ingress : Requested(u)'
  <1>1. ASSUME NEW u \in Ingress PROVE Requested(u)'
    <2>1. Requested(u)
      BY DEF ObjectInv
    <2>2. pc[u] \in Hosting => job[u] \in Job \ {j}
      BY HostHolds
    <2> QED
      BY <2>1, <2>2 DEF Requested
  <1> QED
    BY <1>1

\* A world thread goes on with its job: the response is there when it is to be.
LEMMA WorldGoesOn ==
  ASSUME OwnerInv, ObjectInv, NEW w \in World, worldPc[w] # "idle",
         NEW r \in {0, 1}, responses' = [responses EXCEPT ![worldJob[w]] = r],
         r = (IF worldPc'[w] = "encode" \/ (worldPc'[w] = "handler" /\ Responds(worldJob[w]))
              THEN 1 ELSE 0),
         \A v \in World \ {w} : worldPc'[v] = worldPc[v],
         UNCHANGED <<callVars, allocated, info, requests, inbox, worldJob>>
  PROVE  ObjectInv'
  <1>1. PICK j : j = worldJob[w]
    OBVIOUS
  <1>2. /\ j \in Job /\ j \in allocated /\ j \notin inbox /\ requests[j] = 1
        /\ \A v \in World \ {w} : worldJob[v] # j
        /\ \A t \in Ingress : job[t] = j => pc[t] \notin Hosting
    BY <1>1, WorldHolds, WorldObjects
  <1>3. /\ requests \in [Job -> {0, 1}] /\ responses \in [Job -> {0, 1}]
        /\ UNCHANGED <<pc, job>>
    BY DEF ObjectInv, callVars
  <1>4. /\ responses'[j] = r /\ \A k \in Job \ {j} : responses'[k] = responses[k]
        /\ responses' \in [Job -> {0, 1}]
    BY <1>1, <1>2, <1>3
  <1>5. Balanced(j)'
    <2>1. Responds(j)' <=> Responds(j)
      BY DEF Responds
    <2>2. r = 1 <=> Responding(w, j)'
      BY <1>1, <2>1 DEF Responding
    <2>3. \A v \in World \ {w} : ~Responding(v, j)'
      BY <1>2 DEF Responding
    <2> QED
      BY <1>2, <1>4, <2>2, <2>3 DEF Balanced
  <1>6. \A k \in Job : Balanced(k)'
    BY <1>1, <1>2, <1>4, <1>5, OneBalances
  <1>7. \A u \in Ingress : Requested(u)'
    BY <1>2, <1>3, RequestedSame
  <1> QED
    BY <1>3, <1>4, <1>6, <1>7 DEF ObjectInv

LEMMA WorldStepObjects ==
  ASSUME OwnerInv, ObjectInv, NEW w \in World, WorldStep(w)
  PROVE  ObjectInv'
  <1>1. /\ requests \in [Job -> {0, 1}] /\ responses \in [Job -> {0, 1}]
        /\ worldPc \in [World -> {"idle", "holding", "handler", "encode", "output"}]
        /\ worldPc[w] # "idle" => worldJob[w] \in Job
    BY WorldHolds DEF ObjectInv, OwnerInv, OwnerType
  <1>2. ASSUME NEW j \in Job, WorldTake(w, j) PROVE ObjectInv'
    <2>1. /\ j \in inbox /\ inbox' = inbox \ {j} /\ worldPc'[w] = "holding" /\ worldJob'[w] = j
          /\ UNCHANGED <<pc, job, allocated, info, requests, responses>>
          /\ \A v \in World \ {w} : worldPc'[v] = worldPc[v] /\ worldJob'[v] = worldJob[v]
          /\ worldJob[w] = NoJob
      BY <1>2 DEF WorldTake, callVars, jobVars, OwnerInv, OwnerType
    <2>2. /\ j \in allocated /\ Balanced(j)
          /\ \A v \in World : worldJob[v] # j
          /\ \A u \in Ingress : job[u] = j => pc[u] \notin Hosting
      BY <2>1, ExecutorHolds DEF ObjectInv
    <2>3. Balanced(j)'
      <3>1. \A v \in World : ~Responding(v, j) /\ ~Responding(v, j)'
        BY <2>1, <2>2 DEF Responding
      <3> QED
        BY <2>1, <2>2, <3>1 DEF Balanced
    <2>4. \A k \in Job : Balanced(k)'
      BY <2>1, <2>3, HostAssumption, OneBalances
    <2>5. \A u \in Ingress : Requested(u)'
      BY <2>1, <2>2, RequestedSame
    <2> QED
      BY <1>1, <2>1, <2>4, <2>5 DEF ObjectInv
  <1>3. CASE ExecuteBegin(w)
    <2>1. worldPc[w] = "holding" /\ responses[worldJob[w]] = 0
      BY <1>3, WorldObjects DEF ExecuteBegin
    <2>2. PICK r \in {0, 1} : r = IF Responds(worldJob[w]) THEN 1 ELSE 0
      OBVIOUS
    <2>3. responses' = [responses EXCEPT ![worldJob[w]] = r]
      BY <1>1, <1>3, <2>1, <2>2 DEF ExecuteBegin
    <2>4. /\ worldPc'[w] = "handler" /\ \A v \in World \ {w} : worldPc'[v] = worldPc[v]
          /\ UNCHANGED <<callVars, allocated, info, requests, inbox, worldJob>>
      BY <1>1, <1>3 DEF ExecuteBegin
    <2> QED
      BY <2>1, <2>2, <2>3, <2>4, WorldGoesOn
  <1>4. CASE OneWayReturns(w) \/ OutputReturns(w)
    <2>1. worldPc[w] # "idle" /\ responses[worldJob[w]] = 0
      BY <1>4, WorldObjects DEF OneWayReturns, OutputReturns
    <2>2. responses' = [responses EXCEPT ![worldJob[w]] = 0]
      BY <1>1, <1>4, <2>1 DEF OneWayReturns, OutputReturns, jobVars
    <2>3. /\ worldPc'[w] = "holding" /\ \A v \in World \ {w} : worldPc'[v] = worldPc[v]
          /\ UNCHANGED <<callVars, allocated, info, requests, inbox, worldJob>>
      BY <1>1, <1>4 DEF OneWayReturns, OutputReturns, jobVars
    <2> QED
      BY <2>1, <2>2, <2>3, WorldGoesOn
  <1>5. CASE HandlerResponds(w)
    <2>1. worldPc[w] # "idle" /\ responses[worldJob[w]] = 1
      BY <1>5, WorldObjects DEF HandlerResponds
    <2>2. responses' = [responses EXCEPT ![worldJob[w]] = 1]
      BY <1>1, <1>5, <2>1 DEF HandlerResponds, jobVars
    <2>3. /\ worldPc'[w] = "encode" /\ \A v \in World \ {w} : worldPc'[v] = worldPc[v]
          /\ UNCHANGED <<callVars, allocated, info, requests, inbox, worldJob>>
      BY <1>1, <1>5 DEF HandlerResponds, jobVars
    <2> QED
      BY <2>1, <2>2, <2>3, WorldGoesOn
  <1>6. CASE HandlerFails(w) \/ EncodeResponse(w) \/ EncodeFails(w)
    <2>1. worldPc[w] # "idle" /\ responses[worldJob[w]] = 1
      BY <1>6, WorldObjects DEF HandlerFails, EncodeResponse, EncodeFails
    <2>2. responses' = [responses EXCEPT ![worldJob[w]] = 0]
      BY <1>1, <1>6, <2>1 DEF HandlerFails, EncodeResponse, EncodeFails
    <2>3. /\ worldPc'[w] \in {"holding", "output"}
          /\ \A v \in World \ {w} : worldPc'[v] = worldPc[v]
          /\ UNCHANGED <<callVars, allocated, info, requests, inbox, worldJob>>
      BY <1>1, <1>6 DEF HandlerFails, EncodeResponse, EncodeFails
    <2> QED
      BY <2>1, <2>2, <2>3, WorldGoesOn
  <1>7. CASE WorldDestroy(w)
    <2>1. PICK j : j = worldJob[w]
      OBVIOUS
    <2>2. /\ j \in Job /\ j \notin inbox /\ requests[j] = 1 /\ responses[j] = 0
          /\ \A v \in World \ {w} : worldJob[v] # j
          /\ \A u \in Ingress : job[u] = j => pc[u] \notin Hosting
      BY <1>7, <2>1, WorldHolds, WorldObjects DEF WorldDestroy
    <2>3. /\ requests' = [requests EXCEPT ![j] = 0] /\ allocated' = allocated \ {j}
          /\ worldPc'[w] = "idle" /\ worldJob'[w] = NoJob
          /\ UNCHANGED <<pc, job, info, responses, inbox>>
          /\ \A v \in World \ {w} : worldPc'[v] = worldPc[v] /\ worldJob'[v] = worldJob[v]
      BY <1>1, <1>7, <2>1, <2>2 DEF WorldDestroy, DestroyJob, callVars, OwnerInv, OwnerType
    <2>4. Balanced(j)'
      BY <1>1, <2>2, <2>3, HostAssumption DEF Balanced, Responding
    <2>5. \A k \in Job : Balanced(k)'
      BY <1>1, <2>1, <2>2, <2>3, <2>4, HostAssumption, OneBalances
    <2>6. \A u \in Ingress : Requested(u)'
      BY <1>1, <2>2, <2>3, RequestedSame
    <2> QED
      BY <1>1, <2>2, <2>3, <2>5, <2>6 DEF ObjectInv
  <1> QED
    BY <1>2, <1>3, <1>4, <1>5, <1>6, <1>7 DEF WorldStep

LEMMA ObjectStep == Inv /\ [Next]_vars => ObjectInv'
  <1> SUFFICES ASSUME OwnerInv, ObjectInv, [Next]_vars PROVE ObjectInv'
    BY DEF Inv
  <1>1. CASE RegistrationStep \/ Destroy \/ UNCHANGED vars
    <2>1. UNCHANGED <<allocated, info, requests, responses, pc, job, worldVars>>
      BY <1>1 DEF RegistrationStep, RegisterService, StageBinding, StageFails, StageCommit,
                  StoreService, FinalizeRegistration, Destroy, vars, callVars, jobVars
    <2>2. \A t \in Ingress : Requested(t)'
      BY <2>1 DEF ObjectInv, Requested
    <2> QED
      BY <2>1, <2>2, ObjectsSame
  <1> QED
    BY <1>1, IngressObjects, WorldStepObjects DEF Next
-----------------------------------------------------------------------------
LEMMA RegisteredGrows == Inv /\ [Next]_vars => registered \subseteq registered'
  <1> SUFFICES ASSUME [Next]_vars PROVE registered \subseteq registered'
    OBVIOUS
  <1>1. CASE RegistrationStep \/ Destroy \/ UNCHANGED vars
    BY <1>1 DEF RegistrationStep, RegisterService, StageBinding, StageFails, StageCommit,
                StoreService, FinalizeRegistration, Destroy, vars, hostVars
  <1>2. ASSUME NEW t \in Ingress, IngressStep(t) PROVE registered' = registered
    BY <1>2 DEF IngressStep, AllocateServiceJob, DecodeRequest, RequestDecoded, DecodeFails,
                Middleware, MiddlewareRejects, ExecutorAdmits, SubmitSucceeds, SubmitFails, hostVars
  <1>3. ASSUME NEW w \in World, WorldStep(w) PROVE registered' = registered
    BY <1>3 DEF WorldStep, WorldTake, ExecuteBegin, OneWayReturns, HandlerFails, HandlerResponds,
                EncodeResponse, EncodeFails, OutputReturns, WorldDestroy, hostVars
  <1> QED
    BY <1>1, <1>2, <1>3 DEF Next

\* A job that a step leaves alone, or frees, is as checked as it was.
LEMMA CheckedSame ==
  ASSUME NEW k \in Job, Checked(k), registered \subseteq registered',
         k \in allocated' => k \in allocated,
         k \in inbox' => k \in inbox,
         InWorld(k)' => InWorld(k),
         info'[k] = info[k], passed'[k] = passed[k], k \in inbox' => jobState'[k] = jobState[k]
  PROVE  Checked(k)'
  BY DEF Checked

LEMMA FreshSame ==
  ASSUME NEW t \in Ingress, Fresh(t), pc'[t] \in Hosting => pc[t] \in Hosting /\ job'[t] = job[t],
         pc[t] \in Hosting => jobState'[job[t]] = jobState[job[t]]
  PROVE  Fresh(t)'
  BY DEF Fresh

\* A step that leaves the jobs and who has them alone, or takes one from its owner.
LEMMA CheckSame ==
  ASSUME CheckInv, UNCHANGED <<info, passed, jobState, handled, inbox>>,
         registered \subseteq registered', allocated' \subseteq allocated,
         \A w \in World : worldJob'[w] \in Job => worldJob'[w] = worldJob[w],
         \A t \in Ingress : pc'[t] \in Hosting => pc[t] \in Hosting /\ job'[t] = job[t]
  PROVE  CheckInv'
  <1>1. ASSUME NEW k \in Job PROVE Checked(k)'
    <2>1. InWorld(k)' => InWorld(k)
      BY DEF InWorld
    <2> QED
      BY <2>1, CheckedSame DEF CheckInv
  <1>2. ASSUME NEW t \in Ingress PROVE Fresh(t)'
    BY FreshSame DEF CheckInv
  <1> QED
    BY <1>1, <1>2 DEF CheckInv

LEMMA AllocateChecked ==
  ASSUME Inv, registered \subseteq registered', NEW t \in Ingress, NEW p \in Packet, NEW j \in Job,
         AllocateServiceJob(t, p, j)
  PROVE  CheckInv'
  <1>1. p.id \in Nat /\ state = "Ready" /\ IsFound(p.id) /\ p.size = FindBinding(p.id).payloadBytes
    BY HostAssumption DEF AllocateServiceJob
  <1>2. PICK b : b = FindBinding(p.id)
    OBVIOUS
  <1>3. PICK s : s = FindService(p.id)
    OBVIOUS
  <1>4. b.packetId = p.id /\ b \in registered /\ s.middlewareCount \in Nat /\ p.size = b.payloadBytes
    BY <1>1, <1>2, <1>3, FoundBinding DEF Inv
  <1>5. /\ info' = [info EXCEPT ![j] = [packet |-> p, binding |-> b, service |-> s]]
        /\ passed' = [passed EXCEPT ![j] = 0]
        /\ jobState' = [jobState EXCEPT ![j] = "Ready"]
        /\ handled' = [handled EXCEPT ![j] = 0]
        /\ j \notin allocated /\ allocated' = allocated \union {j}
        /\ UNCHANGED <<inbox, worldJob>>
        /\ \A u \in Ingress \ {t} : pc'[u] = pc[u] /\ job'[u] = job[u]
        /\ pc'[t] = "decode" /\ job'[t] = j
    BY <1>2, <1>3, Zenon DEF AllocateServiceJob, worldVars, Inv, OwnerInv, OwnerType
  <1>6. /\ j \notin inbox /\ \A w \in World : worldJob[w] # j
        /\ \A u \in Ingress : job[u] = j => pc[u] \notin Hosting
    BY <1>5, FreeJobUnowned DEF Inv
  <1>7. /\ info = [k \in Job |-> info[k]]
        /\ passed \in [Job -> Nat]
        /\ jobState \in [Job -> {"Ready", "Executed"}]
        /\ handled = [k \in Job |-> IF jobState[k] = "Ready" THEN 0 ELSE 1]
        /\ \A u \in Ingress : Fresh(u)
        /\ \A k \in Job : Checked(k)
    BY DEF Inv, CheckInv
  <1>8. /\ info' = [k \in Job |-> info'[k]]
        /\ info'[j] = [packet |-> p, binding |-> b, service |-> s]
        /\ \A k \in Job \ {j} : info'[k] = info[k]
    BY <1>5, <1>7
  <1>9. /\ passed' \in [Job -> Nat] /\ passed'[j] = 0
        /\ jobState' \in [Job -> {"Ready", "Executed"}] /\ jobState'[j] = "Ready"
        /\ \A k \in Job \ {j} : passed'[k] = passed[k] /\ jobState'[k] = jobState[k]
        /\ handled' = [k \in Job |-> IF jobState'[k] = "Ready" THEN 0 ELSE 1]
    BY <1>5, <1>7
  <1>10. ASSUME NEW k \in Job PROVE Checked(k)'
    <2>1. CASE k = j
      <3>1. ~InWorld(j)' /\ j \notin inbox'
        BY <1>5, <1>6 DEF InWorld
      <3>2. /\ info'[j].packet = p /\ info'[j].binding = b /\ info'[j].service = s
        BY <1>8
      <3> QED
        BY <1>4, <1>9, <2>1, <3>1, <3>2 DEF Checked
    <2>2. CASE k # j
      <3>1. InWorld(k)' => InWorld(k)
        BY <1>5 DEF InWorld
      <3> QED
        BY <1>5, <1>7, <1>8, <1>9, <2>2, <3>1, CheckedSame
    <2> QED
      BY <2>1, <2>2
  <1>11. ASSUME NEW u \in Ingress PROVE Fresh(u)'
    <2>1. CASE u = t
      BY <1>5, <1>9, <2>1 DEF Fresh
    <2>2. CASE u # t
      <3>1. pc[u] \in Hosting => job[u] \in Job \ {j}
        BY <1>6, HostHolds DEF Inv
      <3> QED
        BY <1>5, <1>7, <1>9, <2>2, <3>1 DEF Fresh
    <2> QED
      BY <2>1, <2>2
  <1> QED
    BY <1>8, <1>9, <1>10, <1>11 DEF CheckInv

LEMMA IngressChecks ==
  ASSUME Inv, registered \subseteq registered', NEW t \in Ingress, IngressStep(t)
  PROVE  CheckInv'
  <1>1. CheckInv /\ OwnerInv /\ OwnerType
    BY DEF Inv, OwnerInv
  <1>2. CASE RequestDecoded(t) \/ DecodeRequest(t) \/ SubmitSucceeds(t)
    <2>1. UNCHANGED <<info, passed, jobState, handled, inbox, allocated, worldJob>>
      BY <1>2 DEF RequestDecoded, DecodeRequest, SubmitSucceeds, jobVars, worldVars
    <2>2. \A u \in Ingress : pc'[u] \in Hosting => pc[u] \in Hosting /\ job'[u] = job[u]
      BY <1>1, <1>2 DEF RequestDecoded, DecodeRequest, SubmitSucceeds, Return, OwnerType, Hosting
    <2> QED
      BY <1>1, <2>1, <2>2, CheckSame
  <1>3. CASE DecodeFails(t) \/ MiddlewareRejects(t) \/ SubmitFails(t)
    <2>1. /\ UNCHANGED <<info, passed, jobState, handled, inbox, worldJob>>
          /\ Return(t) /\ allocated' \subseteq allocated
      BY <1>3 DEF DecodeFails, MiddlewareRejects, SubmitFails, DestroyJob, worldVars
    <2>2. \A u \in Ingress : pc'[u] \in Hosting => pc[u] \in Hosting /\ job'[u] = job[u]
      BY <1>1, <2>1 DEF Return, OwnerType, Hosting
    <2> QED
      BY <1>1, <2>1, <2>2, CheckSame
  <1>4. CASE Middleware(t)
    <2>1. PICK j : j = job[t]
      OBVIOUS
    <2>2. /\ passed[j] < info[j].service.middlewareCount
          /\ passed' = [passed EXCEPT ![j] = @ + 1]
          /\ UNCHANGED <<info, jobState, handled, inbox, allocated, worldJob, pc, job>>
          /\ pc[t] \in Hosting
      BY <1>4, <2>1 DEF Middleware, MoreMiddleware, Hosting, callVars, worldVars
    <2>3. j \in Job /\ j \in allocated /\ j \notin inbox /\ \A w \in World : worldJob[w] # j
      BY <1>1, <2>1, <2>2, HostHolds
    <2>4. /\ passed' \in [Job -> Nat] /\ passed'[j] = passed[j] + 1
          /\ \A k \in Job \ {j} : passed'[k] = passed[k]
          /\ passed[j] \in Nat
      BY <1>1, <2>2, <2>3 DEF CheckInv
    <2>5. ASSUME NEW k \in Job PROVE Checked(k)'
      <3>1. InWorld(k)' <=> InWorld(k)
        BY <2>2 DEF InWorld
      <3>2. CASE k = j
        <4>1. ~InWorld(j) /\ Checked(j)
          BY <1>1, <2>3 DEF InWorld, CheckInv
        <4>2. info[j].service.middlewareCount \in Nat
          BY <2>3, <4>1 DEF Checked
        <4>3. passed'[j] <= info[j].service.middlewareCount
          BY <2>2, <2>4, <4>2
        <4> QED
          BY <2>2, <2>3, <3>1, <3>2, <4>1, <4>3 DEF Checked
      <3>3. CASE k # j
        BY <1>1, <2>2, <2>4, <3>1, <3>3, CheckedSame DEF CheckInv
      <3> QED
        BY <3>2, <3>3
    <2>6. \A u \in Ingress : Fresh(u)'
      BY <1>1, <2>2, FreshSame DEF CheckInv
    <2> QED
      BY <1>1, <2>2, <2>4, <2>5, <2>6 DEF CheckInv
  <1>5. CASE ExecutorAdmits(t)
    <2>1. PICK j : j = job[t]
      OBVIOUS
    <2>2. /\ ~(passed[j] < info[j].service.middlewareCount)
          /\ pc[t] \in Hosting /\ pc'[t] \notin Hosting
          /\ inbox' = inbox \union {j}
          /\ UNCHANGED <<info, passed, jobState, handled, allocated, worldJob, job>>
          /\ \A u \in Ingress \ {t} : pc'[u] = pc[u]
      BY <1>1, <1>5, <2>1 DEF ExecutorAdmits, MoreMiddleware, Hosting, jobVars, OwnerType
    <2>3. j \in Job /\ j \in allocated /\ jobState[j] = "Ready"
      BY <1>1, <2>1, <2>2, HostHolds DEF CheckInv, Fresh
    <2>4. ASSUME NEW k \in Job PROVE Checked(k)'
      <3>1. CASE k = j
        <4>1. Checked(j) /\ passed[j] \in Nat
          BY <1>1, <2>3 DEF CheckInv
        <4>2. passed[j] = info[j].service.middlewareCount
          BY <2>2, <2>3, <4>1 DEF Checked
        <4> QED
          BY <2>2, <2>3, <3>1, <4>1, <4>2 DEF Checked
      <3>2. CASE k # j
        <4>1. InWorld(k)' => InWorld(k)
          BY <2>2, <3>2 DEF InWorld
        <4> QED
          BY <1>1, <2>2, <3>2, <4>1, CheckedSame DEF CheckInv
      <3> QED
        BY <3>1, <3>2
    <2>5. \A u \in Ingress : Fresh(u)'
      BY <1>1, <2>2, FreshSame DEF CheckInv
    <2> QED
      BY <1>1, <2>2, <2>4, <2>5 DEF CheckInv
  <1> QED
    BY <1>2, <1>3, <1>4, <1>5, AllocateChecked DEF IngressStep

LEMMA WorldChecks ==
  ASSUME Inv, registered \subseteq registered', NEW w \in World, WorldStep(w)
  PROVE  CheckInv'
  <1>1. CheckInv /\ OwnerInv /\ OwnerType
    BY DEF Inv, OwnerInv
  <1>2. ASSUME NEW j \in Job, WorldTake(w, j) PROVE CheckInv'
    <2>1. /\ j \in inbox /\ inbox' = inbox \ {j} /\ worldJob'[w] = j
          /\ UNCHANGED <<info, passed, jobState, handled, allocated, pc, job>>
          /\ \A v \in World \ {w} : worldJob'[v] = worldJob[v]
      BY <1>1, <1>2 DEF WorldTake, callVars, jobVars, OwnerType
    <2>2. ASSUME NEW k \in Job PROVE Checked(k)'
      <3>1. InWorld(k)' => InWorld(k)
        BY <2>1 DEF InWorld
      <3> QED
        BY <1>1, <2>1, <3>1, CheckedSame DEF CheckInv
    <2>3. \A u \in Ingress : Fresh(u)'
      BY <1>1, <2>1, FreshSame DEF CheckInv
    <2> QED
      BY <1>1, <2>1, <2>2, <2>3 DEF CheckInv
  <1>3. CASE ExecuteBegin(w)
    <2>1. PICK j : j = worldJob[w]
      OBVIOUS
    <2>2. /\ worldPc[w] # "idle" /\ jobState[j] = "Ready"
          /\ jobState' = [jobState EXCEPT ![j] = "Executed"]
          /\ handled' = [handled EXCEPT ![j] = @ + 1]
          /\ UNCHANGED <<info, passed, allocated, inbox, worldJob, pc, job>>
      BY <1>3, <2>1 DEF ExecuteBegin, MayExecute, callVars
    <2>3. j \in Job /\ j \notin inbox /\ \A u \in Ingress : job[u] = j => pc[u] \notin Hosting
      BY <1>1, <2>1, <2>2, WorldHolds
    <2>4. /\ jobState' \in [Job -> {"Ready", "Executed"}] /\ jobState'[j] = "Executed"
          /\ \A k \in Job \ {j} : jobState'[k] = jobState[k]
      BY <1>1, <2>2, <2>3 DEF CheckInv
    <2>5. handled' = [k \in Job |-> IF jobState'[k] = "Ready" THEN 0 ELSE 1]
      BY <1>1, <2>2, <2>3, <2>4 DEF CheckInv
    <2>6. ASSUME NEW k \in Job PROVE Checked(k)'
      <3>1. InWorld(k)' => InWorld(k)
        BY <2>2 DEF InWorld
      <3> QED
        BY <1>1, <2>2, <2>3, <2>4, <3>1, CheckedSame DEF CheckInv
    <2>7. ASSUME NEW u \in Ingress PROVE Fresh(u)'
      <3>1. pc[u] \in Hosting => job[u] \in Job \ {j}
        BY <1>1, <2>3, HostHolds
      <3> QED
        BY <1>1, <2>2, <2>4, <3>1 DEF Fresh, CheckInv
    <2> QED
      BY <1>1, <2>2, <2>4, <2>5, <2>6, <2>7 DEF CheckInv
  <1>4. CASE OneWayReturns(w) \/ HandlerFails(w) \/ HandlerResponds(w) \/ EncodeResponse(w)
             \/ EncodeFails(w) \/ OutputReturns(w)
    <2>1. UNCHANGED <<info, passed, jobState, handled, inbox, allocated, worldJob, pc, job>>
      BY <1>4 DEF OneWayReturns, HandlerFails, HandlerResponds, EncodeResponse, EncodeFails,
                  OutputReturns, callVars, jobVars
    <2> QED
      BY <1>1, <2>1, CheckSame
  <1>5. CASE WorldDestroy(w)
    <2>1. /\ UNCHANGED <<info, passed, jobState, handled, inbox, pc, job>>
          /\ allocated' \subseteq allocated
          /\ \A v \in World : worldJob'[v] \in Job => worldJob'[v] = worldJob[v]
      BY <1>1, <1>5, HostAssumption DEF WorldDestroy, DestroyJob, callVars, OwnerType
    <2> QED
      BY <1>1, <2>1, CheckSame
  <1> QED
    BY <1>2, <1>3, <1>4, <1>5 DEF WorldStep

LEMMA CheckStep == Inv /\ [Next]_vars => CheckInv'
  <1> SUFFICES ASSUME Inv, [Next]_vars PROVE CheckInv'
    OBVIOUS
  <1>1. registered \subseteq registered'
    BY RegisteredGrows
  <1>2. CASE RegistrationStep \/ Destroy \/ UNCHANGED vars
    <2>1. UNCHANGED <<info, passed, jobState, handled, inbox, allocated, worldJob, pc, job>>
      BY <1>2 DEF RegistrationStep, RegisterService, StageBinding, StageFails, StageCommit,
                  StoreService, FinalizeRegistration, Destroy, vars, callVars, jobVars, worldVars
    <2> QED
      BY <1>1, <2>1, CheckSame DEF Inv
  <1> QED
    BY <1>1, <1>2, IngressChecks, WorldChecks DEF Next
-----------------------------------------------------------------------------
LEMMA NextInv == Inv /\ [Next]_vars => Inv'
  BY RegistryStep, OwnerStep, ObjectStep, CheckStep DEF Inv

LEMMA SpecInv == Spec => []Inv
  BY InitInv, NextInv, PTL DEF Spec

\* The types, and the balance of the objects: a request is constructed when an owner may read it
\* and destroyed once, before the memory goes (TkServiceJobDestroy); a response lives from before
\* its handler to after its encoding, or to the failure of the handler.
THEOREM HostKeepsItsBooks == Spec => []HostConsistent
  <1>1. ASSUME Inv PROVE HostConsistent
    <2>1. ObjectsBalance
      BY <1>1 DEF Inv, ObjectInv, Balanced, Responding, ObjectsBalance
    <2>2. handled \in [Job -> Nat]
      BY <1>1 DEF Inv, CheckInv
    <2>3. TypeOK
      BY <1>1, <2>2 DEF Inv, RegistryInv, OwnerInv, OwnerType, ObjectInv, CheckInv, TypeOK
    <2> QED
      BY <2>1, <2>3 DEF HostConsistent
  <1> QED
    BY <1>1, SpecInv, PTL

\* A job that is allocated has one owner and one that is freed has none, however the return of
\* the executor's callback and the destruction of the job in the world follow each other
\* (TkServiceHost::ProcessPacket hands the job over before it knows the answer).
THEOREM JobsHaveOneOwner == Spec => []SoleOwner
  <1>1. ASSUME Inv PROVE SoleOwner
    <2>1. ASSUME NEW j \in Job
          PROVE  Cardinality(Owners(j)) = (IF j \in allocated THEN 1 ELSE 0)
      <3>1. \A x : x \in Owners(j) <=> Owns(x, j)
        BY DEF Owners, Owns, Hosting
      <3>2. Sole(j)
        BY <1>1 DEF Inv, OwnerInv
      <3>3. CASE j \in allocated
        <4>1. PICK x \in Party : \A y : Owns(y, j) <=> y = x
          BY <3>2, <3>3 DEF Sole
        <4>2. Owners(j) = {x}
          BY <3>1, <4>1
        <4> QED
          BY <3>3, <4>2, FS_Singleton
      <3>4. CASE j \notin allocated
        <4>1. Owners(j) = {}
          BY <3>1, <3>2, <3>4 DEF Sole
        <4> QED
          BY <3>4, <4>1, FS_EmptySet
      <3> QED
        BY <3>3, <3>4
    <2> QED
      BY <2>1 DEF SoleOwner
  <1> QED
    BY <1>1, SpecInv, PTL

\* What the world executes went through every middleware and was decoded by the binding of its
\* identifier and size (the checks of TkServiceHost::ProcessPacket, in their order).
THEOREM OnlyCheckedJobsReachTheWorld == Spec => []OnlyCheckedJobs
  <1>1. ASSUME Inv PROVE OnlyCheckedJobs
    <2>1. ASSUME NEW j \in Job, InWorld(j) PROVE j \in allocated
      <3>1. CASE j \in inbox
        BY <1>1, <3>1, ExecutorHolds DEF Inv
      <3>2. ASSUME NEW w \in World, worldJob[w] = j PROVE j \in allocated
        <4>1. worldPc[w] # "idle"
          BY <1>1, <3>2, HostAssumption DEF Inv, OwnerInv, OwnerType
        <4> QED
          BY <1>1, <3>2, <4>1, WorldHolds DEF Inv
      <3> QED
        BY <2>1, <3>1, <3>2 DEF InWorld
    <2> QED
      BY <1>1, <2>1 DEF Inv, CheckInv, Checked, OnlyCheckedJobs
  <1> QED
    BY <1>1, SpecInv, PTL

\* A Ready host finds exactly the identifiers that were registered, each with its own binding,
\* and has one binding for each: std::sort over the entries (FinalizeRegistration) and
\* std::lower_bound (FindBinding) agree, for any registrations.
THEOREM RegisteredPacketsAreFound == Spec => []EveryPacketFound
  <1>1. ASSUME Inv PROVE EveryPacketFound
    <2>1. RegistryInv /\ services \in Seq(Registration)
      BY <1>1 DEF Inv, RegistryInv
    <2>2. RegistryConsistent
      <3>1. ASSUME NEW n \in DOMAIN services
            PROVE  [bindings |-> services[n].bindings,
                    middlewareCount |-> services[n].middlewareCount] \in Registration
        <4>1. services[n] \in Registration
          BY <2>1
        <4> QED
          BY <4>1, RegistrationShape
      <3>2. /\ DOMAIN services = 1..Len(services)
            /\ \A n \in 1..Len(services) :
                  DOMAIN services[n].bindings = 1..Len(services[n].bindings)
        BY <2>1, ServicesShape
      <3>3. ASSUME NEW m \in DOMAIN services, NEW n \in DOMAIN services,
                   NEW k \in DOMAIN services[m].bindings, NEW l \in DOMAIN services[n].bindings,
                   services[m].bindings[k].packetId = services[n].bindings[l].packetId
            PROVE  m = n /\ k = l
        <4>1. /\ m \in 1..Len(services) /\ n \in 1..Len(services)
              /\ k \in 1..Len(services[m].bindings) /\ l \in 1..Len(services[n].bindings)
          BY <3>2
        <4> QED
          BY <2>1, <3>3, <4>1 DEF RegistryInv, UniqueIds
      <3> QED
        BY <3>1, <3>3, Zenon DEF RegistryConsistent
    <2>3. ASSUME state = "Ready", NEW p \in Packet
          PROVE  /\ IsFound(p.id) <=> \E b \in registered : b.packetId = p.id
                 /\ IsFound(p.id) => FindBinding(p.id).packetId = p.id
      <3>1. p.id \in Nat
        BY HostAssumption
      <3> QED
        BY <2>1, <2>3, <3>1, FoundIffRegistered, FoundBinding
    <2> QED
      BY <2>2, <2>3 DEF EveryPacketFound
  <1> QED
    BY <1>1, SpecInv, PTL
-----------------------------------------------------------------------------
(***************************************************************************)
(* Custody                                                                 *)
(***************************************************************************)
Place(j) ==
    IF j \notin allocated THEN "none"
    ELSE IF \E t \in Ingress : job[t] = j /\ pc[t] \in {"decode", "decoding", "middleware"}
         THEN "host"
    ELSE CASE handled[j] = 0 -> "admitted"
           [] handled[j] = 1 -> "executed"
           [] OTHER -> "executedTwice"

places == [j \in Job |-> Place(j)]

Hosted(j) == \E t \in Ingress : job[t] = j /\ pc[t] \in Hosting

LEMMA PlaceIs ==
  \A j : /\ j \notin allocated => Place(j) = "none"
         /\ j \in allocated /\ Hosted(j) => Place(j) = "host"
         /\ j \in allocated /\ ~Hosted(j) /\ handled[j] = 0 => Place(j) = "admitted"
         /\ j \in allocated /\ ~Hosted(j) /\ handled[j] = 1 => Place(j) = "executed"
  BY DEF Place, Hosted, Hosting

LEMMA PlaceIsNext ==
  \A j : /\ j \notin allocated' => Place(j)' = "none"
         /\ j \in allocated' /\ Hosted(j)' => Place(j)' = "host"
         /\ j \in allocated' /\ ~Hosted(j)' /\ handled'[j] = 0 => Place(j)' = "admitted"
         /\ j \in allocated' /\ ~Hosted(j)' /\ handled'[j] = 1 => Place(j)' = "executed"
  BY DEF Place, Hosted, Hosting

LEMMA PlaceSame ==
  ASSUME NEW j, j \in allocated' <=> j \in allocated, Hosted(j)' <=> Hosted(j),
         handled'[j] = handled[j]
  PROVE  Place(j)' = Place(j)
  BY DEF Place, Hosted, Hosting

\* One job moves.
LEMMA PlaceMoves ==
  ASSUME NEW j \in Job, NEW from, NEW to, Place(j) \in from, Place(j)' = to,
         \A k \in Job \ {j} : /\ k \in allocated' <=> k \in allocated
                              /\ Hosted(k)' <=> Hosted(k)
                              /\ handled'[k] = handled[k]
  PROVE  places[j] \in from /\ places' = [places EXCEPT ![j] = to]
  <1>1. \A k \in Job \ {j} : Place(k)' = Place(k)
    BY PlaceSame
  <1> QED
    BY <1>1 DEF places

LEMMA CustodyMoves ==
  ASSUME NEW j, NEW from, NEW to, places[j] \in from, places' = [places EXCEPT ![j] = to]
  PROVE  Custody!Move(j, from, to)
  BY Zenon DEF Custody!Move, places, Place

LEMMA CustodyStep ==
  ASSUME Inv, [Next]_vars
  PROVE  [Custody!Next]_places
  <1>1. /\ CheckInv /\ OwnerInv /\ OwnerType
        /\ handled = [j \in Job |-> IF jobState[j] = "Ready" THEN 0 ELSE 1]
        /\ \A j \in Job : jobState[j] \in {"Ready", "Executed"}
    BY DEF Inv, OwnerInv, CheckInv
  <1>2. ASSUME UNCHANGED <<allocated, handled, job>>,
               \A t \in Ingress : pc'[t] \in Hosting <=> pc[t] \in Hosting
        PROVE  UNCHANGED places
    <2>1. \A j \in Job : Place(j)' = Place(j)
      BY <1>2, PlaceSame DEF Hosted
    <2> QED
      BY <2>1 DEF places
  <1>3. CASE RegistrationStep \/ Destroy \/ UNCHANGED vars
    <2>1. UNCHANGED <<allocated, handled, job, pc>>
      BY <1>3 DEF RegistrationStep, RegisterService, StageBinding, StageFails, StageCommit,
                  StoreService, FinalizeRegistration, Destroy, vars, callVars, jobVars
    <2> QED
      BY <1>2, <2>1
  <1>4. ASSUME NEW t \in Ingress, NEW p \in Packet, NEW j \in Job, AllocateServiceJob(t, p, j)
        PROVE  Custody!Next
    <2>1. /\ j \notin allocated /\ allocated' = allocated \union {j}
          /\ handled' = [handled EXCEPT ![j] = 0]
          /\ pc[t] = "idle" /\ pc'[t] = "decode" /\ job'[t] = j
          /\ \A u \in Ingress \ {t} : pc'[u] = pc[u] /\ job'[u] = job[u]
      BY <1>1, <1>4 DEF AllocateServiceJob, OwnerType
    <2>2. Hosted(j)' /\ \A k \in Job \ {j} : Hosted(k)' <=> Hosted(k)
      BY <2>1 DEF Hosted, Hosting
    <2>3. Place(j) \in {"none"} /\ Place(j)' = "host"
      BY <2>1, <2>2, PlaceIs, PlaceIsNext
    <2>4. \A k \in Job \ {j} : (k \in allocated' <=> k \in allocated) /\ handled'[k] = handled[k]
      BY <1>1, <2>1
    <2>5. Custody!Make(j)
      BY <2>2, <2>3, <2>4, PlaceMoves, CustodyMoves DEF Custody!Make
    <2> QED
      BY <2>5 DEF Custody!Next
  <1>5. ASSUME NEW t \in Ingress, DecodeFails(t) \/ MiddlewareRejects(t) \/ SubmitFails(t)
        PROVE  Custody!Next
    <2>1. PICK j : j = job[t]
      OBVIOUS
    <2>2. /\ pc[t] \in Hosting /\ pc'[t] \notin Hosting
          /\ allocated' = allocated \ {j} /\ handled' = handled
          /\ \A u \in Ingress \ {t} : pc'[u] = pc[u] /\ job'[u] = job[u]
      BY <1>1, <1>5, <2>1 DEF DecodeFails, MiddlewareRejects, SubmitFails, DestroyJob, Return,
                              Hosting, OwnerType
    <2>3. j \in Job /\ j \in allocated /\ Hosted(j)
      BY <1>1, <2>1, <2>2, HostHolds DEF Hosted
    <2>4. \A k \in Job \ {j} : Hosted(k)' <=> Hosted(k)
      BY <2>1, <2>2 DEF Hosted
    <2>5. Place(j) \in {"host", "admitted", "executed"} /\ Place(j)' = "none"
      BY <2>2, <2>3, PlaceIs, PlaceIsNext
    <2>6. Custody!Release(j)
      BY <2>2, <2>3, <2>4, <2>5, PlaceMoves, CustodyMoves DEF Custody!Release
    <2> QED
      BY <2>3, <2>6 DEF Custody!Next
  <1>6. ASSUME NEW t \in Ingress, ExecutorAdmits(t) PROVE Custody!Next
    <2>1. PICK j : j = job[t]
      OBVIOUS
    <2>2. /\ pc[t] \in Hosting /\ pc'[t] \notin Hosting
          /\ UNCHANGED <<allocated, handled, job>>
          /\ \A u \in Ingress \ {t} : pc'[u] = pc[u]
      BY <1>1, <1>6 DEF ExecutorAdmits, Hosting, jobVars, OwnerType
    <2>3. /\ j \in Job /\ j \in allocated /\ Hosted(j) /\ handled[j] = 0
          /\ \A u \in Ingress \ {t} : job[u] = j => pc[u] \notin Hosting
      BY <1>1, <2>1, <2>2, HostHolds DEF Hosted, CheckInv, Fresh
    <2>4. ~Hosted(j)' /\ \A k \in Job \ {j} : Hosted(k)' <=> Hosted(k)
      BY <2>1, <2>2, <2>3 DEF Hosted
    <2>5. Place(j) \in {"host"} /\ Place(j)' = "admitted"
      BY <2>2, <2>3, <2>4, PlaceIs, PlaceIsNext
    <2>6. Custody!Admit(j)
      BY <2>2, <2>3, <2>4, <2>5, PlaceMoves, CustodyMoves DEF Custody!Admit
    <2> QED
      BY <2>3, <2>6 DEF Custody!Next
  <1>7. ASSUME NEW t \in Ingress, SubmitSucceeds(t) PROVE UNCHANGED places
    <2>1. /\ UNCHANGED <<allocated, handled>>
          /\ pc[t] = "admitted" /\ pc'[t] = "idle"
          /\ \A u \in Ingress \ {t} : pc'[u] = pc[u] /\ job'[u] = job[u]
      BY <1>1, <1>7 DEF SubmitSucceeds, Return, jobVars, OwnerType
    <2>2. \A j \in Job : Hosted(j)' <=> Hosted(j)
      BY <2>1 DEF Hosted, Hosting
    <2>3. \A j \in Job : Place(j)' = Place(j)
      BY <2>1, <2>2, PlaceSame
    <2> QED
      BY <2>3 DEF places
  <1>8. ASSUME NEW t \in Ingress, DecodeRequest(t) \/ RequestDecoded(t) \/ Middleware(t)
        PROVE  UNCHANGED places
    <2>1. /\ UNCHANGED <<allocated, handled, job>>
          /\ \A u \in Ingress : pc'[u] \in Hosting <=> pc[u] \in Hosting
      BY <1>1, <1>8 DEF DecodeRequest, RequestDecoded, Middleware, Hosting, callVars, jobVars,
                        OwnerType
    <2> QED
      BY <1>2, <2>1
  <1>9. ASSUME NEW w \in World, ExecuteBegin(w) PROVE Custody!Next
    <2>1. PICK j : j = worldJob[w]
      OBVIOUS
    <2>2. /\ worldPc[w] # "idle" /\ jobState[j] = "Ready"
          /\ handled' = [handled EXCEPT ![j] = @ + 1]
          /\ UNCHANGED <<allocated, pc, job>>
      BY <1>9, <2>1 DEF ExecuteBegin, MayExecute, callVars
    <2>3. j \in Job /\ j \in allocated /\ ~Hosted(j)
      BY <1>1, <2>1, <2>2, WorldHolds DEF Hosted
    <2>4. /\ handled[j] = 0 /\ handled'[j] = 1
          /\ \A k \in Job \ {j} : handled'[k] = handled[k]
      BY <1>1, <2>2, <2>3
    <2>5. \A k : Hosted(k)' <=> Hosted(k)
      BY <2>2 DEF Hosted
    <2>6. Place(j) \in {"admitted"} /\ Place(j)' = "executed"
      BY <2>2, <2>3, <2>4, <2>5, PlaceIs, PlaceIsNext
    <2>7. Custody!Execute(j)
      BY <2>2, <2>3, <2>4, <2>5, <2>6, PlaceMoves, CustodyMoves DEF Custody!Execute
    <2> QED
      BY <2>3, <2>7 DEF Custody!Next
  <1>10. ASSUME NEW w \in World,
                \/ \E j \in Job : WorldTake(w, j)
                \/ OneWayReturns(w) \/ HandlerFails(w) \/ HandlerResponds(w)
                \/ EncodeResponse(w) \/ EncodeFails(w) \/ OutputReturns(w)
         PROVE  UNCHANGED places
    <2>1. UNCHANGED <<allocated, handled, job, pc>>
      BY <1>10 DEF WorldTake, OneWayReturns, HandlerFails, HandlerResponds, EncodeResponse,
                   EncodeFails, OutputReturns, callVars, jobVars
    <2> QED
      BY <1>2, <2>1
  <1>11. ASSUME NEW w \in World, WorldDestroy(w) PROVE Custody!Next
    <2>1. PICK j : j = worldJob[w]
      OBVIOUS
    <2>2. /\ worldPc[w] # "idle" /\ allocated' = allocated \ {j}
          /\ UNCHANGED <<handled, pc, job>>
      BY <1>11, <2>1 DEF WorldDestroy, DestroyJob, callVars
    <2>3. j \in Job /\ j \in allocated /\ ~Hosted(j) /\ handled[j] \in {0, 1}
      BY <1>1, <2>1, <2>2, WorldHolds DEF Hosted
    <2>4. \A k : Hosted(k)' <=> Hosted(k)
      BY <2>2 DEF Hosted
    <2>5. Place(j) \in {"host", "admitted", "executed"} /\ Place(j)' = "none"
      BY <2>2, <2>3, PlaceIs, PlaceIsNext
    <2>6. Custody!Release(j)
      BY <2>2, <2>3, <2>4, <2>5, PlaceMoves, CustodyMoves DEF Custody!Release
    <2> QED
      BY <2>3, <2>6 DEF Custody!Next
  <1> QED
    BY <1>3, <1>4, <1>5, <1>6, <1>7, <1>8, <1>9, <1>10, <1>11 DEF Next, IngressStep, WorldStep

\* The application may take JobCustody for the host: whoever holds a job releases it, once, and
\* it is executed at most once, after it was admitted.
THEOREM HostImplementsCustody == Spec => ImplementsCustody
  <1>1. Init => Custody!Init
    <2> SUFFICES ASSUME Init PROVE Custody!Init
      OBVIOUS
    <2>1. \A j \in Job : Place(j) = "none"
      BY PlaceIs DEF Init
    <2> QED
      BY <2>1 DEF Custody!Init, Place
  <1> QED
    BY <1>1, CustodyStep, SpecInv, PTL DEF Spec, ImplementsCustody, Custody!Spec, places, Place
-----------------------------------------------------------------------------
(***************************************************************************)
(* The layout of a job                                                     *)
(***************************************************************************)
LEMMA Quotient == ASSUME NEW n \in Nat, NEW a \in Nat \ {0}
                  PROVE  /\ n % a \in 0..(a - 1)
                         /\ \E q \in Nat : n = (a * q) + (n % a)
  <1>1. n % a \in 0..(a - 1)
    BY Z3
  <1>2. n \div a \in Nat /\ n = (a * (n \div a)) + (n % a)
    BY Z3
  <1> QED
    BY <1>1, <1>2

LEMMA MultipleOf == ASSUME NEW a \in Nat \ {0}, NEW q \in Nat
                    PROVE  (a * q) % a = 0
  BY Z3

LEMMA RoundDown == ASSUME NEW n \in Nat, NEW a \in Nat \ {0}
                   PROVE  /\ n - (n % a) \in Nat
                          /\ n - (n % a) <= n
                          /\ n - (n % a) > n - a
                          /\ (n - (n % a)) % a = 0
  <1>1. PICK q \in Nat : n = (a * q) + (n % a)
    BY Quotient
  <1>2. n % a \in 0..(a - 1)
    BY Quotient
  <1>3. a * q \in Nat
    OBVIOUS
  <1>4. n - (n % a) = a * q
    BY <1>1, <1>2, <1>3
  <1>5. (a * q) % a = 0
    BY MultipleOf
  <1> QED
    BY <1>1, <1>2, <1>3, <1>4, <1>5

LEMMA Unwrapped == ASSUME NEW n \in 0..SizeMax PROVE Wrapped(n) = n
  BY JobLayoutAssumption DEF Wrapped

LEMMA AlignUpIsAligned ==
    ASSUME NEW v \in 0..SizeMax, NEW a \in Alignments, CanAlign(v, a)
    PROVE  /\ AlignUp(v, a) \in v..SizeMax
           /\ AlignUp(v, a) % a = 0
  <1> DEFINE n == v + (a - 1)
  <1>1. a \in Nat \ {0} /\ SizeMax \in Nat
    BY JobLayoutAssumption
  <1>2. n \in 0..SizeMax
    BY <1>1 DEF CanAlign
  <1>3. AlignUp(v, a) = n - (n % a)
    BY <1>2, Unwrapped DEF AlignUp
  <1>4. n \in Nat
    BY <1>1
  <1> HIDE DEF n
  <1>5. n - (n % a) \in Nat /\ n - (n % a) <= n /\ n - (n % a) > n - a
        /\ (n - (n % a)) % a = 0
    BY <1>1, <1>4, RoundDown
  <1>6. n - a = v - 1
    BY <1>1 DEF n
  <1>7. n - (n % a) \in v..SizeMax
    BY <1>1, <1>2, <1>5, <1>6
  <1> QED
    BY <1>3, <1>5, <1>7

LEMMA AddSizeIsExact ==
    ASSUME NEW v \in 0..SizeMax, NEW n \in 0..SizeMax, CanAdd(v, n)
    PROVE  AddSize(v, n) = v + n /\ AddSize(v, n) \in v..SizeMax
  <1>1. SizeMax \in Nat
    BY JobLayoutAssumption
  <1>2. v + n \in 0..SizeMax
    BY <1>1 DEF CanAdd
  <1> QED
    BY <1>1, <1>2, Unwrapped DEF AddSize

\* Two multiples of one number are at least that number apart.
LEMMA MultiplesApart ==
    ASSUME NEW a \in Nat \ {0}, NEW m \in Nat, NEW n \in Nat,
           m % a = 0, n % a = 0, m < n
    PROVE  m + a <= n
  <1>1. PICK p \in Nat : m = a * p
    <2>1. PICK p \in Nat : m = (a * p) + (m % a)
      BY Quotient
    <2>2. a * p \in Nat
      OBVIOUS
    <2> QED
      BY <2>1, <2>2
  <1>2. PICK q \in Nat : n = a * q
    <2>1. PICK q \in Nat : n = (a * q) + (n % a)
      BY Quotient
    <2>2. a * q \in Nat
      OBVIOUS
    <2> QED
      BY <2>1, <2>2
  <1>3. p + 1 <= q
    <2>1. CASE q <= p
      <3>1. a * q <= a * p
        BY <2>1, Z3
      <3> QED
        BY <1>1, <1>2, <3>1
    <2> QED
      BY <2>1
  <1>4. a * (p + 1) <= a * q
    BY <1>3, Z3
  <1>5. a * (p + 1) = a * p + a
    BY Z3
  <1> QED
    BY <1>1, <1>2, <1>4, <1>5

\* Where a multiple can be reached at all, AlignUp does not pass it.
LEMMA AlignUpIsLeast ==
    ASSUME NEW v \in 0..SizeMax, NEW a \in Alignments,
           NEW r \in v..SizeMax, r % a = 0
    PROVE  CanAlign(v, a) /\ AlignUp(v, a) <= r
  <1>1. a \in Nat \ {0} /\ SizeMax \in Nat /\ (SizeMax + 1) % a = 0
    BY JobLayoutAssumption
  <1>2. r \in Nat /\ v <= r /\ r < SizeMax + 1
    BY <1>1
  <1>3. r + a <= SizeMax + 1
    <2>1. SizeMax + 1 \in Nat
      BY <1>1
    <2> QED
      BY <1>1, <1>2, <2>1, MultiplesApart
  <1>4. CanAlign(v, a)
    BY <1>1, <1>2, <1>3 DEF CanAlign
  <1>5. AlignUp(v, a) \in Nat /\ AlignUp(v, a) % a = 0
    BY <1>1, <1>4, AlignUpIsAligned
  <1>6. AlignUp(v, a) <= v + (a - 1)
    <2> DEFINE n == v + (a - 1)
    <2>1. n \in 0..SizeMax /\ n \in Nat
      BY <1>1, <1>4 DEF CanAlign
    <2>2. AlignUp(v, a) = n - (n % a)
      BY <2>1, Unwrapped DEF AlignUp
    <2> HIDE DEF n
    <2>3. n - (n % a) <= n
      BY <1>1, <2>1, RoundDown
    <2>4. AlignUp(v, a) <= n
      BY <2>2, <2>3
    <2> QED
      BY <2>4 DEF n
  <1>7. ~(r < AlignUp(v, a))
    <2>1. SUFFICES ASSUME r < AlignUp(v, a) PROVE FALSE
      OBVIOUS
    <2>2. r + a <= AlignUp(v, a)
      BY <1>1, <1>2, <1>5, <2>1, MultiplesApart
    <2> QED
      BY <1>1, <1>2, <1>5, <1>6, <2>2
  <1> QED
    BY <1>2, <1>4, <1>5, <1>7

\* A larger power of two is a multiple of each it was compared with.
LEMMA LargestIsMultiple ==
    ASSUME NEW a \in Alignments, NEW b \in Alignments
    PROVE  /\ Largest(a, b) \in Alignments
           /\ Largest(a, b) % a = 0
           /\ Largest(a, b) % b = 0
           /\ \A c \in Alignments : b % c = 0 => Largest(a, b) % c = 0
  <1>1. a \in Nat \ {0} /\ b \in Nat \ {0}
    BY JobLayoutAssumption
  <1>2. \A x, y \in Alignments : x <= y => y % x = 0
    BY JobLayoutAssumption
  <1>3. CASE a >= b
    <2>1. Largest(a, b) = a
      BY <1>3 DEF Largest
    <2>2. \A c \in Alignments : b % c = 0 => c <= b
      <3> SUFFICES ASSUME NEW c \in Alignments, b % c = 0 PROVE c <= b
        OBVIOUS
      <3>1. c \in Nat \ {0}
        BY JobLayoutAssumption
      <3>2. c > b => b % c = b
        BY <1>1, <3>1, Z3
      <3> QED
        BY <1>1, <3>1, <3>2
    <2>3. \A c \in Alignments : c <= b => c <= a
      BY <1>1, <1>3, JobLayoutAssumption
    <2> QED
      BY <1>1, <1>2, <1>3, <2>1, <2>2, <2>3
  <1>4. CASE ~(a >= b)
    BY <1>1, <1>2, <1>4 DEF Largest
  <1> QED
    BY <1>3, <1>4
-----------------------------------------------------------------------------
ValidBinding == binding \in OneWayBinding \union RequestResponseBinding

\* What the definitions of a layout need of a binding that was validated.
LEMMA BindingFacts ==
    ASSUME ValidBinding
    PROVE  /\ binding.requestSize \in 0..SizeMax
           /\ binding.requestAlignment \in Alignments
           /\ IsRequestResponse(binding) =>
                 /\ binding.responseSize \in 0..SizeMax
                 /\ binding.responseAlignment \in Alignments
                 /\ binding.payloadBytes \in 0..SizeMax
  <1>1. SizeMax \in Nat
    BY JobLayoutAssumption
  <1>2. CASE binding \in OneWayBinding
    BY <1>1, <1>2 DEF OneWayBinding, IsRequestResponse
  <1>3. CASE binding \in RequestResponseBinding
    BY <1>1, <1>3 DEF RequestResponseBinding
  <1> QED
    BY <1>2, <1>3 DEF ValidBinding

LEMMA RequestIsPlaced ==
    ASSUME ValidBinding, Fits(binding)
    PROVE  /\ RequestOffset(binding) \in JobSize..SizeMax
           /\ RequestOffset(binding) % binding.requestAlignment = 0
           /\ RequestEnd(binding) = RequestOffset(binding) + binding.requestSize
           /\ RequestEnd(binding) \in 0..SizeMax
  <1>1. SizeMax \in Nat /\ JobSize \in 0..SizeMax
    BY JobLayoutAssumption
  <1>2. CanAlign(JobSize, binding.requestAlignment)
        /\ CanAdd(RequestOffset(binding), binding.requestSize)
    BY DEF Fits
  <1>3. RequestOffset(binding) \in JobSize..SizeMax
        /\ RequestOffset(binding) % binding.requestAlignment = 0
    BY <1>1, <1>2, BindingFacts, AlignUpIsAligned DEF RequestOffset
  <1>4. RequestOffset(binding) \in 0..SizeMax
    BY <1>1, <1>3
  <1>5. RequestEnd(binding) = RequestOffset(binding) + binding.requestSize
        /\ RequestEnd(binding) \in RequestOffset(binding)..SizeMax
    BY <1>2, <1>4, BindingFacts, AddSizeIsExact DEF RequestEnd
  <1> QED
    BY <1>1, <1>3, <1>4, <1>5

LEMMA ResponseIsPlaced ==
    ASSUME ValidBinding, Fits(binding), IsRequestResponse(binding)
    PROVE  /\ ResponseOffset(binding) \in RequestEnd(binding)..SizeMax
           /\ ResponseOffset(binding) % binding.responseAlignment = 0
           /\ EncodedOffset(binding) = ResponseOffset(binding) + binding.responseSize
           /\ AllocationSize(binding) = EncodedOffset(binding) + binding.payloadBytes
           /\ AllocationSize(binding) <= SizeMax
  <1>1. SizeMax \in Nat /\ RequestEnd(binding) \in 0..SizeMax
    BY RequestIsPlaced, JobLayoutAssumption
  <1>2. /\ CanAlign(RequestEnd(binding), binding.responseAlignment)
        /\ CanAdd(ResponseOffset(binding), binding.responseSize)
        /\ CanAdd(EncodedOffset(binding), binding.payloadBytes)
    BY DEF Fits
  <1>3. ResponseOffset(binding) \in RequestEnd(binding)..SizeMax
        /\ ResponseOffset(binding) % binding.responseAlignment = 0
    BY <1>1, <1>2, BindingFacts, AlignUpIsAligned DEF ResponseOffset
  <1>4. ResponseOffset(binding) \in 0..SizeMax
    BY <1>1, <1>3
  <1>5. EncodedOffset(binding) = ResponseOffset(binding) + binding.responseSize
        /\ EncodedOffset(binding) \in ResponseOffset(binding)..SizeMax
    BY <1>2, <1>4, BindingFacts, AddSizeIsExact DEF EncodedOffset
  <1>6. EncodedOffset(binding) \in 0..SizeMax
    BY <1>4, <1>5, <1>1
  <1>7. AllocationSize(binding) = EncodedOffset(binding) + binding.payloadBytes
        /\ AllocationSize(binding) \in EncodedOffset(binding)..SizeMax
    BY <1>2, <1>6, BindingFacts, AddSizeIsExact DEF AllocationSize
  <1> QED
    BY <1>3, <1>5, <1>6, <1>7, <1>1

LEMMA AllocationIsAligned ==
    ASSUME ValidBinding
    PROVE  /\ AllocationAlignment(binding) % JobAlignment = 0
           /\ AllocationAlignment(binding) % binding.requestAlignment = 0
           /\ IsRequestResponse(binding) =>
                 AllocationAlignment(binding) % binding.responseAlignment = 0
  <1>1. JobAlignment \in Alignments /\ binding.requestAlignment \in Alignments
    BY BindingFacts, JobLayoutAssumption
  <1>2. CASE IsRequestResponse(binding)
    <2> DEFINE inner == Largest(binding.requestAlignment, binding.responseAlignment)
    <2>1. binding.responseAlignment \in Alignments
      BY <1>2, BindingFacts
    <2>2. inner \in Alignments /\ inner % binding.requestAlignment = 0
          /\ inner % binding.responseAlignment = 0
      BY <1>1, <2>1, LargestIsMultiple
    <2>3. AllocationAlignment(binding) = Largest(JobAlignment, inner)
      BY <1>2 DEF AllocationAlignment
    <2> HIDE DEF inner
    <2> QED
      BY <1>1, <2>1, <2>2, <2>3, LargestIsMultiple
  <1>3. CASE ~IsRequestResponse(binding)
    <2>1. binding.requestAlignment \in Nat \ {0}
      BY <1>1, JobLayoutAssumption
    <2>2. Largest(binding.requestAlignment, 1) = binding.requestAlignment
      BY <2>1 DEF Largest
    <2>3. AllocationAlignment(binding) = Largest(JobAlignment, binding.requestAlignment)
      BY <1>3, <2>2 DEF AllocationAlignment
    <2>4. binding.requestAlignment % binding.requestAlignment = 0
      BY <2>1, <1>1, JobLayoutAssumption
    <2> QED
      BY <1>1, <1>3, <2>3, <2>4, LargestIsMultiple
  <1> QED
    BY <1>2, <1>3

\* What a placement needs, the checks of TryBuildServiceJobLayout allow.
LEMMA PlaceableFits ==
    ASSUME ValidBinding, Placeable(binding)
    PROVE  Fits(binding)
  <1>1. SizeMax \in Nat /\ JobSize \in 0..SizeMax
    BY JobLayoutAssumption
  <1>2. /\ binding.requestSize \in 0..SizeMax
        /\ binding.requestAlignment \in Alignments
    BY BindingFacts
  <1>3. PICK request \in JobSize..SizeMax :
          /\ request % binding.requestAlignment = 0
          /\ request + binding.requestSize <= SizeMax
          /\ IsRequestResponse(binding) =>
                \E response \in (request + binding.requestSize)..SizeMax :
                    /\ response % binding.responseAlignment = 0
                    /\ response + binding.responseSize + binding.payloadBytes <= SizeMax
    BY DEF Placeable
  <1>4. CanAlign(JobSize, binding.requestAlignment) /\ RequestOffset(binding) <= request
    BY <1>1, <1>2, <1>3, AlignUpIsLeast DEF RequestOffset
  <1>5. RequestOffset(binding) \in 0..SizeMax
    BY <1>1, <1>2, <1>4, AlignUpIsAligned DEF RequestOffset
  <1>6. CanAdd(RequestOffset(binding), binding.requestSize)
    BY <1>1, <1>2, <1>3, <1>4, <1>5 DEF CanAdd
  <1>7. ASSUME IsRequestResponse(binding)
        PROVE  /\ CanAlign(RequestEnd(binding), binding.responseAlignment)
               /\ CanAdd(ResponseOffset(binding), binding.responseSize)
               /\ CanAdd(EncodedOffset(binding), binding.payloadBytes)
    <2>1. /\ binding.responseSize \in 0..SizeMax
          /\ binding.responseAlignment \in Alignments
          /\ binding.payloadBytes \in 0..SizeMax
      BY <1>7, BindingFacts
    <2>2. PICK response \in (request + binding.requestSize)..SizeMax :
            /\ response % binding.responseAlignment = 0
            /\ response + binding.responseSize + binding.payloadBytes <= SizeMax
      BY <1>3, <1>7
    <2>3. RequestEnd(binding) = RequestOffset(binding) + binding.requestSize
          /\ RequestEnd(binding) \in RequestOffset(binding)..SizeMax
      BY <1>2, <1>5, <1>6, AddSizeIsExact DEF RequestEnd
    <2>4. RequestEnd(binding) \in 0..SizeMax /\ response \in RequestEnd(binding)..SizeMax
      BY <1>1, <1>2, <1>3, <1>4, <1>5, <2>2, <2>3
    <2>5. CanAlign(RequestEnd(binding), binding.responseAlignment)
          /\ AlignUp(RequestEnd(binding), binding.responseAlignment) <= response
      BY <2>1, <2>2, <2>4, AlignUpIsLeast
    <2>6. ResponseOffset(binding) <= response /\ ResponseOffset(binding) \in 0..SizeMax
      BY <1>1, <1>7, <2>1, <2>4, <2>5, AlignUpIsAligned DEF ResponseOffset
    <2>7. CanAdd(ResponseOffset(binding), binding.responseSize)
      BY <1>1, <2>1, <2>2, <2>4, <2>6 DEF CanAdd
    <2>8. EncodedOffset(binding) = ResponseOffset(binding) + binding.responseSize
      BY <1>7, <2>1, <2>6, <2>7, AddSizeIsExact DEF EncodedOffset
    <2>9. CanAdd(EncodedOffset(binding), binding.payloadBytes)
      BY <1>1, <2>1, <2>2, <2>4, <2>6, <2>8 DEF CanAdd
    <2> QED
      BY <2>5, <2>7, <2>9
  <1> QED
    BY <1>4, <1>6, <1>7 DEF Fits
-----------------------------------------------------------------------------
\* Whatever the sizes a binding declares, TryBuildServiceJobLayout either refuses
\* it, and then nothing could have held the job, or lays the objects out aligned,
\* apart and inside the allocation.
THEOREM LayoutSound == JobLayoutSpec => []LayoutIsSound
  <1> DEFINE Sound == ValidBinding /\ LayoutIsSound
  <1>1. JobLayoutInit => Sound
    BY DEF JobLayoutInit, ValidBinding, LayoutIsSound
  <1>2. Sound /\ [TryBuildServiceJobLayout]_jobLayoutVars => Sound'
    <2> SUFFICES ASSUME Sound, [TryBuildServiceJobLayout]_jobLayoutVars PROVE Sound'
      OBVIOUS
    <2>1. CASE TryBuildServiceJobLayout
      <3>1. binding' = binding /\ ValidBinding'
        BY <2>1 DEF TryBuildServiceJobLayout, ValidBinding, OneWayBinding,
                    RequestResponseBinding, IsValidStorageLayout
      <3>2. CASE ~Fits(binding)
        <4>1. ~Placeable(binding)
          BY <3>2, PlaceableFits
        <4> QED
          BY <2>1, <3>1, <3>2, <4>1 DEF TryBuildServiceJobLayout, LayoutIsSound
      <3>3. CASE Fits(binding)
        <4>1. layout' = Layout(binding)
          BY <2>1, <3>3 DEF TryBuildServiceJobLayout
        <4>2. /\ layout'.allocationAlignment = AllocationAlignment(binding)
              /\ layout'.requestOffset = RequestOffset(binding)
              /\ layout'.responseOffset = ResponseOffset(binding)
              /\ layout'.encodedResponseOffset = EncodedOffset(binding)
              /\ layout'.allocationSize = AllocationSize(binding)
          BY <4>1 DEF Layout
        <4>0. result' = "built"
          BY <2>1, <3>3 DEF TryBuildServiceJobLayout
        <4>3. SizeMax \in Nat /\ JobSize \in Nat
          BY JobLayoutAssumption
        <4>4. CASE IsRequestResponse(binding)
          BY <3>1, <4>0, <3>3, <4>2, <4>3, <4>4, BindingFacts, RequestIsPlaced,
             ResponseIsPlaced, AllocationIsAligned
             DEF LayoutIsSound, IsRequestResponse
        <4>5. CASE ~IsRequestResponse(binding)
          <5>1. ResponseOffset(binding) = RequestEnd(binding)
                /\ AllocationSize(binding) = RequestEnd(binding)
            BY <4>5 DEF ResponseOffset, AllocationSize
          <5> QED
            BY <3>1, <4>0, <3>3, <4>2, <4>3, <4>5, <5>1, BindingFacts, RequestIsPlaced,
               AllocationIsAligned
               DEF LayoutIsSound, IsRequestResponse
        <4> QED
          BY <4>4, <4>5
      <3> QED
        BY <3>1, <3>2, <3>3
    <2>2. CASE UNCHANGED jobLayoutVars
      BY <2>2 DEF jobLayoutVars, ValidBinding, LayoutIsSound, IsRequestResponse,
                  OneWayBinding, RequestResponseBinding, IsValidStorageLayout
    <2> QED
      BY <2>1, <2>2
  <1> QED
    BY <1>1, <1>2, PTL DEF JobLayoutSpec
=============================================================================
