---------------------------- MODULE ServiceHost ----------------------------
(***************************************************************************)
(* TkServiceHost: services are registered and then looked up by packet     *)
(* identifier; a packet becomes a job (one allocation with the decoded     *)
(* request in it) that passes the service's middlewares and is offered to  *)
(* its executor; the executor's side executes and destroys the job, also   *)
(* before the call that offered it has returned, and also after the host   *)
(* is gone.  The bindings are those of TkServiceBinding.hpp, which         *)
(* constructs the objects the host only has memory for.                    *)
(*                                                                         *)
(* The application's callbacks (decode, middleware, executor, handler,     *)
(* encode, output) are where threads interleave: a call of one is a step,  *)
(* and it may fail.  Ingress threads call ProcessPacket, world threads own *)
(* what the executor has admitted.  Registration is done by one thread     *)
(* before any packet.                                                      *)
(*                                                                         *)
(* An operator commented "variant" is a wrong form of the definition after *)
(* it, kept to see that a property notices it.                             *)
(***************************************************************************)
EXTENDS Integers, Sequences, FiniteSets, SequencesExt

CONSTANTS Ingress, World,   \* threads
          Job, NoJob,       \* places a job can be allocated at
          Registration,     \* what the application may try to register:
                            \* [bindings, middlewareCount]
          Packet, NoPacket, \* [id, size]
          MaxServices       \* bound on successful registrations

Binding == [packetId : Nat, type : {"OneWay", "RequestResponse"}, payloadBytes : Nat,
            valid : BOOLEAN]        \* valid: what ValidateBinding says of it

ASSUME HostAssumption ==
    /\ NoJob \notin Job
    /\ NoPacket \notin Packet
    /\ \A p \in Packet : p.id \in Nat
    /\ Registration \subseteq [bindings : Seq(Binding), middlewareCount : Nat]
    /\ MaxServices \in Nat
    /\ Ingress \cap World = {}
    /\ "executor" \notin Ingress \union World

VARIABLES
    state,          \* "Configuring", "Ready" or "Destroyed"
    services, lookup,
    staging,        \* registrations under way (at most one): what is staged
    pc, job,        \* ingress thread -> where it is in ProcessPacket, and its job
    allocated,      \* the places where a job is
    info,           \* job -> its packet, and the binding and the service found
    passed,         \* job -> how many middlewares have let it through
    requests,       \* job -> request objects constructed minus destroyed
    responses,      \* job -> response objects constructed minus destroyed
    jobState,       \* job -> "Ready" or "Executed"
    inbox,          \* jobs the executor has admitted and no world thread has taken
    worldPc, worldJob,
    handled,        \* history: job -> calls of its handler
    registered      \* history: bindings ever registered

hostVars  == <<state, services, lookup, staging, registered>>
callVars  == <<pc, job>>
jobVars   == <<allocated, info, passed, requests, responses, jobState, handled>>
worldVars == <<inbox, worldPc, worldJob>>
vars == <<hostVars, callVars, jobVars, worldVars>>
-----------------------------------------------------------------------------
Init ==
    /\ state = "Configuring"
    /\ services = << >> /\ lookup = << >>
    /\ staging = {}
    /\ pc = [t \in Ingress |-> "idle"]
    /\ job = [t \in Ingress |-> NoJob]
    /\ allocated = {}
    /\ info = [j \in Job |-> NoPacket]
    /\ passed = [j \in Job |-> 0]
    /\ requests = [j \in Job |-> 0]
    /\ responses = [j \in Job |-> 0]
    /\ jobState = [j \in Job |-> "Ready"]
    /\ inbox = {}
    /\ worldPc = [w \in World |-> "idle"]
    /\ worldJob = [w \in World |-> NoJob]
    /\ handled = [j \in Job |-> 0]
    /\ registered = {}
-----------------------------------------------------------------------------
(***************************************************************************)
(* Registration                                                            *)
(***************************************************************************)
HasPacketId(bindings, id) == \E n \in DOMAIN bindings : bindings[n].packetId = id

TakenInService(staged, id) == HasPacketId(staged, id)      \* variant: host not asked

\* The identifier is taken, in this registration or in an earlier one.
Taken(staged, id) ==
    \/ HasPacketId(staged, id)
    \/ \E n \in DOMAIN services : HasPacketId(services[n].bindings, id)

RegisterService(r) ==
    /\ state = "Configuring" /\ staging = {}
    /\ Len(services) < MaxServices
    /\ r.bindings # << >>
    /\ staging' = {[wanted |-> r, staged |-> << >>]}
    /\ UNCHANGED <<state, services, lookup, registered, callVars, jobVars, worldVars>>

\* The binding after those already staged.
NextBinding(s) == s.wanted.bindings[Len(s.staged) + 1]

StageBinding(s) ==
    /\ Len(s.staged) < Len(s.wanted.bindings)
    /\ NextBinding(s).valid
    /\ ~Taken(s.staged, NextBinding(s).packetId)
    /\ staging' = {[s EXCEPT !.staged = Append(@, NextBinding(s))]}
    /\ UNCHANGED <<state, services, lookup, registered, callVars, jobVars, worldVars>>

StoreService(s) ==
    /\ services' = Append(services, [bindings |-> s.staged,
                                     middlewareCount |-> s.wanted.middlewareCount])
    /\ registered' = registered \union {s.staged[n] : n \in DOMAIN s.staged}
    /\ staging' = {}
    /\ UNCHANGED <<state, lookup, callVars, jobVars, worldVars>>

\* A binding is refused or memory runs out: the host is as it was.
StageFails(s) ==
    /\ staging' = {}
    /\ UNCHANGED <<state, services, lookup, registered, callVars, jobVars, worldVars>>

StageCommit(s) ==
    /\ Len(s.staged) = Len(s.wanted.bindings)
    /\ StoreService(s)

LookupEntries == UNION {{[packetId |-> services[n].bindings[k].packetId,
                          serviceIndex |-> n, bindingIndex |-> k]
                             : k \in DOMAIN services[n].bindings}
                        : n \in DOMAIN services}

SortedDown(entries) ==                      \* variant: the wrong way round
    CHOOSE s \in SetToSeqs(entries) :
        \A m, n \in DOMAIN s : m < n => s[m].packetId >= s[n].packetId

\* std::sort: the entries, none before one that is less.
Sorted(entries) ==
    CHOOSE s \in SetToSeqs(entries) :
        \A m, n \in DOMAIN s : m < n => s[m].packetId <= s[n].packetId

FinalizeRegistration ==
    /\ state = "Configuring" /\ staging = {}
    /\ lookup' = Sorted(LookupEntries)
    /\ state' = "Ready"
    /\ UNCHANGED <<services, staging, registered, callVars, jobVars, worldVars>>

\* std::lower_bound: the first entry not below the identifier, searched for among
\* count entries from first on.
LowerBound(id) ==
    LET search[count \in 0..Len(lookup)] ==
            [first \in 1..(Len(lookup) + 1 - count) |->
                LET half == count \div 2
                    middle == first + half
                IN  IF count = 0 THEN first
                    ELSE IF lookup[middle].packetId < id
                    THEN search[count - half - 1][middle + 1]
                    ELSE search[half][first]]
    IN  search[Len(lookup)][1]

IsFound(id) == LowerBound(id) <= Len(lookup) /\ lookup[LowerBound(id)].packetId = id

FindService(id) == services[lookup[LowerBound(id)].serviceIndex]
FindBinding(id) == FindService(id).bindings[lookup[LowerBound(id)].bindingIndex]
-----------------------------------------------------------------------------
(***************************************************************************)
(* ProcessPacket.  An unknown identifier, a wrong size, a host that is not *)
(* Ready or an allocation that fails: an error, and nothing has changed.   *)
(***************************************************************************)
FreeJobAllocation(j) == allocated' = allocated \ {j} /\ UNCHANGED requests

DestroyJob(j) ==
    /\ requests' = [requests EXCEPT ![j] = @ - 1]
    /\ allocated' = allocated \ {j}

Return(t) ==
    /\ pc' = [pc EXCEPT ![t] = "idle"]
    /\ job' = [job EXCEPT ![t] = NoJob]

AllocateServiceJob(t, p, j) ==
    /\ state = "Ready"
    /\ pc[t] = "idle"
    /\ IsFound(p.id)
    /\ p.size = FindBinding(p.id).payloadBytes
    /\ j \notin allocated
    /\ allocated' = allocated \union {j}
    /\ info' = [info EXCEPT ![j] = [packet |-> p, binding |-> FindBinding(p.id),
                                    service |-> FindService(p.id)]]
    /\ passed' = [passed EXCEPT ![j] = 0]
    /\ jobState' = [jobState EXCEPT ![j] = "Ready"]
    /\ requests' = [requests EXCEPT ![j] = 0]
    /\ responses' = [responses EXCEPT ![j] = 0]
    /\ handled' = [handled EXCEPT ![j] = 0]
    /\ job' = [job EXCEPT ![t] = j]
    /\ pc' = [pc EXCEPT ![t] = "decode"]
    /\ UNCHANGED <<hostVars, worldVars>>

\* The binding constructs the request in the job, and calls its Decode.
DecodeRequest(t) ==
    /\ pc[t] = "decode"
    /\ requests' = [requests EXCEPT ![job[t]] = @ + 1]
    /\ pc' = [pc EXCEPT ![t] = "decoding"]
    /\ UNCHANGED <<hostVars, job, allocated, info, passed, responses, jobState,
                   handled, worldVars>>

RequestDecoded(t) ==
    /\ pc[t] = "decoding"
    /\ pc' = [pc EXCEPT ![t] = "middleware"]
    /\ UNCHANGED <<hostVars, job, jobVars, worldVars>>

DecodeFailsKeeping(t) ==                    \* variant: the binding leaves the request
    /\ pc[t] = "decoding"
    /\ FreeJobAllocation(job[t])
    /\ Return(t)
    /\ UNCHANGED <<hostVars, info, passed, responses, jobState, handled, worldVars>>

\* The binding destroys the request, and the host frees a job without one.
DecodeFails(t) ==
    /\ pc[t] = "decoding"
    /\ allocated' = allocated \ {job[t]}
    /\ requests' = [requests EXCEPT ![job[t]] = @ - 1]
    /\ Return(t)
    /\ UNCHANGED <<hostVars, info, passed, responses, jobState, handled, worldVars>>

MoreMiddlewareShort(t) == passed[job[t]] + 1 < info[job[t]].service.middlewareCount \* variant

MoreMiddleware(t) == passed[job[t]] < info[job[t]].service.middlewareCount

Middleware(t) ==
    /\ pc[t] = "middleware"
    /\ MoreMiddleware(t)
    /\ passed' = [passed EXCEPT ![job[t]] = @ + 1]
    /\ UNCHANGED <<hostVars, callVars, allocated, info, requests, responses,
                   jobState, handled, worldVars>>

MiddlewareRejects(t) ==
    /\ pc[t] = "middleware"
    /\ MoreMiddleware(t)
    /\ DestroyJob(job[t])
    /\ Return(t)
    /\ UNCHANGED <<hostVars, info, passed, responses, jobState, handled, worldVars>>

\* Inside the executor's callback: the job is admitted, and may be taken by a
\* world thread at once, while the callback has still to return.
ExecutorAdmits(t) ==
    /\ pc[t] = "middleware"
    /\ ~MoreMiddleware(t)
    /\ inbox' = inbox \union {job[t]}
    /\ pc' = [pc EXCEPT ![t] = "admitted"]
    /\ UNCHANGED <<hostVars, job, jobVars, worldPc, worldJob>>

SubmitSucceedsDestroy(t) ==                 \* variant: the host destroys it too
    /\ pc[t] = "admitted"
    /\ DestroyJob(job[t])
    /\ Return(t)
    /\ UNCHANGED <<hostVars, info, passed, responses, jobState, handled, worldVars>>

\* The callback returns TK_SUCCESS: the host forgets the job.
SubmitSucceeds(t) ==
    /\ pc[t] = "admitted"
    /\ Return(t)
    /\ UNCHANGED <<hostVars, jobVars, worldVars>>

\* The callback refuses: the job is still the host's.
SubmitFails(t) ==
    /\ pc[t] = "middleware"
    /\ ~MoreMiddleware(t)
    /\ DestroyJob(job[t])
    /\ Return(t)
    /\ UNCHANGED <<hostVars, info, passed, responses, jobState, handled, worldVars>>
-----------------------------------------------------------------------------
(***************************************************************************)
(* TkServiceJobExecute and TkServiceJobDestroy, called by the thread that  *)
(* has taken the job; it may execute it or not, and may try twice.         *)
(***************************************************************************)
WorldTake(w, j) ==
    /\ worldPc[w] = "idle"
    /\ j \in inbox
    /\ inbox' = inbox \ {j}
    /\ worldPc' = [worldPc EXCEPT ![w] = "holding"]
    /\ worldJob' = [worldJob EXCEPT ![w] = j]
    /\ UNCHANGED <<hostVars, callVars, jobVars>>

MayExecuteAgain(j) == TRUE                  \* variant: state not looked at

\* Otherwise TK_ERROR_INVALID_STATE.
MayExecute(j) == jobState[j] = "Ready"

Responds(j) == info[j].binding.type = "RequestResponse"

\* The binding constructs the response, if it has one, and calls the handler.
ExecuteBegin(w) ==
    /\ worldPc[w] = "holding"
    /\ MayExecute(worldJob[w])
    /\ jobState' = [jobState EXCEPT ![worldJob[w]] = "Executed"]
    /\ handled' = [handled EXCEPT ![worldJob[w]] = @ + 1]
    /\ responses' = [responses EXCEPT ![worldJob[w]] = IF Responds(worldJob[w]) THEN @ + 1 ELSE @]
    /\ worldPc' = [worldPc EXCEPT ![w] = "handler"]
    /\ UNCHANGED <<hostVars, callVars, allocated, info, passed, requests, inbox, worldJob>>

\* The handler of a one-way binding returns, whatever it answers.
OneWayReturns(w) ==
    /\ worldPc[w] = "handler" /\ ~Responds(worldJob[w])
    /\ worldPc' = [worldPc EXCEPT ![w] = "holding"]
    /\ UNCHANGED <<hostVars, callVars, jobVars, inbox, worldJob>>

\* The handler of a request/response binding fails: the binding destroys the response.
HandlerFails(w) ==
    /\ worldPc[w] = "handler" /\ Responds(worldJob[w])
    /\ responses' = [responses EXCEPT ![worldJob[w]] = @ - 1]
    /\ worldPc' = [worldPc EXCEPT ![w] = "holding"]
    /\ UNCHANGED <<hostVars, callVars, allocated, info, passed, requests, jobState,
                   handled, inbox, worldJob>>

\* It succeeds: the response is the host's now.
HandlerResponds(w) ==
    /\ worldPc[w] = "handler" /\ Responds(worldJob[w])
    /\ worldPc' = [worldPc EXCEPT ![w] = "encode"]
    /\ UNCHANGED <<hostVars, callVars, jobVars, inbox, worldJob>>

\* encodeResponse, then destroyResponse whatever it answered.
EncodeResponse(w) ==
    /\ worldPc[w] = "encode"
    /\ responses' = [responses EXCEPT ![worldJob[w]] = @ - 1]
    /\ worldPc' = [worldPc EXCEPT ![w] = "output"]
    /\ UNCHANGED <<hostVars, callVars, allocated, info, passed, requests, jobState,
                   handled, inbox, worldJob>>

EncodeFailsKeeping(w) ==                    \* variant: response not destroyed
    /\ worldPc[w] = "encode"
    /\ worldPc' = [worldPc EXCEPT ![w] = "holding"]
    /\ UNCHANGED <<hostVars, callVars, jobVars, inbox, worldJob>>

EncodeFails(w) ==
    /\ worldPc[w] = "encode"
    /\ responses' = [responses EXCEPT ![worldJob[w]] = @ - 1]
    /\ worldPc' = [worldPc EXCEPT ![w] = "holding"]
    /\ UNCHANGED <<hostVars, callVars, allocated, info, passed, requests, jobState,
                   handled, inbox, worldJob>>

\* The output adapter is called; its answer is passed on.
OutputReturns(w) ==
    /\ worldPc[w] = "output"
    /\ worldPc' = [worldPc EXCEPT ![w] = "holding"]
    /\ UNCHANGED <<hostVars, callVars, jobVars, inbox, worldJob>>

WorldDestroy(w) ==
    /\ worldPc[w] = "holding"
    /\ DestroyJob(worldJob[w])
    /\ worldPc' = [worldPc EXCEPT ![w] = "idle"]
    /\ worldJob' = [worldJob EXCEPT ![w] = NoJob]
    /\ UNCHANGED <<hostVars, callVars, info, passed, responses, jobState, handled, inbox>>
-----------------------------------------------------------------------------
\* TkServiceHostDestroy; its caller has ended every other call on the host.
Destroy ==
    /\ state # "Destroyed" /\ staging = {}
    /\ \A t \in Ingress : pc[t] = "idle"
    /\ state' = "Destroyed"
    /\ services' = << >> /\ lookup' = << >>
    /\ UNCHANGED <<staging, registered, callVars, jobVars, worldVars>>

RegistrationStep ==
    \/ \E r \in Registration : RegisterService(r)
    \/ \E s \in staging : StageBinding(s) \/ StageFails(s) \/ StageCommit(s)
    \/ FinalizeRegistration

IngressStep(t) ==
    \/ \E p \in Packet, j \in Job : AllocateServiceJob(t, p, j)
    \/ DecodeRequest(t) \/ RequestDecoded(t) \/ DecodeFails(t)
    \/ Middleware(t) \/ MiddlewareRejects(t)
    \/ ExecutorAdmits(t) \/ SubmitSucceeds(t) \/ SubmitFails(t)

WorldStep(w) ==
    \/ \E j \in Job : WorldTake(w, j)
    \/ ExecuteBegin(w) \/ OneWayReturns(w) \/ HandlerFails(w) \/ HandlerResponds(w)
    \/ EncodeResponse(w) \/ EncodeFails(w) \/ OutputReturns(w)
    \/ WorldDestroy(w)

Next ==
    \/ RegistrationStep \/ Destroy
    \/ \E t \in Ingress : IngressStep(t)
    \/ \E w \in World : WorldStep(w)

Spec == Init /\ [][Next]_vars
-----------------------------------------------------------------------------
Owners(j) ==
    {t \in Ingress : job[t] = j /\ pc[t] \in {"decode", "decoding", "middleware"}}
    \union {w \in World : worldJob[w] = j}
    \union (IF j \in inbox THEN {"executor"} ELSE {})

TypeOK ==
    /\ state \in {"Configuring", "Ready", "Destroyed"}
    /\ Len(services) <= MaxServices
    /\ pc \in [Ingress -> {"idle", "decode", "decoding", "middleware", "admitted"}]
    /\ job \in [Ingress -> Job \union {NoJob}]
    /\ passed \in [Job -> Nat]
    /\ allocated \in SUBSET Job
    /\ requests \in [Job -> {0, 1}]
    /\ responses \in [Job -> {0, 1}]
    /\ jobState \in [Job -> {"Ready", "Executed"}]
    /\ inbox \in SUBSET Job
    /\ worldPc \in [World -> {"idle", "holding", "handler", "encode", "output"}]
    /\ worldJob \in [World -> Job \union {NoJob}]
    /\ handled \in [Job -> Nat]
    /\ Cardinality(staging) <= 1

\* An allocated job has exactly one owner (the ingress thread that made it, the
\* executor, or a world thread) and a freed one has none: nothing leaks, nothing
\* is used after it is freed, whoever is faster when a submit succeeds.
SoleOwner ==
    \A j \in Job : Cardinality(Owners(j)) = (IF j \in allocated THEN 1 ELSE 0)

\* The request is constructed when an owner may read it and destroyed once,
\* before the memory goes; a response lives from before its handler to after its
\* encoding, or to the failure of the handler, and no longer.
ObjectsBalance ==
    \A j \in Job :
        /\ j \notin allocated => requests[j] = 0 /\ responses[j] = 0
        /\ (j \in inbox \/ \E w \in World : worldJob[w] = j) => requests[j] = 1
        /\ responses[j] = 1 <=> \E w \in World :
               worldJob[w] = j /\ (worldPc[w] = "encode" \/ (worldPc[w] = "handler" /\ Responds(j)))

\* What the executor and the world hold went through every middleware of the
\* service, was decoded by the binding of its identifier, and is of its size.
InWorld(j) == j \in inbox \/ \E w \in World : worldJob[w] = j

OnlyCheckedJobs ==
    \A j \in Job : InWorld(j) =>
        /\ passed[j] = info[j].service.middlewareCount
        /\ info[j].binding.packetId = info[j].packet.id
        /\ info[j].binding.payloadBytes = info[j].packet.size
        /\ info[j].binding \in registered

HostConsistent == TypeOK /\ ObjectsBalance

\* One identifier, one handler, over all services of the host; and a service is
\* registered with all its bindings or not at all.
RegistryConsistent ==
    /\ \A n \in DOMAIN services :
          [bindings |-> services[n].bindings,
           middlewareCount |-> services[n].middlewareCount] \in Registration
    /\ \A m, n \in DOMAIN services :
          \A k \in DOMAIN services[m].bindings, l \in DOMAIN services[n].bindings :
              services[m].bindings[k].packetId = services[n].bindings[l].packetId
                  => m = n /\ k = l

\* Once Ready, the search finds exactly the identifiers that were registered, and the
\* binding of each: the two sides of the registration are of one mind.
EveryPacketFound ==
    /\ RegistryConsistent
    /\ state = "Ready" =>
        \A p \in Packet : /\ IsFound(p.id) <=> \E b \in registered : b.packetId = p.id
                          /\ IsFound(p.id) => FindBinding(p.id).packetId = p.id

\* Ownership as the application sees it (JobCustody); a job whose handler has been
\* called twice would be in a place that JobCustody does not know.
Custody == INSTANCE JobCustody WITH
    custody <- [j \in Job |->
        IF j \notin allocated THEN "none"
        ELSE IF \E t \in Ingress : job[t] = j /\ pc[t] \in {"decode", "decoding", "middleware"}
             THEN "host"
        ELSE CASE handled[j] = 0 -> "admitted"
               [] handled[j] = 1 -> "executed"
               [] OTHER -> "executedTwice"]

ImplementsCustody == Custody!Spec
=============================================================================
