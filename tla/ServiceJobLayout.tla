-------------------------- MODULE ServiceJobLayout --------------------------
(***************************************************************************)
(* TryBuildServiceJobLayout: where a job, its request, its response and    *)
(* the encoded response lie in one allocation.  The sizes come from the    *)
(* application, so every addition may pass the end of std::size_t: each is *)
(* checked before it is made, and it is made modulo 2^width.               *)
(*                                                                         *)
(* An operator commented "variant" is a wrong form of the definition after *)
(* it, kept to see that a property notices it.                             *)
(***************************************************************************)
EXTENDS Integers

CONSTANTS SizeMax,              \* numeric_limits<size_t>::max()
          JobSize, JobAlignment,    \* sizeof and alignof of TkServiceJob
          Alignments            \* the powers of two that fit

ASSUME JobLayoutAssumption ==
    /\ SizeMax \in Nat
    /\ Alignments \subseteq Nat \ {0}
    /\ JobAlignment \in Alignments
    /\ JobSize \in 1..SizeMax
    \* powers of two: of any two, one divides the other; they divide 2^width
    /\ \A a, b \in Alignments : a <= b => b % a = 0
    /\ \A a \in Alignments : (SizeMax + 1) % a = 0 /\ a <= SizeMax

VARIABLES
    binding,    \* the binding a packet was found for
    layout,     \* *outLayout, written on success only
    result      \* "none" before the call, then "built" or "refused"

jobLayoutVars == <<binding, layout, result>>

\* IsValidStorageLayout and the positive sizes ValidateBinding asks for.
IsValidStorageLayout(size, alignment) == size >= 1 /\ size <= SizeMax - (alignment - 1)

OneWayBinding ==
    {b \in [type : {"OneWay"}, requestSize : 1..SizeMax, requestAlignment : Alignments] :
        IsValidStorageLayout(b.requestSize, b.requestAlignment)}

RequestResponseBinding ==
    {b \in [type : {"RequestResponse"},
            requestSize : 1..SizeMax, requestAlignment : Alignments,
            responseSize : 1..SizeMax, responseAlignment : Alignments,
            payloadBytes : 1..SizeMax] :
        /\ IsValidStorageLayout(b.requestSize, b.requestAlignment)
        /\ IsValidStorageLayout(b.responseSize, b.responseAlignment)}
-----------------------------------------------------------------------------
Wrapped(n) == n % (SizeMax + 1)

CanAlign(value, alignment) == value <= SizeMax - (alignment - 1)

\* (value + mask) & ~mask, for an alignment that is a power of two.
AlignUp(value, alignment) ==
    LET sum == Wrapped(value + (alignment - 1))
    IN  sum - (sum % alignment)

CanAddOneMore(left, right) == left <= SizeMax - right + 1   \* variant: off by one

CanAdd(left, right) == left <= SizeMax - right

AddSize(left, right) == Wrapped(left + right)

Largest(a, b) == IF a >= b THEN a ELSE b

IsRequestResponse(b) == b.type = "RequestResponse"

RequestOffset(b) == AlignUp(JobSize, b.requestAlignment)
RequestEnd(b)    == AddSize(RequestOffset(b), b.requestSize)
ResponseOffset(b) ==
    IF IsRequestResponse(b) THEN AlignUp(RequestEnd(b), b.responseAlignment)
                            ELSE RequestEnd(b)
EncodedOffset(b) ==
    IF IsRequestResponse(b) THEN AddSize(ResponseOffset(b), b.responseSize)
                            ELSE RequestEnd(b)
AllocationSize(b) ==
    IF IsRequestResponse(b) THEN AddSize(EncodedOffset(b), b.payloadBytes)
                            ELSE RequestEnd(b)
AllocationAlignment(b) ==
    Largest(JobAlignment, Largest(b.requestAlignment,
                                  IF IsRequestResponse(b) THEN b.responseAlignment ELSE 1))

\* Every check on the way succeeds.
Fits(b) ==
    /\ CanAlign(JobSize, b.requestAlignment)
    /\ CanAdd(RequestOffset(b), b.requestSize)
    /\ IsRequestResponse(b) =>
          /\ CanAlign(RequestEnd(b), b.responseAlignment)
          /\ CanAdd(ResponseOffset(b), b.responseSize)
          /\ CanAdd(EncodedOffset(b), b.payloadBytes)

Layout(b) == [allocationAlignment |-> AllocationAlignment(b),
              requestOffset |-> RequestOffset(b),
              responseOffset |-> ResponseOffset(b),
              encodedResponseOffset |-> EncodedOffset(b),
              allocationSize |-> AllocationSize(b)]

JobLayoutInit ==
    /\ binding \in OneWayBinding \union RequestResponseBinding
    /\ layout = [allocationAlignment |-> 0, requestOffset |-> 0, responseOffset |-> 0,
                 encodedResponseOffset |-> 0, allocationSize |-> 0]
    /\ result = "none"

TryBuildServiceJobLayout ==
    /\ result = "none"
    /\ layout' = IF Fits(binding) THEN Layout(binding) ELSE layout
    /\ result' = IF Fits(binding) THEN "built" ELSE "refused"
    /\ UNCHANGED binding

JobLayoutSpec == JobLayoutInit /\ [][TryBuildServiceJobLayout]_jobLayoutVars
-----------------------------------------------------------------------------
\* Some placement of the objects of a job fits std::size_t.
Placeable(b) ==
    \E request \in JobSize..SizeMax :
        /\ request % b.requestAlignment = 0
        /\ request + b.requestSize <= SizeMax
        /\ IsRequestResponse(b) =>
              \E response \in (request + b.requestSize)..SizeMax :
                  /\ response % b.responseAlignment = 0
                  /\ response + b.responseSize + b.payloadBytes <= SizeMax

\* Each object of a job lies at an address its type allows, after the one before
\* it, and the last one ends with the allocation: no two overlap and none wraps.
\* A job is refused only when no placement of its objects fits.
LayoutIsSound ==
    /\ result = "refused" => ~Placeable(binding)
    /\ result = "built" =>
        /\ layout.allocationAlignment % JobAlignment = 0
        /\ layout.allocationAlignment % binding.requestAlignment = 0
        /\ layout.requestOffset % binding.requestAlignment = 0
        /\ JobSize <= layout.requestOffset
        /\ layout.requestOffset + binding.requestSize <= layout.responseOffset
        /\ layout.allocationSize <= SizeMax
        /\ IsRequestResponse(binding) =>
              /\ layout.allocationAlignment % binding.responseAlignment = 0
              /\ layout.responseOffset % binding.responseAlignment = 0
              /\ layout.responseOffset + binding.responseSize
                     = layout.encodedResponseOffset
              /\ layout.encodedResponseOffset + binding.payloadBytes
                     = layout.allocationSize
        /\ ~IsRequestResponse(binding) => layout.responseOffset = layout.allocationSize
=============================================================================
