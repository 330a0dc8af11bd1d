---------------------------- MODULE ComputeInputs ----------------------------
(***************************************************************************)
(* Inputs of ComputeSample for TLC: one part of a computer varied at a     *)
(* time, and jobs with no workgroup, part of one, several, and too many.   *)
(***************************************************************************)
EXTENDS Integers, Sequences

LOCAL Family(n, c) == [queueCount |-> n, compute |-> c]
LOCAL Shared == {"visible", "coherent"}
AnyComputer ==
    [devices |-> <<"MoltenVK">>, otherDevices |-> <<"MoltenVK">>, families |-> <<Family(1, TRUE)>>,
     types |-> <<{"local"}, Shared>>, allowed |-> {1, 2}]
LOCAL Lists == {<<>>, <<"MoltenVK">>, <<"other">>, <<"other", "MoltenVK">>}

SomeComputers ==
    {[AnyComputer EXCEPT !.devices = d, !.otherDevices = e] : d, e \in Lists}
    \union {[AnyComputer EXCEPT !.families = <<f, g>>] : f, g \in {Family(n, c) : n \in 0..1, c \in BOOLEAN}}
    \union {[AnyComputer EXCEPT !.types = <<f, g>>, !.allowed = a] :
                f, g \in {{"local"}, {"visible"}, Shared}, a \in {{2}, {1, 2}}}

LOCAL Job(n, m) == [elements |-> n, multiplier |-> m]
AnyJobs  == <<Job(3, 3), Job(1, 0), Job(4, 1)>>
SomeJobs == {AnyJobs, <<Job(0, 2), Job(5, 2)>>, <<Job(4, 2), Job(2, 5)>>}
=============================================================================
