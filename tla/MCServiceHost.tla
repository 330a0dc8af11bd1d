--------------------------- MODULE MCServiceHost ---------------------------
(***************************************************************************)
(* Instances of ServiceHost for TLC: registrations that collide with each  *)
(* other, in themselves, or are refused half way, and packets that are     *)
(* unknown or of the wrong size.                                           *)
(***************************************************************************)
EXTENDS ServiceHost, TLC

OneWay(id)   == [packetId |-> id, type |-> "OneWay", payloadBytes |-> 1, valid |-> TRUE]
Respond(id)  == [packetId |-> id, type |-> "RequestResponse", payloadBytes |-> 2,
                 valid |-> TRUE]
Invalid(id)  == [OneWay(id) EXCEPT !.valid = FALSE]

Service(bindings, middlewares) == [bindings |-> bindings, middlewareCount |-> middlewares]

\* Identifiers arrive in descending order, so the lookup has to be sorted; some
\* registrations are to be refused: taken, doubled, invalid, empty.
Services ==
    {Service(<<OneWay(3), Respond(1)>>, 1), Service(<<Respond(2)>>, 2),
     Service(<<OneWay(4), OneWay(3)>>, 0), Service(<<OneWay(5), OneWay(5)>>, 0),
     Service(<<OneWay(6), Invalid(7)>>, 0), Service(<< >>, 0)}

\* Of the right size and of a wrong one, and never registered.
Packets == {[id |-> 1, size |-> 2], [id |-> 3, size |-> 1], [id |-> 2, size |-> 2],
            [id |-> 3, size |-> 2], [id |-> 6, size |-> 1]}

Symmetry == Permutations(Ingress) \union Permutations(World) \union Permutations(Job)
=============================================================================
