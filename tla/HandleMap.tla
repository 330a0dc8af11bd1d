----------------------------- MODULE HandleMap -----------------------------
(***************************************************************************)
(* What a container that issues its own handles promises: a handle is      *)
(* issued once for ever, and finds its value from the moment it is issued  *)
(* until it is removed; a stale handle finds nothing.                      *)
(***************************************************************************)
CONSTANTS Handle, Value

VARIABLES
    contents,   \* handle -> value, for the handles that find something
    issued      \* every handle issued so far

Init == contents = << >> /\ issued = {}

Add(h, v) ==
    /\ h \notin issued
    /\ issued' = issued \union {h}
    /\ contents' = [g \in DOMAIN contents \union {h} |-> IF g = h THEN v ELSE contents[g]]

Keep(handles) ==
    /\ contents' = [h \in handles |-> contents[h]]
    /\ UNCHANGED issued

Remove(h) == Keep(DOMAIN contents \ {h})

Clear == Keep({})

Next ==
    \/ \E h \in Handle, v \in Value : Add(h, v)
    \/ \E h \in DOMAIN contents : Remove(h)
    \/ Clear

Spec == Init /\ [][Next]_<<contents, issued>>
=============================================================================
