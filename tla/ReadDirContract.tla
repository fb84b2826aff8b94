--------------------------- MODULE ReadDirContract ---------------------------
(***************************************************************************)
(* What a directory enumeration promises the kernel (spec section 4.6),    *)
(* with no cursor, buffer or reply size: between an opendir and the empty  *)
(* reply that ends it, each reply hands over names present in the          *)
(* directory that no earlier reply of the enumeration handed over, and the *)
(* enumeration ends only once every name present all along was handed      *)
(* over.  Other handlers insert and erase names at any time; a name        *)
(* inserted or erased during the enumeration may or may not be sent.       *)
(***************************************************************************)
CONSTANTS
    Names,       \* the names the directory may hold
    FixedNames   \* "." and "..": never erased

VARIABLES
    entries,  \* the names present
    sent,     \* per name, whether the enumeration has handed it over (0 or 1)
    state,    \* "idle", "reading", or "done"
    stable    \* the names present ever since the enumeration began

cvars == <<entries, sent, state, stable>>

Init ==
    /\ entries \in {FixedNames \cup S : S \in SUBSET (Names \ FixedNames)}
    /\ sent = [n \in Names |-> 0]
    /\ state = "idle"
    /\ stable = {}

Begin ==
    /\ state # "reading"
    /\ state' = "reading"
    /\ sent' = [n \in Names |-> 0]
    /\ stable' = entries
    /\ UNCHANGED entries

\* A reply: names present now and not yet handed over in this enumeration.
Deliver(batch) ==
    /\ state = "reading"
    /\ batch \subseteq entries
    /\ \A n \in batch : sent[n] = 0
    /\ sent' = [n \in Names |-> IF n \in batch THEN 1 ELSE sent[n]]
    /\ UNCHANGED <<entries, state, stable>>

\* The empty reply, once every name present all along has been handed over.
Finish ==
    /\ state = "reading"
    /\ \A n \in stable : sent[n] = 1
    /\ state' = "done"
    /\ UNCHANGED <<entries, sent, stable>>

\* The reader stops before the end (releasedir).
Abandon ==
    /\ state = "reading"
    /\ state' = "idle"
    /\ UNCHANGED <<entries, sent, stable>>

Insert(n) ==
    /\ n \notin entries
    /\ entries' = entries \cup {n}
    /\ UNCHANGED <<sent, state, stable>>

Erase(n) ==
    /\ n \in entries \ FixedNames
    /\ entries' = entries \ {n}
    /\ stable' = stable \ {n}
    /\ UNCHANGED <<sent, state>>

Next ==
    \/ Begin \/ Finish \/ Abandon
    \/ \E batch \in SUBSET Names : Deliver(batch)
    \/ \E n \in Names \ FixedNames : Insert(n) \/ Erase(n)

Spec == Init /\ [][Next]_cvars
=============================================================================
