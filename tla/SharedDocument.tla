--------------------------- MODULE SharedDocument ---------------------------
(***************************************************************************)
(* What a shared JSON file promises: updates happen one at a time, each    *)
(* applied to the document as it stands, and none is lost.  The document   *)
(* is the set of updates applied to it.                                    *)
(***************************************************************************)
CONSTANT Updates

VARIABLE document

Init == document = {}

Apply(u) == u \notin document /\ document' = document \cup {u}

Next == \E u \in Updates : Apply(u)

Spec == Init /\ [][Next]_document
=============================================================================
