---------------------------- MODULE ClientStream ----------------------------
(***************************************************************************)
(* What the bridge promises a streaming client, whatever happens inside:   *)
(* the frames it receives always extend to a well-formed reply of the      *)
(* client's own protocol.  A strict decoder that has read any prefix finds *)
(* the next frame in Acceptable of its state; it never has to guess which  *)
(* block a delta belongs to, never sees an index skipped or reused, never  *)
(* sees a second outcome, and a stop reason always agrees with the calls   *)
(* it was given.                                                           *)
(***************************************************************************)
EXTENDS Wire

VARIABLES protocol, view

vars == <<protocol, view>>

Init == protocol \in Protocols /\ view = BlankView

Next == /\ \E f \in Acceptable(protocol, view) : view' = Decode(view, f)
        /\ UNCHANGED protocol

Spec == Init /\ [][Next]_vars
=============================================================================
