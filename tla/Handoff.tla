------------------------------- MODULE Handoff -------------------------------
(***************************************************************************)
(* A single-item queue between one writer and one reader: the writer        *)
(* prepares an item in the back, declares it ready, and the exchange of     *)
(* front and back is a single step, after which the reader sees the new     *)
(* item whole and the writer prepares the next one in the old front.        *)
(*                                                                          *)
(* DoubleBuffer.tla is shown to implement this specification.               *)
(***************************************************************************)
CONSTANTS Items, Torn

VARIABLES
  front,      (* the item the reader sees                                   *)
  back,       (* the item the writer prepares, Torn while it is half done   *)
  ready,      (* the writer waits for the exchange                          *)
  got         (* what the reader last read                                  *)

vars == <<front, back, ready, got>>

Init ==
  /\ front \in Items
  /\ back \in Items
  /\ ready = FALSE
  /\ got \in Items

Prepare ==
  /\ ~ready
  /\ back' \in Items \cup {Torn}
  /\ UNCHANGED <<front, ready, got>>

Ready ==
  /\ ~ready
  /\ back # Torn
  /\ ready' = TRUE
  /\ UNCHANGED <<front, back, got>>

Exchange ==
  /\ ready
  /\ front' = back
  /\ back' = front
  /\ ready' = FALSE
  /\ UNCHANGED got

Read ==
  /\ got' = front
  /\ UNCHANGED <<front, back, ready>>

Next == Prepare \/ Ready \/ Exchange \/ Read

Spec == Init /\ [][Next]_vars
=============================================================================
