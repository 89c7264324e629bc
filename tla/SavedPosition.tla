--------------------------- MODULE SavedPosition ---------------------------
(***************************************************************************)
(* What the reader is promised of the memory card: it holds the place that *)
(* was read when it was last saved, or nothing.  Saving may set the old    *)
(* place aside before the new one is there, and may then put it back or    *)
(* not; nothing else ever appears in its stead.                            *)
(***************************************************************************)
CONSTANTS
  Places,  \* the places of all books
  Nowhere  \* no place

VARIABLES
  place, \* where the reader is
  saved, \* the place the card gives back
  aside  \* the place a save in progress may still put back

Init == place = Nowhere /\ saved = Nowhere /\ aside = Nowhere

Move == place' \in Places /\ UNCHANGED <<saved, aside>>

Save == place # Nowhere /\ saved' = place /\ aside' = Nowhere /\ UNCHANGED place

SetAside == saved # Nowhere /\ saved' = Nowhere /\ aside' = saved /\ UNCHANGED place

PutBack == aside # Nowhere /\ saved' = aside /\ aside' = Nowhere /\ UNCHANGED place

Abandon == aside' = Nowhere /\ UNCHANGED <<place, saved>>

(* The book starts again. *)
Forget == saved' = Nowhere /\ aside' = Nowhere /\ place' \in Places

Next == Move \/ Save \/ SetAside \/ PutBack \/ Abandon \/ Forget

Spec == Init /\ [][Next]_<<place, saved, aside>>
=============================================================================
