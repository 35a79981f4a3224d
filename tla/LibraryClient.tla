--------------------------- MODULE LibraryClient ---------------------------
(***************************************************************************)
(* What libmodel.so may ask of a program that opens it for itself: a       *)
(* session is created and destroyed while the library is open, there is    *)
(* one at a time, each is destroyed once, and none is left when the        *)
(* library, which holds the code of its destructor, is closed.             *)
(***************************************************************************)
EXTENDS Naturals

VARIABLES
  library,    \* "null", "open" or "closed"
  made,       \* how many sessions model_create has made
  destroyed   \* how many calls there were of model_destroy

vars == <<library, made, destroyed>>

Init == library = "null" /\ made = 0 /\ destroyed = 0

Open ==
  /\ library = "null" /\ library' = "open"
  /\ UNCHANGED <<made, destroyed>>

Create ==
  /\ library = "open" /\ made = destroyed
  /\ made' = made + 1
  /\ UNCHANGED <<library, destroyed>>

Destroy ==
  /\ library = "open" /\ destroyed < made
  /\ destroyed' = destroyed + 1
  /\ UNCHANGED <<library, made>>

Close ==
  /\ library = "open" /\ made = destroyed
  /\ library' = "closed"
  /\ UNCHANGED <<made, destroyed>>

Next == Open \/ Create \/ Destroy \/ Close

Spec == Init /\ [][Next]_vars

=============================================================================
