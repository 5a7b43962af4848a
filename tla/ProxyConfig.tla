---------------------------- MODULE ProxyConfig ----------------------------
(***************************************************************************)
(* What applying a proxy configuration promises, seen from outside: the    *)
(* installed configuration is replaced as a whole, by a complete rendering *)
(* that has passed the driver's check where it has one, or not at all.     *)
(* Only a process or host that dies in the middle may leave anything else, *)
(* and a later apply that goes through mends that.                         *)
(***************************************************************************)
CONSTANTS Rendered, Checked   \* complete configurations; those the check accepts

VARIABLES installed, torn, checks   \* checks: the driver has a check

Init == torn = FALSE /\ checks \in BOOLEAN

Replace(c) ==
  /\ c \in Rendered
  /\ checks => c \in Checked
  /\ installed' = c
  /\ torn' = FALSE
  /\ UNCHANGED checks

Die == torn' = TRUE /\ UNCHANGED checks

Next == Die \/ \E c \in Rendered : Replace(c)

Spec == Init /\ [][Next]_<<installed, torn, checks>>
=============================================================================
