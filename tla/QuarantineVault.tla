--------------------------- MODULE QuarantineVault ---------------------------
(***************************************************************************)
(* What quarantine promises, without how it keeps the promise.  The vault  *)
(* has a slot per quarantine identifier.  A slot is filled with the bytes  *)
(* the service took away from the client, keeps exactly those bytes while  *)
(* it is held, and is released once, when a restore has been recorded.     *)
(* The medium may damage held bytes; the service never does.               *)
(***************************************************************************)
CONSTANTS
  Ids,       \* quarantine identifiers
  Contents,  \* file contents, told apart by their SHA-256
  NoFile     \* the absence of a file

VARIABLE vault

Slot == [state: {"empty", "held", "damaged", "released"},
         content: Contents \cup {NoFile}]

EmptySlot == [state |-> "empty", content |-> NoFile]

Init == vault = [id \in Ids |-> EmptySlot]

\* The copy was verified before the original goes; the medium may have
\* damaged it by then.
Hold(id, c) ==
  /\ vault[id].state = "empty"
  /\ \E s \in {"held", "damaged"} :
       vault' = [vault EXCEPT ![id] = [state |-> s, content |-> c]]

\* The stored bytes decay while the slot is held.
Damage(id) ==
  /\ vault[id].state = "held"
  /\ vault' = [vault EXCEPT ![id] = [state |-> "damaged", content |-> @.content]]

Release(id) ==
  /\ vault[id].state \in {"held", "damaged"}
  /\ vault' = [vault EXCEPT ![id] = [state |-> "released", content |-> NoFile]]

Next == \E id \in Ids :
          \/ \E c \in Contents : Hold(id, c)
          \/ Damage(id)
          \/ Release(id)

Spec == Init /\ [][Next]_vault

=============================================================================
