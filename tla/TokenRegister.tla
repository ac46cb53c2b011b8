---------------------------- MODULE TokenRegister ----------------------------
(***************************************************************************)
(* What the token store promises: one document, replaced by clients that   *)
(* hold it, alone, and by nobody else but an outsider that asks no one; a  *)
(* replacement may be lost to a failure until it is safe, and never        *)
(* afterwards.                                                             *)
(***************************************************************************)
EXTENDS Naturals

CONSTANT Clients

VARIABLES
  holders,      \* the clients that hold the document
  version,      \* the document, by number
  restorable,   \* the versions that a failure may leave
  outside       \* this version is the outsider's

Init ==
  /\ holders = {}
  /\ version \in Nat
  /\ restorable = {version}
  /\ outside \in BOOLEAN

Enter(c) == holders = {} /\ holders' = {c} /\ UNCHANGED <<version, restorable, outside>>

Newer == version' \in Nat /\ \A v \in restorable : version' > v

\* A replacement is safe at once or later.
Replace(c) ==
  /\ holders = {c}
  /\ Newer
  /\ restorable' \in {{version'}, restorable \cup {version'}}
  /\ outside' = FALSE
  /\ UNCHANGED holders

\* Older versions become unreachable; a client's own replacement does this.
Secure(c) ==
  /\ holders = {c}
  /\ restorable' \subseteq restorable
  /\ version \in restorable'
  /\ UNCHANGED <<holders, version, outside>>

Leave(c) ==
  /\ c \in holders
  /\ holders' = holders \ {c}
  /\ UNCHANGED <<version, restorable, outside>>

Override ==
  /\ Newer
  /\ restorable' = restorable \cup {version'}
  /\ outside' = TRUE
  /\ UNCHANGED holders

\* Clients fail; the document may go back to a version that was never made safe.
Fail ==
  /\ holders' \subseteq holders
  /\ \/ UNCHANGED <<version, restorable, outside>>
     \/ version' \in restorable /\ restorable' = {version'} /\ outside' \in BOOLEAN

Next ==
  \/ \E c \in Clients : Enter(c) \/ Replace(c) \/ Secure(c) \/ Leave(c)
  \/ Override
  \/ Fail

Spec == Init /\ [][Next]_<<holders, version, restorable, outside>>
=============================================================================
