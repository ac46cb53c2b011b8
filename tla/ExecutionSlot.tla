---------------------------- MODULE ExecutionSlot ----------------------------
(***************************************************************************)
(* What the scheduler promises the rest of the gateway, without queues,    *)
(* futures or clocks: calls wait, at most one at a time is served, nothing *)
(* waits while the slot is free, a protected call is never passed over for *)
(* a background one, and no call that was withdrawn is ever served.        *)
(***************************************************************************)
CONSTANTS Protected, Background

Calls == Protected \cup Background

VARIABLE fate

Fates == {"none", "waiting", "serving", "served", "withdrawn"}

With(f) == {c \in Calls : fate[c] = f}

\* A call moves along this graph only; its name may then be used again.  A call
\* that comes too late is withdrawn as it arrives.
MaySucceed(f) ==
  CASE f = "waiting" -> {"waiting", "serving", "withdrawn"}
    [] f = "serving" -> {"serving", "served"}
    [] OTHER         -> {f, "none", "waiting", "serving", "withdrawn"}

SlotIsExclusive == \A c, d \in With("serving") : c = d

\* Nothing waits in front of a free slot.
SlotIsUsed == With("serving") = {} => With("waiting") = {}

ServesProtectedFirst ==
  (\E b \in Background : fate[b] # "serving" /\ fate'[b] = "serving")
    => \A p \in Protected : fate'[p] # "waiting"

Init == fate = [c \in Calls |-> "none"]

Next ==
  /\ fate' \in [Calls -> Fates]
  /\ \A c \in Calls : fate'[c] \in MaySucceed(fate[c])
  /\ SlotIsExclusive'
  /\ SlotIsUsed'
  /\ ServesProtectedFirst

Spec == Init /\ [][Next]_fate
=============================================================================
