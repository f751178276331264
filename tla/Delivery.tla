------------------------------- MODULE Delivery --------------------------------
(****************************************************************************)
(* What the chat server promises about one message addressed to one user,   *)
(* whichever of its routes the message takes (a connection of the same      *)
(* process, a Redis channel, the offlinemessage table): it has at most one   *)
(* outcome, and an outcome is final.                                        *)
(****************************************************************************)
CONSTANTS Users, Msgs

VARIABLE fate   \* fate[<<u, m>>]: what became of message m for user u

Addressed == Users \X Msgs

Outcomes == {"received", "stored", "lost"}

Fates == {"none", "pending"} \cup Outcomes

\* The fates that may follow a fate in one step.  A message may be received, or
\* be lost, in the very step that posts it; it is stored only after somebody
\* found that its user has no route.
After(f) ==
    CASE f = "none"    -> {"pending", "received", "lost"}
      [] f = "pending" -> Outcomes
      [] OTHER         -> {}

Init == fate = [p \in Addressed |-> "none"]

Next ==
    /\ fate' \in [Addressed -> Fates]
    /\ \A p \in Addressed : fate'[p] # fate[p] => fate'[p] \in After(fate[p])

Spec == Init /\ [][Next]_fate

\* Every message in flight ends in an outcome.
Settles == \A p \in Addressed : fate[p] = "pending" ~> fate[p] \in Outcomes
=============================================================================
