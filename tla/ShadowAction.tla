---------------------------- MODULE ShadowAction ----------------------------
(***************************************************************************)
(* What the publication control plane promises about a shadow action: it   *)
(* is settled at most once, the verdict never changes, and the economic    *)
(* ledger holds a platform fact only for an action that was accepted.      *)
(***************************************************************************)
CONSTANTS Action

Verdict == {"shadow_accepted", "shadow_rejected", "blocked"}

VARIABLES
    verdict,  \* verdict[a]: how action a was settled, "open" before
    facts     \* actions with a platform fact in the economic ledger

vars == <<verdict, facts>>

Init ==
    /\ verdict = [a \in Action |-> "open"]
    /\ facts = {}

Settle(a, v) ==
    /\ verdict[a] = "open"
    /\ verdict' = [verdict EXCEPT ![a] = v]
    /\ UNCHANGED facts

Bind(a) ==
    /\ verdict[a] = "shadow_accepted"
    /\ facts' = facts \cup {a}
    /\ UNCHANGED verdict

Next == \E a \in Action : Bind(a) \/ \E v \in Verdict : Settle(a, v)

Spec == Init /\ [][Next]_vars
=============================================================================
