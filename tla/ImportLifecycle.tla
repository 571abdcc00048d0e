--------------------------- MODULE ImportLifecycle ---------------------------
(***************************************************************************)
(* What linking an account promises its owner, without jobs, workers or    *)
(* rows: an account is linked, proved to be the owner's, imported once,    *)
(* and completed.  The set of submissions an import wants is fixed when it *)
(* begins, what was counted stays counted, and a completion is honest      *)
(* (everything wanted was counted) unless there is a reason to doubt it:   *)
(* an administrator declared it, or some submission was counted twice.     *)
(***************************************************************************)
CONSTANTS
    Account, Sub,
    Gate            \* an import needs a proof of ownership first

VARIABLES
    phase,          \* how far each account is
    wanted,         \* the submissions its import wants
    counted,        \* those counted so far
    doubt           \* accounts whose completion may be wrong

vars == <<phase, wanted, counted, doubt>>

Init ==
    /\ phase = [a \in Account |-> "absent"]
    /\ wanted = [a \in Account |-> {}]
    /\ counted = [a \in Account |-> {}]
    /\ doubt = {}

Move(a, from, to) == phase[a] \in from /\ phase' = [phase EXCEPT ![a] = to]
Importing == {"importing", "complete"}

\* A link proved by OAuth is born verified.
Link(a) ==
    /\ \/ Move(a, {"absent"}, "linked")
       \/ Move(a, {"absent"}, "verified")
    /\ UNCHANGED <<wanted, counted, doubt>>

Prove(a) == Move(a, {"linked"}, "verified") /\ UNCHANGED <<wanted, counted, doubt>>

Begin(a) ==
    /\ Move(a, IF Gate THEN {"verified"} ELSE {"linked", "verified"}, "importing")
    /\ \E ids \in SUBSET Sub \ {{}} : wanted' = [wanted EXCEPT ![a] = ids]
    /\ UNCHANGED <<counted, doubt>>

Count(a) ==
    /\ phase[a] \in Importing
    /\ \E s \in wanted[a] : counted' = [counted EXCEPT ![a] = @ \cup {s}]
    /\ UNCHANGED <<phase, wanted, doubt>>

CountAgain(a) ==
    /\ phase[a] \in Importing
    /\ doubt' = doubt \cup {a}
    /\ UNCHANGED <<phase, wanted, counted>>

Finish(a) ==
    /\ wanted[a] \subseteq counted[a] \/ a \in doubt
    /\ Move(a, {"importing"}, "complete")
    /\ UNCHANGED <<wanted, counted, doubt>>

Declare(a) ==
    /\ Move(a, Importing, "complete")
    /\ doubt' = doubt \cup {a}
    /\ UNCHANGED <<wanted, counted>>

Remove(a) ==
    /\ Move(a, {"linked", "verified"} \cup Importing, "gone")
    /\ wanted' = [wanted EXCEPT ![a] = {}]
    /\ counted' = [counted EXCEPT ![a] = {}]
    /\ doubt' = doubt \ {a}

Next == \E a \in Account :
    \/ Link(a) \/ Prove(a) \/ Begin(a) \/ Count(a) \/ CountAgain(a)
    \/ Finish(a) \/ Declare(a) \/ Remove(a)

Spec == Init /\ [][Next]_vars
=============================================================================
