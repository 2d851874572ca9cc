---------------------------- MODULE RefreshFamily ---------------------------
(***************************************************************************)
(* What refresh-token rotation promises of the tokens of a realm, without  *)
(* rows, clocks, sessions or policies: a family is held by one token at a  *)
(* time, the holder passes it on at most once, and once the family ends,   *)
(* by a replay or by any revocation, nothing of it is usable again.        *)
(***************************************************************************)
CONSTANTS Refresh, Access, None

VARIABLES
    holder,    \* the usable refresh token of each family, None before and after its life
    bearer,    \* the usable access tokens of each family
    ended,     \* the families that are over
    used       \* all tokens, of both kinds, that were ever handed out

familyVars == <<holder, bearer, ended, used>>

FamilyInit ==
    /\ holder = [f \in Refresh |-> None]
    /\ bearer = [f \in Refresh |-> {}]
    /\ ended = {}
    /\ used = {}

Unborn(f) == holder[f] = None /\ f \notin ended

\* A family begins with a refresh token that names it and one access token.
Start(f, a) ==
    /\ Unborn(f)
    /\ {f, a} \cap used = {}
    /\ holder' = [holder EXCEPT ![f] = f]
    /\ bearer' = [bearer EXCEPT ![f] = {a}]
    /\ used' = used \cup {f, a}
    /\ UNCHANGED ended

\* The holder hands the family to a new token, with one more access token.
Rotate(f, next, a) ==
    /\ holder[f] # None
    /\ {next, a} \cap used = {}
    /\ holder' = [holder EXCEPT ![f] = next]
    /\ bearer' = [bearer EXCEPT ![f] = @ \cup {a}]
    /\ used' = used \cup {next, a}
    /\ UNCHANGED ended

\* An access token outside all families is handed out.
Spend(a) ==
    /\ a \notin used
    /\ used' = used \cup {a}
    /\ UNCHANGED <<holder, bearer, ended>>

\* One access token is withdrawn; its family goes on.
Withdraw(f, a) ==
    /\ a \in bearer[f]
    /\ bearer' = [bearer EXCEPT ![f] = @ \ {a}]
    /\ UNCHANGED <<holder, ended, used>>

\* Some families end, refresh and access tokens together.
End(F) ==
    /\ F # {}
    /\ \A f \in F : holder[f] # None
    /\ holder' = [f \in Refresh |-> IF f \in F THEN None ELSE holder[f]]
    /\ bearer' = [f \in Refresh |-> IF f \in F THEN {} ELSE bearer[f]]
    /\ ended' = ended \cup F
    /\ UNCHANGED used

FamilyNext ==
    \/ \E f \in Refresh, a \in Access :
          Start(f, a) \/ Withdraw(f, a) \/ \E next \in Refresh : Rotate(f, next, a)
    \/ \E a \in Access : Spend(a)
    \/ \E F \in SUBSET Refresh : End(F)

FamilySpec == FamilyInit /\ [][FamilyNext]_familyVars

=============================================================================
