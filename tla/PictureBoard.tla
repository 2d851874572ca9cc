---------------------------- MODULE PictureBoard ----------------------------
(***************************************************************************)
(* What the profiles of a service promise about the pictures they show.    *)
(* A picture is shown by one profile at most and once only: when it is     *)
(* taken down it is spent.  While it is shown it is in the store; what was *)
(* taken from the store does not come back.  A user who left shows none.   *)
(* How pictures get into the store and out of it is left to the module     *)
(* that implements this one.                                               *)
(***************************************************************************)

CONSTANTS
    People,
    Pictures,
    Blank          \* what a profile without a picture shows

VARIABLES
    present,       \* the people who may show a picture
    shown,         \* what each profile shows
    place,         \* where each picture is: not arrived yet, in the store, gone
    spent          \* the pictures nobody may show any more

boardVars == <<present, shown, place, spent>>

BoardInit ==
    /\ present = People
    /\ shown = [p \in People |-> Blank]
    /\ place = [k \in Pictures |-> "outside"]
    /\ spent = {}

OnShow(k) == \E p \in People : shown[p] = k
PlacedAt(k, where) == place' = [place EXCEPT ![k] = where]
Spend(S) == spent' = spent \cup S

PictureArrives(k) ==
    /\ place[k] = "outside"
    /\ PlacedAt(k, "stored")
    /\ UNCHANGED <<present, shown, spent>>

\* Never one that a profile shows.
PictureGoes(k) ==
    /\ place[k] = "stored" /\ ~OnShow(k)
    /\ PlacedAt(k, "gone")
    /\ UNCHANGED <<present, shown, spent>>

\* The picture that was shown before, if any, is spent.
PictureShown(p, k) ==
    /\ p \in present
    /\ place[k] = "stored" /\ ~OnShow(k) /\ k \notin spent
    /\ shown' = [shown EXCEPT ![p] = k]
    /\ Spend({shown[p]} \ {Blank})
    /\ UNCHANGED <<present, place>>

PictureTakenDown(p) ==
    /\ p \in present /\ shown[p] # Blank
    /\ shown' = [shown EXCEPT ![p] = Blank]
    /\ Spend({shown[p]})
    /\ UNCHANGED <<present, place>>

PersonLeaves(p) ==
    /\ p \in present
    /\ present' = present \ {p}
    /\ shown' = [shown EXCEPT ![p] = Blank]
    /\ Spend({shown[p]} \ {Blank})
    /\ UNCHANGED place

\* Uploads that failed, were refused, or were cut off.
PicturesGivenUp(S) ==
    /\ \A k \in S : ~OnShow(k)
    /\ Spend(S)
    /\ UNCHANGED <<present, shown, place>>

BoardNext ==
    \/ \E k \in Pictures : PictureArrives(k) \/ PictureGoes(k)
    \/ \E p \in People : PictureTakenDown(p) \/ PersonLeaves(p)
    \/ \E p \in People, k \in Pictures : PictureShown(p, k)
    \/ \E S \in SUBSET Pictures : PicturesGivenUp(S)

BoardSpec == BoardInit /\ [][BoardNext]_boardVars

=============================================================================
