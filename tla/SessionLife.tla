---------------------------- MODULE SessionLife ----------------------------
(***************************************************************************)
(* The life of a realm's sessions, as far as whoever accepts a session has *)
(* to know it: a session is issued once, to one person and for one of the  *)
(* lifetimes in use; it may be shortened while it lives, and ends when its *)
(* time is over or it is revoked, for good.  Credentials, assurance and    *)
(* the policies behind it are left to Sessions.                            *)
(***************************************************************************)
EXTENDS Integers

CONSTANTS
    Ids,          \* the sessions
    People,       \* whom they may be issued to
    Lifetimes     \* how long from now a session may last

VARIABLES
    clock,
    life          \* the owner, end and revocation of each session issued so far

lifeVars == <<clock, life>>

LifeInit ==
    /\ clock = 0
    /\ life = [s \in {} |-> 0]

Begun == DOMAIN life
Lives(s) == ~life[s].revoked /\ life[s].expiresAt > clock

Earlier(a, b) == IF a < b THEN a ELSE b

Entry(owner, expiresAt, revoked) ==
    [owner |-> owner, expiresAt |-> expiresAt, revoked |-> revoked]

LifePasses ==
    /\ clock' = clock + 1
    /\ UNCHANGED life

LifeBegins(s, p, lifetime) ==
    /\ s \notin Begun
    /\ life' = [x \in Begun \cup {s} |->
                  IF x = s THEN Entry(p, clock + lifetime, FALSE) ELSE life[x]]
    /\ UNCHANGED clock

\* Somebody goes on with the session, under the policy of now.
LifeIsShortened(s, lifetime) ==
    /\ s \in Begun
    /\ Lives(s)
    /\ life' = [x \in Begun |->
                  IF x = s
                  THEN Entry(life[x].owner, Earlier(life[x].expiresAt, clock + lifetime), FALSE)
                  ELSE life[x]]
    /\ UNCHANGED clock

\* Also sessions whose time is over.
LivesAreRevoked(S) ==
    /\ \A s \in S : ~life[s].revoked
    /\ life' = [x \in Begun |->
                  IF x \in S THEN Entry(life[x].owner, life[x].expiresAt, TRUE) ELSE life[x]]
    /\ UNCHANGED clock

LifeNext ==
    \/ LifePasses
    \/ \E s \in Ids, lifetime \in Lifetimes :
          LifeIsShortened(s, lifetime) \/ \E p \in People : LifeBegins(s, p, lifetime)
    \/ \E S \in SUBSET Begun : LivesAreRevoked(S)

LifeSpec == LifeInit /\ [][LifeNext]_lifeVars

=============================================================================
