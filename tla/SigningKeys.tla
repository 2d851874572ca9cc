----------------------------- MODULE SigningKeys -----------------------------
(***************************************************************************)
(* The signing keys of one realm: rotation, retirement and deletion, the   *)
(* JWKS in which verifiers look a key up, and the tokens signed with it.   *)
(*                                                                         *)
(* Each handler runs in one turn of the event loop and writes in one       *)
(* storage transaction, hence one step; the clock does not run back.  Of   *)
(* the tokens a key signed only the latest expiry counts; the exp claim is *)
(* rounded down to a second, which the model does not do.                  *)
(***************************************************************************)
EXTENDS Integers, FiniteSets

CONSTANTS
    Keys,         \* ids of signing keys
    Lifetimes,    \* token lifetimes that clients may have
    MaxLifetime,  \* oidcAccessTokenLifetimeSecondsMax, 86400 s
    Grace,        \* oidcJwksRetiredGraceMs, 24 h
    MaxTime,      \* bound of the clock
    None

ASSUME SigningKeysAssumption ==
    /\ Lifetimes \subseteq Nat
    /\ {MaxLifetime, Grace, MaxTime} \subseteq Nat
    /\ MaxLifetime <= Grace

VARIABLES
    now,
    realm,    \* the status of the realm
    key,      \* the signing key table
    lastEnd,  \* history: the latest expiry of the tokens that a key signed
    removed   \* history: ids of deleted rows

vars == <<now, realm, key, lastEnd, removed>>

-----------------------------------------------------------------------------

Row == [status : {"active"}, createdAt : Nat, retiredAt : {None}]
       \cup [status : {"retired"}, createdAt : Nat, retiredAt : Nat]
ASSUME NoneIsNoRow == None \notin Row \cup Nat

Rows == {k \in Keys : key[k] # None}
Active == {k \in Rows : key[k].status = "active"}
Retired == {k \in Rows : key[k].status = "retired"}

\* Mutant: the window is counted from the key's creation.
PublishedSinceCreation(k) ==
    k \in Rows /\ (k \in Retired => key[k].createdAt + Grace > now)
\* The keys of oidcJwksGet.
Published(k) == k \in Rows /\ (k \in Retired => key[k].retiredAt + Grace > now)

Fresh(k) == key[k] = None /\ k \notin removed
NewRow == [status |-> "active", createdAt |-> now, retiredAt |-> None]
RetiredRow(k) == [status |-> "retired", createdAt |-> key[k].createdAt,
                  retiredAt |-> now]

Smaller(a, b) == IF a < b THEN a ELSE b
Larger(a, b) == IF a > b THEN a ELSE b

Init ==
    /\ now = 0 /\ realm = "active"
    /\ key = [k \in Keys |-> None]
    /\ lastEnd = [k \in Keys |-> 0]
    /\ removed = {}

Tick == now < MaxTime /\ now' = now + 1 /\ UNCHANGED <<realm, key, lastEnd, removed>>

RealmUpdate(s) == realm' = s /\ UNCHANGED <<now, key, lastEnd, removed>>

\* Mutant: the new key is added to those that are active.
SigningKeyAdd(k) ==
    /\ realm = "active" /\ Fresh(k)
    /\ key' = [key EXCEPT ![k] = NewRow]
    /\ UNCHANGED <<now, realm, lastEnd, removed>>
\* Creation and rotation: what was active is retired in the same transaction.
SigningKeyCreate(k) ==
    /\ realm = "active" /\ Fresh(k)
    /\ key' = [j \in Keys |->
          IF j = k THEN NewRow
          ELSE IF j \in Active THEN RetiredRow(j) ELSE key[j]]
    /\ UNCHANGED <<now, realm, lastEnd, removed>>

\* An active key is reported and left alone.
SigningKeyEnsureActive(k) ==
    /\ realm = "active" /\ Fresh(k)
    /\ Active = {}
    /\ key' = [key EXCEPT ![k] = NewRow]
    /\ UNCHANGED <<now, realm, lastEnd, removed>>

\* The only status that may be asked for is retired; the realm's is not asked for.
SigningKeyLifecycleSet(k) ==
    /\ k \in Active
    /\ key' = [key EXCEPT ![k] = RetiredRow(k)]
    /\ UNCHANGED <<now, realm, lastEnd, removed>>

\* A retired key may be deleted at once.
SigningKeyDelete(k) ==
    /\ k \in Retired
    /\ key' = [key EXCEPT ![k] = None]
    /\ removed' = removed \cup {k}
    /\ UNCHANGED <<now, realm, lastEnd>>

\* oidcTokenSigningKeyGet takes the newest active key.
TokenIssue(k, lifetime) ==
    /\ realm = "active"
    /\ k \in Active
    /\ \A j \in Active : key[j].createdAt <= key[k].createdAt
    /\ lastEnd' = [lastEnd EXCEPT
          ![k] = Larger(@, now + Smaller(lifetime, MaxLifetime))]
    /\ UNCHANGED <<now, realm, key, removed>>

Next ==
    \/ Tick
    \/ \E s \in {"active", "inactive"} : RealmUpdate(s)
    \/ \E k \in Keys : \/ SigningKeyCreate(k)
                       \/ SigningKeyEnsureActive(k)
                       \/ SigningKeyLifecycleSet(k)
                       \/ SigningKeyDelete(k)
    \/ \E k \in Keys, lifetime \in Lifetimes : TokenIssue(k, lifetime)

Spec == Init /\ [][Next]_vars

-----------------------------------------------------------------------------
(* Properties.                                                             *)

\* The table holds rows of its schema, and no row of a deleted key.
TypeOK ==
    /\ now \in Nat
    /\ realm \in {"active", "inactive"}
    /\ key \in [Keys -> Row \cup {None}]
    /\ lastEnd \in [Keys -> Nat]
    /\ removed \subseteq Keys

\* Rotation, ensure-active and the lifecycle route together never leave a realm
\* with two active keys, which oidcSigningKeyEnsureActive would refuse for ever.
OneActiveKey == \A j, k \in Active : j = k

\* Whatever the order of rotations, retirements and changes of the realm: a
\* verifier finds the key of every token that has not expired in the JWKS,
\* unless an administrator deleted the key.
PublishedWhileValid ==
    \A k \in Keys \ removed : lastEnd[k] > now => Published(k)

\* A key that has left the JWKS never comes back to it.
WithdrawnForGood ==
    [][\A k \in Rows : ~Published(k) => ~Published(k)']_vars

=============================================================================
