-------------------------- MODULE MCOrganizations --------------------------
EXTENDS Organizations, TLC

CONSTANTS ada, bea

FirstOfUsers == {ada}
Alike == Permutations(Invitations)

\* Of an invitation that ended nobody reads how it did, nor what it was for.
Left(i) == IF invitation[i] = None \/ Pending(i) THEN invitation[i]
           ELSE [accepted |-> invitation[i].status = "accepted",
                 org |-> invitation[i].org,
                 takers |-> Cardinality(invitation[i].takers)]
View == <<user, administrators, org, member, awaiting, appointed,
          [i \in Invitations |-> Left(i)]>>
=============================================================================
