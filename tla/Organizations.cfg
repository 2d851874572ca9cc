SPECIFICATION Spec
CONSTANTS
    ada = ada
    bea = bea
    Users = {ada, bea}
    Orgs = {o1}
    Invitations = {i1, i2}
    Operator = operator
    Roles = {"owner", "admin"}
    FirstAdministrators <- FirstOfUsers
    MaxAwaiting = 1
    None = None
SYMMETRY Alike
VIEW View
INVARIANTS OwnersAreAppointed InvitationTakenOnce
PROPERTIES OwnerRemains SuspendedIsFrozen
