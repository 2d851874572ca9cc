-------------------------- MODULE Sessions_proofs --------------------------
(***************************************************************************)
(* Proofs about Sessions for every set of users, administrators, sessions  *)
(* and policies, and every bound.  What a session's holder is and has      *)
(* shown is inductive together with the same facts about the requests that *)
(* await their body: an impersonation is issued from what was admitted.    *)
(***************************************************************************)
EXTENDS Sessions, TLAPS

\* A row, the holder of its credential and the number of its recorded ends agree.
RowSound(row, holder, ends) ==
    /\ holder.person = IF row.impersonator = None THEN row.subject ELSE row.impersonator
    /\ row.assurance <= holder.proved
    /\ row.impersonator # None => row.expiresAt - row.createdAt <= ImpersonationMax
    /\ ends <= 1
    /\ ends = 1 => row.revoked

SessionSound(s) ==
    IF Exists(s) THEN RowSound(session[s], HolderOf(s), ended[s]) ELSE ended[s] = 0

\* A request to impersonate was admitted for a person acting as itself.
RequestSound(r) ==
    /\ r.impersonator = None
    /\ r.by.person = r.subject
    /\ r.assurance <= r.by.proved

IInv ==
    /\ TypeOK
    /\ \A s \in Sessions : SessionSound(s)
    /\ \A r \in pending : RequestSound(r)

-----------------------------------------------------------------------------

\* A new credential is the newest of its session, and the only new one.
LEMMA CredentialStep ==
    ASSUME TypeOK, NEW s \in Sessions, NEW h \in Holder, Credential(s, h)
    PROVE  /\ bearer' \in [Sessions -> Seq(Holder)]
           /\ Newest(s)' = Newest(s) + 1 /\ HolderOf(s)' = h
           /\ \A t \in Sessions \ {s} : bearer'[t] = bearer[t]
<1>1. bearer[s] \in Seq(Holder) /\ bearer' = [bearer EXCEPT ![s] = Append(bearer[s], h)]
  BY DEF TypeOK, Credential
<1>2. bearer'[s] = Append(bearer[s], h) /\ \A t \in Sessions \ {s} : bearer'[t] = bearer[t]
  BY <1>1 DEF TypeOK
<1>3. Append(bearer[s], h) \in Seq(Holder) /\ Len(Append(bearer[s], h)) = Len(bearer[s]) + 1
      /\ Append(bearer[s], h)[Len(bearer[s]) + 1] = h
  BY <1>1
<1>4. bearer' \in [Sessions -> Seq(Holder)]
  BY <1>1, <1>3 DEF TypeOK
<1>5. QED
  BY <1>2, <1>3, <1>4 DEF Newest, HolderOf

\* The holder of a session that exists is typed.
LEMMA HolderTyped ==
    ASSUME TypeOK, NEW s \in Sessions, NEW g \in 1..Newest(s)
    PROVE  bearer[s][g] \in Holder
<1>1. bearer[s] \in Seq(Holder) /\ g \in 1..Len(bearer[s])
  BY DEF TypeOK, Newest
<1>2. QED
  BY <1>1

\* A new session: its row and its first credential.
LEMMA IssueStep ==
    ASSUME TypeOK, NEW s \in Sessions, NEW p \in Persons, NEW i \in Persons \cup {None},
           NEW a \in Assurance, NEW e \in Int, NEW h \in Holder,
           Issue(s, p, i, a, e, h)
    PROVE  /\ session' \in [Sessions -> SessionRow \cup {None}]
           /\ bearer' \in [Sessions -> Seq(Holder)]
           /\ \A t \in Sessions : Exists(t)' <=> Newest(t)' > 0
           /\ Exists(s)' /\ ~Exists(s) /\ HolderOf(s)' = h
           /\ session'[s] = [subject |-> p, impersonator |-> i, assurance |-> a,
                             createdAt |-> now, expiresAt |-> e, revoked |-> FALSE]
           /\ \A t \in Sessions \ {s} : session'[t] = session[t] /\ bearer'[t] = bearer[t]
<1> DEFINE row == [subject |-> p, impersonator |-> i, assurance |-> a,
                   createdAt |-> now, expiresAt |-> e, revoked |-> FALSE]
<1>1. now \in Nat /\ MaxTime \in Nat /\ e \in Nat
  BY SessionsAssumption DEF TypeOK, Issue
<1>2. row \in SessionRow /\ row # None
  <2>1. row \in SessionRow
    BY <1>1 DEF SessionRow
  <2>2. QED
    BY <2>1, NoneAssumption
<1>3. session' = [session EXCEPT ![s] = row]
  BY DEF Issue
<1>4. /\ bearer' \in [Sessions -> Seq(Holder)]
      /\ Newest(s)' = Newest(s) + 1 /\ HolderOf(s)' = h
      /\ \A t \in Sessions \ {s} : bearer'[t] = bearer[t]
  BY CredentialStep DEF Issue
<1>5. Newest(s) \in Nat
  BY DEF TypeOK, Newest
<1>6. \A t \in Sessions \ {s} : Exists(t)' <=> Newest(t)' > 0
  BY <1>3, <1>4 DEF TypeOK, Exists, Newest
<1>7. session'[s] = row /\ session' \in [Sessions -> SessionRow \cup {None}]
      /\ \A t \in Sessions \ {s} : session'[t] = session[t]
  BY <1>2, <1>3 DEF TypeOK
<1>8. Exists(s)' /\ Newest(s)' > 0 /\ ~Exists(s)
  BY <1>2, <1>4, <1>5, <1>7 DEF Exists, Issue
<1> HIDE DEF row
<1>9. QED
  BY <1>4, <1>6, <1>7, <1>8 DEF row

\* A new session is sound if its row is, and disturbs no other.
LEMMA IssueSound ==
    ASSUME IInv, NEW s \in Sessions, NEW p \in Persons, NEW i \in Persons \cup {None},
           NEW a \in Assurance, NEW e \in Int, NEW h \in Holder,
           Issue(s, p, i, a, e, h), ended' = ended,
           h.person = IF i = None THEN p ELSE i, a <= h.proved,
           i # None => e - now <= ImpersonationMax
    PROVE  \A t \in Sessions : SessionSound(t)'
<1>0. TypeOK
  BY DEF IInv
<1>1. SessionSound(s)'
  <2>1. Exists(s)' /\ ~Exists(s) /\ HolderOf(s)' = h
        /\ session'[s] = [subject |-> p, impersonator |-> i, assurance |-> a,
                          createdAt |-> now, expiresAt |-> e, revoked |-> FALSE]
    BY <1>0, IssueStep
  <2>2. ended[s] = 0
    BY <2>1 DEF IInv, SessionSound
  <2>3. RowSound(session'[s], h, ended'[s])
    BY <2>1, <2>2 DEF RowSound
  <2>4. QED
    BY <2>1, <2>3 DEF SessionSound
<1>2. ASSUME NEW t \in Sessions, t # s PROVE SessionSound(t)'
  <2>1. session'[t] = session[t] /\ bearer'[t] = bearer[t] /\ ended'[t] = ended[t]
    BY <1>0, <1>2, IssueStep
  <2>2. SessionSound(t)
    BY DEF IInv
  <2>3. QED
    BY <2>1, <2>2 DEF SessionSound, Exists, HolderOf, Newest
<1>3. QED
  BY <1>1, <1>2

\* A session whose row and credential a step leaves alone stays sound.
LEMMA UntouchedSound ==
    ASSUME IInv, NEW s \in Sessions,
           session'[s] = session[s], bearer'[s] = bearer[s], ended'[s] = ended[s]
    PROVE  SessionSound(s)'
<1>1. SessionSound(s)
  BY DEF IInv
<1>2. QED
  BY <1>1 DEF SessionSound, Exists, HolderOf, Newest

\* A revocation keeps sessions typed and sound, with its end recorded or not.
LEMMA RevokedSound ==
    ASSUME IInv, bearer' = bearer, NEW S \in SUBSET Sessions, NEW E \in SUBSET S,
           \A s \in S : Unrevoked(s),
           session' = [s \in Sessions |-> IF s \in S THEN [session[s] EXCEPT !.revoked = TRUE]
                                          ELSE session[s]],
           ended' = [s \in Sessions |-> IF s \in E THEN ended[s] + 1 ELSE ended[s]]
    PROVE  /\ session' \in [Sessions -> SessionRow \cup {None}]
           /\ \A s \in Sessions : Exists(s)' <=> Newest(s)' > 0
           /\ ended' \in [Sessions -> Nat]
           /\ \A s \in Sessions : SessionSound(s)'
<1>1. ASSUME NEW s \in S
      PROVE  /\ session'[s] = [session[s] EXCEPT !.revoked = TRUE]
             /\ session[s] \in SessionRow /\ session'[s] \in SessionRow
             /\ session'[s] # None /\ session[s] # None
             /\ ended'[s] \in {0, 1}
             /\ SessionSound(s)'
  <2>1. session[s] \in SessionRow /\ session[s] # None /\ ~session[s].revoked
    BY <1>1 DEF IInv, TypeOK, Unrevoked, Exists
  <2>2. session'[s] = [session[s] EXCEPT !.revoked = TRUE]
    BY <1>1
  <2>3. session'[s] \in SessionRow
    BY <2>1, <2>2 DEF SessionRow
  <2>4. session'[s] # None
    BY <2>3, NoneAssumption
  <2>5. RowSound(session[s], HolderOf(s), ended[s])
    BY <1>1, <2>1 DEF IInv, SessionSound, Exists
  <2>6. ended[s] = 0
    <3>1. ended[s] \in Nat
      BY DEF IInv, TypeOK
    <3>2. QED
      BY <2>1, <2>5, <3>1 DEF RowSound
  <2>7. ended'[s] \in {0, 1}
    BY <1>1, <2>6
  <2>8. HolderOf(s)' = HolderOf(s)
    BY DEF HolderOf, Newest
  <2>9. RowSound(session'[s], HolderOf(s), ended'[s])
    BY <2>1, <2>2, <2>5, <2>7 DEF RowSound, SessionRow
  <2>10. QED
    BY <2>1, <2>2, <2>3, <2>4, <2>7, <2>8, <2>9 DEF SessionSound, Exists
<1>2. ASSUME NEW s \in Sessions, s \notin S
      PROVE  session'[s] = session[s] /\ ended'[s] = ended[s] /\ SessionSound(s)'
  <2>1. session'[s] = session[s] /\ ended'[s] = ended[s] /\ bearer'[s] = bearer[s]
    BY <1>2
  <2>2. QED
    BY <2>1, UntouchedSound
<1>3. session' \in [Sessions -> SessionRow \cup {None}]
  BY <1>1, <1>2 DEF IInv, TypeOK
<1>4. ended' \in [Sessions -> Nat]
  BY <1>1, <1>2 DEF IInv, TypeOK
<1>5. \A s \in Sessions : Exists(s)' <=> Exists(s)
  BY <1>1, <1>2 DEF Exists
<1>6. QED
  BY <1>1, <1>2, <1>3, <1>4, <1>5 DEF IInv, TypeOK, Newest

\* A new credential for an existing session whose row may change with it.
LEMMA RecredentialledSound ==
    ASSUME IInv, NEW s \in Sessions, Exists(s), NEW row \in SessionRow, NEW h \in Holder,
           Credential(s, h), session' = [session EXCEPT ![s] = row], ended' = ended,
           RowSound(row, h, ended[s])
    PROVE  /\ session' \in [Sessions -> SessionRow \cup {None}]
           /\ bearer' \in [Sessions -> Seq(Holder)]
           /\ \A t \in Sessions : Exists(t)' <=> Newest(t)' > 0
           /\ \A t \in Sessions : SessionSound(t)'
<1>1. /\ bearer' \in [Sessions -> Seq(Holder)]
      /\ Newest(s)' = Newest(s) + 1 /\ HolderOf(s)' = h
      /\ \A t \in Sessions \ {s} : bearer'[t] = bearer[t]
  BY CredentialStep DEF IInv
<1>2. session'[s] = row /\ session' \in [Sessions -> SessionRow \cup {None}]
      /\ \A t \in Sessions \ {s} : session'[t] = session[t]
  BY DEF IInv, TypeOK
<1>3. row # None
  BY NoneAssumption
<1>4. Newest(s) \in Nat
  BY DEF IInv, TypeOK, Newest
<1>5. Exists(s)' /\ Newest(s)' > 0
  BY <1>1, <1>2, <1>3, <1>4 DEF Exists
<1>6. \A t \in Sessions \ {s} : Exists(t)' <=> Newest(t)' > 0
  BY <1>1, <1>2 DEF IInv, TypeOK, Exists, Newest
<1>7. SessionSound(s)'
  BY <1>1, <1>2, <1>5 DEF SessionSound
<1>8. ASSUME NEW t \in Sessions \ {s} PROVE SessionSound(t)'
  BY <1>1, <1>2, <1>8, UntouchedSound
<1>9. QED
  BY <1>1, <1>2, <1>5, <1>6, <1>7, <1>8

-----------------------------------------------------------------------------

LEMMA InitIInv == Init => IInv
<1> SUFFICES ASSUME Init PROVE IInv
  OBVIOUS
<1>1. TypeOK
  <2>1. \A s \in Sessions : bearer[s] = <<>> /\ session[s] = None
    BY DEF Init
  <2>2. \A s \in Sessions : Exists(s) <=> Newest(s) > 0
    BY <2>1 DEF Exists, Newest
  <2>3. now \in 0..MaxTime
    BY SessionsAssumption DEF Init
  <2>4. bearer \in [Sessions -> Seq(Holder)]
    BY DEF Init
  <2>5. QED
    BY <2>2, <2>3, <2>4 DEF Init, TypeOK
<1>2. \A s \in Sessions : SessionSound(s)
  BY DEF Init, SessionSound, Exists
<1>3. QED
  BY <1>1, <1>2 DEF Init, IInv

LEMMA IInvStep == IInv /\ [Next]_vars => IInv'
<1> SUFFICES ASSUME IInv, [Next]_vars PROVE IInv'
  OBVIOUS
<1>0. TypeOK
  BY DEF IInv
<1>1. ASSUME NEW s \in Sessions, NEW p \in Persons, NEW a \in Assurance, SignIn(s, p, a)
      PROVE  IInv'
  <2> DEFINE h == [person |-> p, proved |-> a]
             e == now + policy.lifetime
  <2>1. h \in Holder /\ e \in Int /\ Issue(s, p, None, a, e, h)
    BY <1>0, <1>1, SessionsAssumption DEF TypeOK, Holder, SignIn, PolicyRow
  <2>2. ended' = ended /\ h.person = p /\ a <= h.proved
    BY <1>1 DEF SignIn, Assurance, Authenticated, MultiFactor
  <2> HIDE DEF h, e
  <2>3. \A t \in Sessions : SessionSound(t)'
    BY <2>1, <2>2, IssueSound
  <2>4. TypeOK'
    BY <1>0, <1>1, <2>1, <2>2, IssueStep DEF TypeOK, SignIn
  <2>5. QED
    BY <1>1, <2>3, <2>4 DEF IInv, SignIn
<1>2. ASSUME NEW s \in Sessions, NEW g \in 1..Newest(s), Rotate(s, g)
      PROVE  IInv'
  <2>1. Exists(s) /\ session[s] \in SessionRow /\ bearer[s][g] \in Holder
        /\ Credential(s, bearer[s][g])
    BY <1>0, <1>2, HolderTyped
       DEF TypeOK, Rotate, Authenticates, Live, Unrevoked, Exists
  <2>2. session' = [session EXCEPT ![s] = session[s]] /\ ended' = ended
    BY <1>0, <1>2 DEF Rotate, TypeOK
  <2>3. RowSound(session[s], bearer[s][g], ended[s])
    BY <1>2, <2>1 DEF IInv, SessionSound, Rotate, Authenticates, Presents, HolderOf
  <2>4. TypeOK' /\ \A t \in Sessions : SessionSound(t)'
    BY <1>0, <1>2, <2>1, <2>2, <2>3, RecredentialledSound DEF TypeOK, Rotate
  <2>5. QED
    BY <1>2, <2>4 DEF IInv, Rotate
<1>3. ASSUME NEW s \in Sessions, NEW g \in 1..Newest(s), StepUp(s, g)
      PROVE  IInv'
  <2> DEFINE row == [session[s] EXCEPT !.assurance = MultiFactor, !.createdAt = now]
             h == [bearer[s][g] EXCEPT !.proved = MultiFactor]
  <2>1. Exists(s) /\ session[s] \in SessionRow /\ bearer[s][g] \in Holder
    BY <1>0, <1>3, HolderTyped DEF TypeOK, StepUp, Live, Unrevoked, Exists
  <2>2. h \in Holder /\ row \in SessionRow
    <3>1. MultiFactor \in Assurance /\ now \in Nat
      BY <1>0, SessionsAssumption DEF TypeOK, Assurance
    <3>2. h \in Holder
      BY <2>1, <3>1 DEF Holder
    <3>3. row \in SessionRow
      BY <2>1, <3>1 DEF SessionRow
    <3>4. QED
      BY <3>2, <3>3
  <2>3. Credential(s, h) /\ session' = [session EXCEPT ![s] = row] /\ ended' = ended
    BY <1>0, <1>3 DEF TypeOK, StepUp
  <2>4. RowSound(session[s], bearer[s][g], ended[s]) /\ session[s].impersonator = None
    BY <1>3, <2>1 DEF IInv, SessionSound, StepUp, Presents, HolderOf, MayStepUp
  <2>5. RowSound(row, h, ended[s])
    BY <2>1, <2>4 DEF RowSound, SessionRow, Holder, MultiFactor
  <2> HIDE DEF row, h
  <2>6. TypeOK' /\ \A t \in Sessions : SessionSound(t)'
    BY <1>0, <1>3, <2>1, <2>2, <2>3, <2>5, RecredentialledSound DEF TypeOK, StepUp
  <2>7. QED
    BY <1>3, <2>6 DEF IInv, StepUp
<1>4. ASSUME NEW c \in Sessions, NEW g \in 1..Newest(c), NEW s \in Sessions,
             RecentResume(c, g, s)
      PROVE  IInv'
  <2> DEFINE h == bearer[c][g]
             row == [session[s] EXCEPT !.expiresAt = ResumedExpiry(s)]
  <2>1. /\ Exists(s) /\ session[s] \in SessionRow
        /\ Exists(c) /\ session[c] \in SessionRow /\ h \in Holder
    BY <1>0, <1>4, HolderTyped
       DEF TypeOK, RecentResume, Authenticates, Live, Unrevoked, Exists
  <2>2. policy.lifetime \in Nat /\ now \in Nat
    BY <1>0, SessionsAssumption DEF TypeOK, PolicyRow
  <2>3. ResumedExpiry(s) \in Nat /\ ResumedExpiry(s) <= session[s].expiresAt
    BY <2>1, <2>2 DEF ResumedExpiry, Smaller, SessionRow
  <2>4. row \in SessionRow
    BY <2>1, <2>3 DEF SessionRow
  <2>5. Credential(s, h) /\ session' = [session EXCEPT ![s] = row] /\ ended' = ended
    BY <1>0, <1>4 DEF TypeOK, RecentResume
  <2>6. RowSound(session[c], h, ended[c]) /\ RowSound(session[s], HolderOf(s), ended[s])
    BY <1>4, <2>1 DEF IInv, SessionSound, RecentResume, Authenticates, Presents, HolderOf
  <2>7. /\ session[s].subject = session[c].subject
        /\ session[s].impersonator = session[c].impersonator
        /\ session[s].assurance <= session[c].assurance
    BY <1>4 DEF RecentResume, Resumable, SameOwner
  <2>8. RowSound(row, h, ended[s])
    <3>1. session[s].assurance <= h.proved
      BY <2>1, <2>6, <2>7 DEF RowSound, SessionRow, Holder, Assurance, Authenticated, MultiFactor
    <3>2. session[s].impersonator # None =>
            ResumedExpiry(s) - session[s].createdAt <= ImpersonationMax
      BY <2>1, <2>3, <2>6, SessionsAssumption DEF RowSound, SessionRow
    <3>3. QED
      BY <2>1, <2>6, <2>7, <3>1, <3>2 DEF RowSound, SessionRow
  <2> HIDE DEF row, h
  <2>9. TypeOK' /\ \A t \in Sessions : SessionSound(t)'
    BY <1>0, <1>4, <2>1, <2>4, <2>5, <2>8, RecredentialledSound DEF TypeOK, RecentResume
  <2>10. QED
    BY <1>4, <2>9 DEF IInv, RecentResume
<1>5. ASSUME NEW c \in Sessions, NEW g \in 1..Newest(c), NEW s \in Sessions, Revoke(c, g, s)
      PROVE  IInv'
  <2>1. Unrevoked(s) /\ bearer' = bearer
    BY <1>5 DEF Revoke
  <2>2. session' = [t \in Sessions |-> IF t \in {s} THEN [session[t] EXCEPT !.revoked = TRUE]
                                       ELSE session[t]]
    BY <1>0, <1>5 DEF TypeOK, Revoke
  <2>3. PICK E \in SUBSET {s} : ended' = [t \in Sessions |-> IF t \in E THEN ended[t] + 1 ELSE ended[t]]
    <3>1. ended \in [Sessions -> Nat] /\ ended' = Ended(s)
      BY <1>0, <1>5 DEF TypeOK, Revoke
    <3>2. CASE session[s].impersonator = None
      <4>1. ended' = [t \in Sessions |-> IF t \in {} THEN ended[t] + 1 ELSE ended[t]]
        BY <3>1, <3>2 DEF Ended
      <4>2. {} \in SUBSET {s}
        OBVIOUS
      <4>3. QED
        BY <4>1, <4>2
    <3>3. CASE session[s].impersonator # None
      <4>1. ended' = [t \in Sessions |-> IF t \in {s} THEN ended[t] + 1 ELSE ended[t]]
        BY <3>1, <3>3 DEF Ended
      <4>2. {s} \in SUBSET {s}
        OBVIOUS
      <4>3. QED
        BY <4>1, <4>2
    <3>4. QED
      BY <3>2, <3>3
  <2>4. {s} \in SUBSET Sessions /\ \A t \in {s} : Unrevoked(t)
    BY <2>1
  <2>5. /\ session' \in [Sessions -> SessionRow \cup {None}]
        /\ \A t \in Sessions : Exists(t)' <=> Newest(t)' > 0
        /\ ended' \in [Sessions -> Nat]
        /\ \A t \in Sessions : SessionSound(t)'
    BY <2>1, <2>2, <2>3, <2>4, RevokedSound
  <2>6. TypeOK'
    BY <1>0, <1>5, <2>5 DEF TypeOK, Revoke
  <2>7. QED
    BY <1>5, <2>5, <2>6 DEF IInv, Revoke
<1>6. ASSUME NEW s \in Sessions, OidcLogout(s)
      PROVE  IInv'
  <2>1. Unrevoked(s) /\ bearer' = bearer
    BY <1>6 DEF OidcLogout
  <2>2. session' = [t \in Sessions |-> IF t \in {s} THEN [session[t] EXCEPT !.revoked = TRUE]
                                       ELSE session[t]]
    BY <1>0, <1>6 DEF TypeOK, OidcLogout
  <2>3. ended' = [t \in Sessions |-> IF t \in {} THEN ended[t] + 1 ELSE ended[t]]
    BY <1>0, <1>6 DEF TypeOK, OidcLogout
  <2>4. {s} \in SUBSET Sessions /\ {} \in SUBSET {s} /\ \A t \in {s} : Unrevoked(t)
    BY <2>1
  <2>5. /\ session' \in [Sessions -> SessionRow \cup {None}]
        /\ \A t \in Sessions : Exists(t)' <=> Newest(t)' > 0
        /\ ended' \in [Sessions -> Nat]
        /\ \A t \in Sessions : SessionSound(t)'
    BY <2>1, <2>2, <2>3, <2>4, RevokedSound
  <2>6. TypeOK'
    BY <1>0, <1>6, <2>5 DEF TypeOK, OidcLogout
  <2>7. QED
    BY <1>6, <2>5, <2>6 DEF IInv, OidcLogout
<1>7. ASSUME NEW c \in Sessions, NEW keepCurrent \in BOOLEAN, RevokeAll(c, keepCurrent)
      PROVE  IInv'
  <2> DEFINE S == {s \in Sessions : /\ Unrevoked(s)
                                    /\ session[s].subject = session[c].subject
                                    /\ ~(keepCurrent /\ s = c)}
  <2>1. S \in SUBSET Sessions /\ (\A s \in S : Unrevoked(s)) /\ bearer' = bearer
    BY <1>7 DEF RevokeAll
  <2>2. session' = [t \in Sessions |-> IF t \in S THEN [session[t] EXCEPT !.revoked = TRUE]
                                       ELSE session[t]]
    BY <1>7 DEF RevokeAll
  <2>3. ended' = [t \in Sessions |-> IF t \in {} THEN ended[t] + 1 ELSE ended[t]]
    BY <1>0, <1>7 DEF TypeOK, RevokeAll
  <2> HIDE DEF S
  <2>4. {} \in SUBSET S
    OBVIOUS
  <2>5. TypeOK' /\ \A t \in Sessions : SessionSound(t)'
    BY <1>0, <1>7, <2>1, <2>2, <2>3, <2>4, RevokedSound DEF TypeOK, RevokeAll
  <2>6. QED
    BY <1>7, <2>5 DEF IInv, RevokeAll
<1>8. ASSUME NEW c \in Sessions, NEW g \in 1..Newest(c), NEW s \in Sessions,
             ImpersonationEnd(c, g, s)
      PROVE  IInv'
  <2>1. Unrevoked(s) /\ bearer' = bearer
    BY <1>8 DEF ImpersonationEnd, Endable, Unrevoked
  <2>2. session' = [t \in Sessions |-> IF t \in {s} THEN [session[t] EXCEPT !.revoked = TRUE]
                                       ELSE session[t]]
    BY <1>0, <1>8 DEF TypeOK, ImpersonationEnd
  <2>3. ended' = [t \in Sessions |-> IF t \in {s} THEN ended[t] + 1 ELSE ended[t]]
    BY <1>0, <1>8 DEF TypeOK, ImpersonationEnd
  <2>4. {s} \in SUBSET Sessions /\ \A t \in {s} : Unrevoked(t)
    BY <2>1
  <2>5. /\ session' \in [Sessions -> SessionRow \cup {None}]
        /\ \A t \in Sessions : Exists(t)' <=> Newest(t)' > 0
        /\ ended' \in [Sessions -> Nat]
        /\ \A t \in Sessions : SessionSound(t)'
    BY <2>1, <2>2, <2>3, <2>4, RevokedSound
  <2>6. TypeOK'
    BY <1>0, <1>8, <2>5 DEF TypeOK, ImpersonationEnd
  <2>7. QED
    BY <1>8, <2>5, <2>6 DEF IInv, ImpersonationEnd
<1>9. ASSUME NEW c \in Sessions, NEW g \in 1..Newest(c), Admit(c, g)
      PROVE  IInv'
  <2> DEFINE r == Admitted(c, g)
  <2>1. /\ Exists(c) /\ session[c] \in SessionRow /\ bearer[c][g] \in Holder
        /\ RowSound(session[c], bearer[c][g], ended[c])
    BY <1>0, <1>9, HolderTyped
       DEF IInv, TypeOK, SessionSound, HolderOf, Admit, Authenticates, Presents, Live,
           Unrevoked, Exists
  <2>2. r \in Request
    BY <2>1 DEF Admitted, Request, SessionRow
  <2>3. RequestSound(r)
    BY <1>9, <2>1 DEF Admit, MayImpersonate, Admitted, RowSound, RequestSound
  <2>4. pending' = pending \cup {r} /\ UNCHANGED <<now, active, policy, session, bearer, ended>>
    BY <1>9 DEF Admit
  <2> HIDE DEF r
  <2>5. TypeOK'
    BY <1>0, <2>2, <2>4 DEF TypeOK, Exists, Newest
  <2>6. \A s \in Sessions : SessionSound(s)'
    BY <2>4, UntouchedSound
  <2>7. QED
    BY <2>3, <2>4, <2>5, <2>6 DEF IInv
<1>10. ASSUME NEW r \in pending, NEW target \in Users, NEW d \in Durations, NEW s \in Sessions,
              ImpersonationStart(r, target, d, s)
       PROVE  IInv'
  <2>1. r \in Request /\ RequestSound(r)
    BY <1>0 DEF TypeOK, IInv
  <2>2. /\ target \in Persons /\ r.subject \in Persons \cup {None} /\ r.subject # None
        /\ r.assurance \in Assurance /\ r.by \in Holder
    BY <2>1, SessionsAssumption DEF Request, Persons
  <2>3. now \in Nat /\ d \in Int /\ d <= ImpersonationMax /\ ImpersonationMax \in Nat
    BY <1>0, <1>10, SessionsAssumption DEF TypeOK, ImpersonationStart, DurationAllowed
  <2>4. now + d \in Int /\ (now + d) - now <= ImpersonationMax
    BY <2>3
  <2>5. Issue(s, target, r.subject, r.assurance, now + d, r.by) /\ ended' = ended
    BY <1>10 DEF ImpersonationStart
  <2>6. \A t \in Sessions : SessionSound(t)'
    BY <2>1, <2>2, <2>4, <2>5, IssueSound DEF RequestSound
  <2>7. TypeOK'
    BY <1>0, <1>10, <2>2, <2>4, <2>5, IssueStep DEF TypeOK, ImpersonationStart
  <2>8. QED
    BY <1>10, <2>6, <2>7 DEF IInv, ImpersonationStart
<1>11. ASSUME UNCHANGED <<session, bearer, pending, ended>>,
              now' \in 0..MaxTime, active' \subseteq Users, policy' \in Policies
       PROVE  IInv'
  <2>1. TypeOK'
    BY <1>0, <1>11 DEF TypeOK, Exists, Newest
  <2>2. \A s \in Sessions : SessionSound(s)'
    BY <1>11, UntouchedSound
  <2>3. QED
    BY <1>11, <2>1, <2>2 DEF IInv
<1>12. ASSUME NEW u \in Users, UserStateChange(u) PROVE IInv'
  BY <1>0, <1>11, <1>12 DEF TypeOK, UserStateChange
<1>13. ASSUME NEW p \in Policies, PolicySet(p) PROVE IInv'
  BY <1>0, <1>11, <1>13 DEF TypeOK, PolicySet
<1>14. CASE Tick
  BY <1>0, <1>11, <1>14, SessionsAssumption DEF TypeOK, Tick
<1>15. CASE UNCHANGED vars
  BY <1>0, <1>11, <1>15 DEF TypeOK, vars
<1>16. QED
  BY <1>1, <1>2, <1>3, <1>4, <1>5, <1>6, <1>7, <1>8, <1>9, <1>10, <1>12, <1>13, <1>14, <1>15
     DEF Next

-----------------------------------------------------------------------------

LEMMA IInvInductive == Spec => []IInv
<1>1. Init => IInv
  BY InitIInv
<1>2. IInv /\ [Next]_vars => IInv'
  BY IInvStep
<1>3. QED
  BY <1>1, <1>2, PTL DEF Spec

\* The state is always typed.
THEOREM TypeCorrect == Spec => []TypeOK
<1>1. IInv => TypeOK
  BY DEF IInv
<1>2. QED
  BY <1>1, IInvInductive, PTL

\* Who holds a session's credential is the person its row names.
THEOREM Traceable == Spec => []EverySessionIsTraceable
<1>1. IInv => EverySessionIsTraceable
  BY DEF IInv, SessionSound, RowSound, EverySessionIsTraceable
<1>2. QED
  BY <1>1, IInvInductive, PTL

\* Nobody holds a credential of an assurance it has not shown.
THEOREM Proved == Spec => []AssuranceIsProved
<1>1. IInv => AssuranceIsProved
  BY DEF IInv, SessionSound, RowSound, AssuranceIsProved
<1>2. QED
  BY <1>1, IInvInductive, PTL

\* Impersonations are short under any rotation, resume and policy.
THEOREM Short == Spec => []ImpersonationIsShort
<1>1. IInv => ImpersonationIsShort
  BY DEF IInv, SessionSound, RowSound, ImpersonationIsShort
<1>2. QED
  BY <1>1, IInvInductive, PTL

\* The end of an impersonation is recorded at most once.
THEOREM EndedOnce == Spec => []ImpersonationEndedOnce
<1>1. IInv => ImpersonationEndedOnce
  <2> SUFFICES ASSUME IInv, NEW s \in Sessions
               PROVE  ended[s] <= 1 /\ (ended[s] = 1 => Exists(s) /\ session[s].revoked)
    BY DEF ImpersonationEndedOnce
  <2>1. CASE Exists(s)
    BY <2>1 DEF IInv, SessionSound, RowSound
  <2>2. CASE ~Exists(s)
    BY <2>2 DEF IInv, SessionSound
  <2>3. QED
    BY <2>1, <2>2
<1>2. QED
  BY <1>1, IInvInductive, PTL

\* What a step may do to a session that exists already: nothing to one that is
\* revoked, and to none more than it was issued for.
LEMMA SessionStep ==
    ASSUME TypeOK, [Next]_vars, NEW s \in Sessions, Exists(s)
    PROVE  /\ session[s].revoked => session'[s] = session[s] /\ bearer'[s] = bearer[s]
           /\ session'[s].expiresAt <= session[s].expiresAt
<1> DEFINE Kept == session'[s] = session[s] /\ bearer'[s] = bearer[s]
           Revoked == /\ ~session[s].revoked
                      /\ session'[s] = [session[s] EXCEPT !.revoked = TRUE]
           Goal == /\ session[s].revoked => Kept
                   /\ session'[s].expiresAt <= session[s].expiresAt
<1> SUFFICES Goal
  OBVIOUS
<1>0. session[s] \in SessionRow /\ session[s].expiresAt \in Nat
  BY DEF TypeOK, Exists, SessionRow
<1>1. Kept => Goal
  BY <1>0
<1>2. Revoked => Goal
  BY <1>0 DEF SessionRow
<1>3. ASSUME NEW t \in Sessions, NEW p, NEW i, NEW a, NEW e, NEW h, Issue(t, p, i, a, e, h)
      PROVE  Goal
  <2>1. t # s
    BY <1>3 DEF Issue
  <2>2. QED
    BY <1>1, <1>3, <2>1 DEF Issue, Credential, TypeOK
<1>4. ASSUME NEW t \in Sessions, NEW g \in 1..Newest(t), Rotate(t, g) PROVE Goal
  BY <1>0, <1>4 DEF Rotate, Authenticates, Live, Unrevoked, Credential, TypeOK
<1>5. ASSUME NEW t \in Sessions, NEW g \in 1..Newest(t), StepUp(t, g) PROVE Goal
  <2>1. CASE t = s
    BY <1>0, <1>5, <2>1 DEF StepUp, Live, Unrevoked, TypeOK, SessionRow
  <2>2. CASE t # s
    BY <1>1, <1>5, <2>2 DEF StepUp, Credential, TypeOK
  <2>3. QED
    BY <2>1, <2>2
<1>6. ASSUME NEW c \in Sessions, NEW g \in 1..Newest(c), NEW t \in Sessions, RecentResume(c, g, t)
      PROVE  Goal
  <2>1. CASE t = s
    <3>1. session'[s] = [session[s] EXCEPT !.expiresAt = ResumedExpiry(s)]
      BY <1>6, <2>1 DEF RecentResume, TypeOK
    <3>2. ResumedExpiry(s) <= session[s].expiresAt /\ ~session[s].revoked
      BY <1>0, <1>6, <2>1, SessionsAssumption
         DEF ResumedExpiry, Smaller, RecentResume, Resumable, Live, Unrevoked, TypeOK, PolicyRow
    <3>3. QED
      BY <1>0, <3>1, <3>2 DEF SessionRow
  <2>2. CASE t # s
    BY <1>1, <1>6, <2>2 DEF RecentResume, Credential, TypeOK
  <2>3. QED
    BY <2>1, <2>2
<1>7. ASSUME NEW t \in Sessions, Unrevoked(t), bearer' = bearer,
             session' = [session EXCEPT ![t].revoked = TRUE]
      PROVE  Goal
  <2>1. CASE t = s
    BY <1>2, <1>7, <2>1 DEF Unrevoked, TypeOK
  <2>2. CASE t # s
    BY <1>1, <1>7, <2>2 DEF TypeOK
  <2>3. QED
    BY <2>1, <2>2
<1>8. ASSUME NEW c \in Sessions, NEW g \in 1..Newest(c), NEW t \in Sessions,
             Revoke(c, g, t) \/ ImpersonationEnd(c, g, t)
      PROVE  Goal
  BY <1>7, <1>8 DEF Revoke, ImpersonationEnd, Endable, Unrevoked
<1>9. ASSUME NEW c \in Sessions, NEW keepCurrent \in BOOLEAN, RevokeAll(c, keepCurrent)
      PROVE  Goal
  <2>1. Kept \/ Revoked
    BY <1>9 DEF RevokeAll, Unrevoked
  <2>2. QED
    BY <1>1, <1>2, <2>1
<1>10. ASSUME UNCHANGED <<session, bearer>> PROVE Goal
  BY <1>1, <1>10
<1>11. CASE \E t \in Sessions, p \in Persons, a \in Assurance : SignIn(t, p, a)
  BY <1>3, <1>11 DEF SignIn
<1>12. CASE \E r \in pending, target \in Users, d \in Durations, t \in Sessions :
              ImpersonationStart(r, target, d, t)
  BY <1>3, <1>12 DEF ImpersonationStart
<1>13. CASE \/ \E c \in Sessions : \E g \in 1..Newest(c) : Admit(c, g)
            \/ \E u \in Users : UserStateChange(u)
            \/ \E p \in Policies : PolicySet(p)
            \/ Tick
            \/ UNCHANGED vars
  BY <1>10, <1>13 DEF Admit, UserStateChange, PolicySet, Tick, vars
<1> HIDE DEF Goal
<1>14. ASSUME NEW c \in Sessions, NEW g \in 1..Newest(c),
              \/ Rotate(c, g)
              \/ StepUp(c, g)
              \/ \E t \in Sessions : \/ RecentResume(c, g, t)
                                     \/ Revoke(c, g, t)
                                     \/ ImpersonationEnd(c, g, t)
              \/ Admit(c, g)
       PROVE  Goal
  <2>1. CASE Rotate(c, g)
    BY <1>4, <2>1
  <2>2. CASE StepUp(c, g)
    BY <1>5, <2>2
  <2>3. ASSUME NEW t \in Sessions, RecentResume(c, g, t) PROVE Goal
    BY <1>6, <2>3
  <2>4. ASSUME NEW t \in Sessions, Revoke(c, g, t) \/ ImpersonationEnd(c, g, t) PROVE Goal
    BY <1>8, <2>4
  <2>5. CASE Admit(c, g)
    BY <1>13, <2>5
  <2>6. QED
    BY <1>14, <2>1, <2>2, <2>3, <2>4, <2>5
<1>15. CASE \E t \in Sessions : OidcLogout(t)
  BY <1>7, <1>15 DEF OidcLogout
<1>16. CASE \E c \in Sessions, keepCurrent \in BOOLEAN : RevokeAll(c, keepCurrent)
  BY <1>9, <1>16
<1>17. QED
  BY <1>11, <1>12, <1>13, <1>14, <1>15, <1>16 DEF Next

\* A revoked session is what it was for ever.
THEOREM Frozen == Spec => RevokedSessionIsFrozen
<1>1. TypeOK /\ [Next]_vars =>
        [\A s \in Sessions : Exists(s) /\ session[s].revoked =>
            session'[s] = session[s] /\ bearer'[s] = bearer[s]]_vars
  BY SessionStep
<1>2. QED
  BY <1>1, TypeCorrect, PTL DEF Spec, RevokedSessionIsFrozen

\* Nothing prolongs a session.
THEOREM NeverExtended == Spec => LifetimeNeverExtended
<1>1. TypeOK /\ [Next]_vars =>
        [\A s \in Sessions : Exists(s) => session'[s].expiresAt <= session[s].expiresAt]_vars
  BY SessionStep
<1>2. QED
  BY <1>1, TypeCorrect, PTL DEF Spec, LifetimeNeverExtended

-----------------------------------------------------------------------------
(* The sessions table implements SessionLife.                              *)

LifeOf(s) ==
    [owner |-> session[s].subject, expiresAt |-> session[s].expiresAt,
     revoked |-> session[s].revoked]

LifeStep == Life!LifeNext \/ (now' = now /\ lifeMap' = lifeMap)

\* Steps that change nothing of a session but its assurance are no steps of its life.
LEMMA LifeUntouched ==
    ASSUME \A s \in Sessions : /\ Exists(s)' <=> Exists(s)
                               /\ Exists(s) => LifeOf(s)' = LifeOf(s)
    PROVE  lifeMap' = lifeMap
<1>1. Existing' = Existing
  BY DEF Existing
<1>2. \A s \in Existing : LifeOf(s)' = LifeOf(s)
  BY DEF Existing
<1> QED
  BY <1>1, <1>2 DEF lifeMap, LifeOf

LEMMA IssueBeginsLife ==
    ASSUME TypeOK, now' = now, NEW s \in Sessions, NEW p \in Persons, NEW i \in Persons \cup {None},
           NEW a \in Assurance, NEW lifetime \in Lifetimes, NEW h \in Holder,
           Issue(s, p, i, a, now + lifetime, h)
    PROVE  LifeStep
<1> DEFINE e == now + lifetime
<1>1. e \in Int
  <2>1. lifetime \in Int
    <3>1. CASE lifetime \in Durations
      BY <3>1, SessionsAssumption
    <3>2. ASSUME NEW q \in Policies, lifetime = q.lifetime PROVE lifetime \in Int
      BY <3>2, SessionsAssumption DEF PolicyRow
    <3> QED
      BY <3>1, <3>2 DEF Lifetimes
  <2>2. now \in Int
    BY SessionsAssumption DEF TypeOK
  <2> QED
    BY <2>1, <2>2
<1>2. /\ Exists(s)' /\ ~Exists(s)
      /\ session'[s] = [subject |-> p, impersonator |-> i, assurance |-> a,
                        createdAt |-> now, expiresAt |-> e, revoked |-> FALSE]
      /\ \A t \in Sessions \ {s} : session'[t] = session[t]
  BY <1>1, IssueStep
<1>3. Existing' = Existing \cup {s} /\ s \notin Existing
  BY <1>2 DEF Existing, Exists
<1>4. LifeOf(s)' = Life!Entry(p, e, FALSE)
  BY <1>2 DEF LifeOf, Life!Entry
<1>5. \A t \in Existing : LifeOf(t)' = LifeOf(t)
  BY <1>2, <1>3 DEF LifeOf, Existing
<1>6. lifeMap = [t \in Existing |-> LifeOf(t)] /\ lifeMap' = [t \in Existing' |-> LifeOf(t)']
  BY DEF lifeMap, LifeOf
<1>7. lifeMap' = [t \in Existing \cup {s} |-> IF t = s THEN Life!Entry(p, e, FALSE) ELSE lifeMap[t]]
  BY <1>3, <1>4, <1>5, <1>6
<1>8. DOMAIN lifeMap = Existing
  BY <1>6
<1>9. Life!LifeBegins(s, p, lifetime)
  BY <1>3, <1>7, <1>8 DEF Life!LifeBegins, Life!Begun
<1> QED
  BY <1>9 DEF LifeStep, Life!LifeNext

LEMMA ResumeShortensLife ==
    ASSUME TypeOK, NEW c \in Sessions, NEW g \in 1..Newest(c), NEW s \in Sessions,
           RecentResume(c, g, s)
    PROVE  LifeStep
<1>1. Live(s) /\ now' = now /\ session' = [session EXCEPT ![s].expiresAt = ResumedExpiry(s)]
  BY DEF RecentResume, Resumable
<1>2. session[s] \in SessionRow /\ session[s] # None /\ ~session[s].revoked
      /\ session[s].expiresAt > now
  BY <1>1 DEF TypeOK, Live, Unrevoked, Exists
<1>3. PICK lifetime \in Lifetimes : lifetime = policy.lifetime
  BY DEF TypeOK, Lifetimes
<1>4. session'[s] = [session[s] EXCEPT !.expiresAt = ResumedExpiry(s)]
      /\ \A t \in Sessions \ {s} : session'[t] = session[t]
  BY <1>1 DEF TypeOK
<1>5. ResumedExpiry(s) \in Nat
  BY <1>2, SessionsAssumption DEF ResumedExpiry, Smaller, TypeOK, SessionRow, PolicyRow
<1>6. session'[s] \in SessionRow /\ session'[s] # None
  <2>1. session'[s] \in SessionRow
    BY <1>2, <1>4, <1>5 DEF SessionRow
  <2> QED
    BY <2>1, NoneAssumption
<1>7. Existing' = Existing /\ s \in Existing
  BY <1>2, <1>4, <1>6 DEF Existing, Exists
<1>8. ResumedExpiry(s) = Life!Earlier(session[s].expiresAt, now + lifetime)
  BY <1>3 DEF ResumedExpiry, Smaller, Life!Earlier
<1>9. LifeOf(s)' = Life!Entry(LifeOf(s).owner, Life!Earlier(LifeOf(s).expiresAt, now + lifetime), FALSE)
  BY <1>2, <1>4, <1>8 DEF LifeOf, Life!Entry, SessionRow
<1>10. \A t \in Existing \ {s} : LifeOf(t)' = LifeOf(t)
  BY <1>4 DEF LifeOf, Existing
<1>11. lifeMap = [t \in Existing |-> LifeOf(t)] /\ lifeMap' = [t \in Existing' |-> LifeOf(t)']
  BY DEF lifeMap, LifeOf
<1>12. lifeMap[s] = LifeOf(s) /\ DOMAIN lifeMap = Existing
  BY <1>7, <1>11
<1>13. Life!Lives(s)
  BY <1>2, <1>12 DEF Life!Lives, LifeOf
<1>14. lifeMap' = [t \in Existing |->
          IF t = s
          THEN Life!Entry(lifeMap[t].owner, Life!Earlier(lifeMap[t].expiresAt, now + lifetime), FALSE)
          ELSE lifeMap[t]]
  BY <1>7, <1>9, <1>10, <1>11, <1>12
<1>15. Life!LifeIsShortened(s, lifetime)
  BY <1>1, <1>7, <1>12, <1>13, <1>14 DEF Life!LifeIsShortened, Life!Begun
<1> QED
  BY <1>3, <1>15 DEF LifeStep, Life!LifeNext

LEMMA RevocationEndsLives ==
    ASSUME TypeOK, now' = now, NEW S \in SUBSET Sessions, \A s \in S : Unrevoked(s),
           session' = [s \in Sessions |-> IF s \in S THEN [session[s] EXCEPT !.revoked = TRUE]
                                          ELSE session[s]]
    PROVE  LifeStep
<1>1. \A s \in S : session[s] \in SessionRow /\ session[s] # None /\ ~session[s].revoked
  BY DEF TypeOK, Unrevoked, Exists
<1>2. ASSUME NEW s \in S
      PROVE  session'[s] # None /\ LifeOf(s)' = Life!Entry(LifeOf(s).owner, LifeOf(s).expiresAt, TRUE)
  <2>1. session'[s] = [session[s] EXCEPT !.revoked = TRUE]
    OBVIOUS
  <2>2. session'[s] \in SessionRow
    BY <1>1, <2>1 DEF SessionRow
  <2> QED
    BY <1>1, <2>1, <2>2, NoneAssumption DEF LifeOf, Life!Entry, SessionRow
<1>3. \A s \in Sessions \ S : session'[s] = session[s]
  OBVIOUS
<1>4. Existing' = Existing /\ S \subseteq Existing
  BY <1>1, <1>2, <1>3 DEF Existing, Exists
<1>5. \A t \in Existing \ S : LifeOf(t)' = LifeOf(t)
  BY <1>3 DEF LifeOf, Existing
<1>6. lifeMap = [t \in Existing |-> LifeOf(t)] /\ lifeMap' = [t \in Existing' |-> LifeOf(t)']
  BY DEF lifeMap, LifeOf
<1>7. DOMAIN lifeMap = Existing /\ \A t \in Existing : lifeMap[t] = LifeOf(t)
  BY <1>6
<1>8. lifeMap' = [t \in Existing |->
          IF t \in S THEN Life!Entry(lifeMap[t].owner, lifeMap[t].expiresAt, TRUE) ELSE lifeMap[t]]
  BY <1>2, <1>4, <1>5, <1>6, <1>7
<1>9. \A s \in S : ~lifeMap[s].revoked
  BY <1>1, <1>4, <1>7 DEF LifeOf
<1>10. Life!LivesAreRevoked(S)
  BY <1>7, <1>8, <1>9 DEF Life!LivesAreRevoked, Life!Begun
<1> QED
  BY <1>4, <1>7, <1>10 DEF LifeStep, Life!LifeNext, Life!Begun

LEMMA OneRevocationEndsLife ==
    ASSUME TypeOK, now' = now, NEW s \in Sessions, Unrevoked(s),
           session' = [session EXCEPT ![s].revoked = TRUE]
    PROVE  LifeStep
<1>1. session' = [t \in Sessions |-> IF t \in {s} THEN [session[t] EXCEPT !.revoked = TRUE]
                                     ELSE session[t]]
  BY DEF TypeOK
<1> QED
  BY <1>1, RevocationEndsLives

LEMMA LifeSteps ==
    ASSUME TypeOK, [Next]_vars
    PROVE  LifeStep
<1>1. ASSUME NEW s \in Sessions, NEW p \in Persons, NEW a \in Assurance, SignIn(s, p, a)
      PROVE  LifeStep
  <2>1. policy.lifetime \in Lifetimes /\ [person |-> p, proved |-> a] \in Holder
    BY DEF TypeOK, Lifetimes, Holder
  <2> QED
    BY <1>1, <2>1, IssueBeginsLife DEF SignIn
<1>2. ASSUME NEW r \in pending, NEW target \in Users, NEW d \in Durations, NEW s \in Sessions,
             ImpersonationStart(r, target, d, s)
      PROVE  LifeStep
  <2>1. d \in Lifetimes /\ target \in Persons
    BY <1>2 DEF ImpersonationStart, Lifetimes, Persons
  <2>2. r.subject \in Persons \cup {None} /\ r.assurance \in Assurance /\ r.by \in Holder
    BY DEF TypeOK, Request
  <2>3. now' = now /\ Issue(s, target, r.subject, r.assurance, now + d, r.by)
    BY <1>2 DEF ImpersonationStart
  <2> DEFINE i == r.subject
             a == r.assurance
             h == r.by
  <2> HIDE DEF i, a, h
  <2>4. i \in Persons \cup {None} /\ a \in Assurance /\ h \in Holder /\ Issue(s, target, i, a, now + d, h)
    BY <2>2, <2>3 DEF i, a, h
  <2> QED
    BY <2>1, <2>3, <2>4, IssueBeginsLife
<1>3. ASSUME NEW c \in Sessions, NEW g \in 1..Newest(c), StepUp(c, g)
      PROVE  LifeStep
  <2>1. session[c] \in SessionRow /\ session[c] # None
    BY <1>3 DEF TypeOK, StepUp, Live, Unrevoked, Exists
  <2> DEFINE row == [session[c] EXCEPT !.assurance = MultiFactor, !.createdAt = now]
  <2>2. row \in SessionRow /\ row.subject = session[c].subject
        /\ row.expiresAt = session[c].expiresAt /\ row.revoked = session[c].revoked
    <3>1. MultiFactor \in Assurance /\ now \in Nat
      BY SessionsAssumption DEF TypeOK, Assurance
    <3> QED
      BY <2>1, <3>1 DEF SessionRow
  <2>3. session' = [session EXCEPT ![c] = row]
    BY <1>3 DEF StepUp, TypeOK
  <2> HIDE DEF row
  <2>4. session'[c] = row /\ \A t \in Sessions \ {c} : session'[t] = session[t]
    BY <2>3 DEF TypeOK
  <2>5. row # None
    BY <2>2, NoneAssumption
  <2>6. \A t \in Sessions : /\ Exists(t)' <=> Exists(t)
                            /\ Exists(t) => LifeOf(t)' = LifeOf(t)
    BY <2>1, <2>2, <2>4, <2>5 DEF Exists, LifeOf
  <2> QED
    BY <1>3, <2>6, LifeUntouched DEF LifeStep, StepUp
<1>4. ASSUME NEW c \in Sessions, NEW g \in 1..Newest(c), NEW s \in Sessions,
             Revoke(c, g, s) \/ ImpersonationEnd(c, g, s)
      PROVE  LifeStep
  BY <1>4, OneRevocationEndsLife DEF Revoke, ImpersonationEnd, Endable, Unrevoked
<1>5. ASSUME NEW s \in Sessions, OidcLogout(s)
      PROVE  LifeStep
  BY <1>5, OneRevocationEndsLife DEF OidcLogout
<1>6. ASSUME NEW c \in Sessions, NEW keepCurrent \in BOOLEAN, RevokeAll(c, keepCurrent)
      PROVE  LifeStep
  <2> DEFINE S == {s \in Sessions : /\ Unrevoked(s) /\ session[s].subject = session[c].subject
                                    /\ ~(keepCurrent /\ s = c)}
  <2>1. now' = now /\ session' = [s \in Sessions |-> IF s \in S
          THEN [session[s] EXCEPT !.revoked = TRUE] ELSE session[s]]
    BY <1>6 DEF RevokeAll
  <2>2. S \in SUBSET Sessions /\ \A s \in S : Unrevoked(s)
    OBVIOUS
  <2> HIDE DEF S
  <2> QED
    BY <2>1, <2>2, RevocationEndsLives
<1>7. ASSUME now' = now, session' = session PROVE LifeStep
  BY <1>7, LifeUntouched DEF LifeStep, Exists, LifeOf
<1>8. CASE \/ \E c \in Sessions : \E g \in 1..Newest(c) : Rotate(c, g) \/ Admit(c, g)
           \/ \E u \in Users : UserStateChange(u)
           \/ \E p \in Policies : PolicySet(p)
           \/ UNCHANGED vars
  BY <1>7, <1>8 DEF Rotate, Admit, UserStateChange, PolicySet, vars
<1>9. CASE Tick
  <2>1. lifeMap' = lifeMap
    BY <1>9, LifeUntouched DEF Tick, Exists, LifeOf
  <2> QED
    BY <1>9, <2>1 DEF Tick, LifeStep, Life!LifeNext, Life!LifePasses
<1>10. ASSUME NEW c \in Sessions, NEW g \in 1..Newest(c),
              \/ StepUp(c, g)
              \/ \E s \in Sessions : \/ RecentResume(c, g, s)
                                     \/ Revoke(c, g, s)
                                     \/ ImpersonationEnd(c, g, s)
       PROVE  LifeStep
  BY <1>3, <1>4, <1>10, ResumeShortensLife
<1> QED
  BY <1>1, <1>2, <1>5, <1>6, <1>8, <1>9, <1>10 DEF Next

\* The rest of the service may take a session for what SessionLife says: no
\* sign-in, resume, step-up or impersonation revives, prolongs or reassigns one.
THEOREM SessionsImplementLife == Spec => ImplementsSessionLife
<1>1. Init => Life!LifeInit
  <2> SUFFICES ASSUME Init PROVE Life!LifeInit
    OBVIOUS
  <2>1. Existing = {} /\ now = 0
    BY DEF Init, Existing, Exists
  <2>2. lifeMap = [s \in {} |-> 0]
    BY <2>1 DEF lifeMap
  <2> QED
    BY <2>1, <2>2 DEF Life!LifeInit
<1>2. TypeOK /\ [Next]_vars => [Life!LifeNext]_(Life!lifeVars)
  BY LifeSteps DEF LifeStep, Life!lifeVars
<1> QED
  BY <1>1, <1>2, TypeCorrect, PTL DEF Spec, ImplementsSessionLife, Life!LifeSpec
=============================================================================
