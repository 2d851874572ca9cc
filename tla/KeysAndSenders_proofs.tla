----------------------- MODULE KeysAndSenders_proofs ------------------------
(***************************************************************************)
(* Proofs about the two parts of the service that announce what others     *)
(* rely on and that act without a request: SigningKeys, for any number of  *)
(* keys and any lifetimes, so long as no token may outlive the grace of a  *)
(* retired key, and WahaHealth, for any gateways, deliveries, time to live *)
(* and restarts.                                                           *)
(*                                                                         *)
(* A row of WahaHealth is sound by itself (SoundRow): what is left of its  *)
(* time and the age of the answer it rests on add up to the time to live at*)
(* most.  That, and not the serving rows alone, is what the clock keeps.   *)
(***************************************************************************)
EXTENDS SigningKeys, WahaHealth, TLAPS

-----------------------------------------------------------------------------
(* Signing keys.                                                           *)

Change == [Next]_vars

\* What the JWKS owes its readers: a key's tokens end within a token lifetime of
\* the last moment at which the key was active.
EndsInTime ==
    \A k \in Keys \ removed :
        /\ lastEnd[k] > 0 => k \in Rows
        /\ k \in Active => lastEnd[k] <= now + MaxLifetime
        /\ k \in Retired => lastEnd[k] <= key[k].retiredAt + MaxLifetime

IInv == TypeOK /\ OneActiveKey /\ EndsInTime

LEMMA NoneFacts == \A r \in Row : r # None
  BY NoneIsNoRow

\* A key is absent, active or retired, and a retired row is dated.
LEMMA RowCases ==
  ASSUME TypeOK, NEW k \in Keys
  PROVE  /\ key[k] = None \/ k \in Active \/ k \in Retired
         /\ k \in Active => k \notin Retired /\ key[k] # None
         /\ k \in Retired => key[k] # None /\ key[k].retiredAt \in Nat
         /\ key[k] # None => key[k].createdAt \in Nat
  BY NoneFacts DEF TypeOK, Row, Active, Retired, Rows

LEMMA NewRows ==
  ASSUME TypeOK
  PROVE  /\ NewRow \in Row
         /\ NewRow.status = "active"
         /\ \A k \in Active : /\ RetiredRow(k) \in Row
                              /\ RetiredRow(k).status = "retired"
                              /\ RetiredRow(k).retiredAt = now
<1>1. NewRow \in Row
  BY DEF NewRow, Row, TypeOK
<1>2. ASSUME NEW k \in Active PROVE RetiredRow(k) \in Row
  BY <1>2, RowCases DEF RetiredRow, Row, TypeOK, Active, Rows
<1> QED
  BY <1>1, <1>2 DEF NewRow, RetiredRow

LEMMA InitIInv == Init => IInv
  BY SigningKeysAssumption
     DEF Init, IInv, TypeOK, OneActiveKey, EndsInTime, Active, Retired, Rows

\* The steps that leave the table alone, or add to lastEnd only.
LEMMA TickStep == IInv /\ Tick => IInv'
<1> SUFFICES ASSUME IInv, Tick PROVE IInv'
  OBVIOUS
<1>1. TypeOK' /\ OneActiveKey'
  BY DEF IInv, Tick, TypeOK, OneActiveKey, Active, Rows
<1>2. EndsInTime'
  <2> SUFFICES ASSUME NEW k \in Keys \ removed
               PROVE  /\ lastEnd[k] > 0 => k \in Rows
                      /\ k \in Active => lastEnd[k] <= now + 1 + MaxLifetime
                      /\ k \in Retired => lastEnd[k] <= key[k].retiredAt + MaxLifetime
    BY DEF EndsInTime, Tick, Active, Retired, Rows
  <2> QED
    BY SigningKeysAssumption DEF IInv, EndsInTime, TypeOK
<1> QED
  BY <1>1, <1>2 DEF IInv

LEMMA RealmStep ==
  ASSUME IInv, NEW s \in {"active", "inactive"}, RealmUpdate(s)
  PROVE  IInv'
<1>1. TypeOK' /\ OneActiveKey'
  BY DEF IInv, RealmUpdate, TypeOK, OneActiveKey, Active, Rows
<1>2. EndsInTime'
  BY DEF IInv, RealmUpdate, EndsInTime, Active, Retired, Rows
<1> QED
  BY <1>1, <1>2 DEF IInv

LEMMA IssueStep ==
  ASSUME IInv, NEW k \in Keys, NEW lifetime \in Lifetimes, TokenIssue(k, lifetime)
  PROVE  IInv'
<1> DEFINE end == Larger(lastEnd[k], now + Smaller(lifetime, MaxLifetime))
<1>1. /\ end \in Nat
      /\ lastEnd[k] <= now + MaxLifetime => end <= now + MaxLifetime
  BY SigningKeysAssumption DEF IInv, TypeOK, Larger, Smaller
<1>2. /\ lastEnd' = [lastEnd EXCEPT ![k] = end]
      /\ UNCHANGED <<now, realm, key, removed>>
  BY DEF TokenIssue
<1>3. k \in Active /\ k \in Rows /\ k \notin Retired
  BY RowCases DEF TokenIssue, IInv, Active
<1> HIDE DEF end
<1>4. TypeOK' /\ OneActiveKey'
  BY <1>1, <1>2 DEF IInv, TypeOK, OneActiveKey, Active, Rows
<1>5. EndsInTime'
  <2> SUFFICES ASSUME NEW j \in Keys \ removed
               PROVE  /\ lastEnd'[j] > 0 => j \in Rows
                      /\ j \in Active => lastEnd'[j] <= now + MaxLifetime
                      /\ j \in Retired => lastEnd'[j] <= key[j].retiredAt + MaxLifetime
    BY <1>2 DEF EndsInTime, Active, Retired, Rows
  <2>1. CASE j = k
    BY <2>1, <1>1, <1>2, <1>3 DEF IInv, EndsInTime, TypeOK
  <2>2. CASE j # k
    BY <2>2, <1>2 DEF IInv, EndsInTime, TypeOK
  <2> QED
    BY <2>1, <2>2
<1> QED
  BY <1>4, <1>5 DEF IInv

\* What creating and retiring have in common: in the new table every key keeps
\* its row, is retired now, or is new.
Rewritten ==
    /\ UNCHANGED <<now, realm, lastEnd, removed>>
    /\ key' \in [Keys -> Row \cup {None}]
    /\ \A j \in Keys : \/ key'[j] = key[j]
                       \/ j \in Active /\ key'[j] = RetiredRow(j)
                       \/ Fresh(j) /\ key'[j] = NewRow

LEMMA RewrittenStep ==
  ASSUME IInv, Rewritten
  PROVE  TypeOK' /\ EndsInTime'
<1>1. TypeOK'
  BY DEF IInv, Rewritten, TypeOK
<1>2. EndsInTime'
  <2> SUFFICES ASSUME NEW j \in Keys \ removed
               PROVE  /\ lastEnd[j] > 0 => key'[j] # None
                      /\ key'[j] # None /\ key'[j].status = "active"
                            => lastEnd[j] <= now + MaxLifetime
                      /\ key'[j] # None /\ key'[j].status = "retired"
                            => lastEnd[j] <= key'[j].retiredAt + MaxLifetime
    BY DEF Rewritten, EndsInTime, Active, Retired, Rows
  <2>1. CASE key'[j] = key[j]
    BY <2>1 DEF IInv, EndsInTime, Active, Retired, Rows
  <2>2. CASE j \in Active /\ key'[j] = RetiredRow(j)
    BY <2>2, NewRows, NoneFacts DEF IInv, EndsInTime
  <2>3. CASE Fresh(j) /\ key'[j] = NewRow
    <3>1. ~(lastEnd[j] > 0) /\ lastEnd[j] \in Nat
      BY <2>3 DEF IInv, EndsInTime, Fresh, Rows, TypeOK
    <3>2. now + MaxLifetime \in Nat
      BY SigningKeysAssumption DEF IInv, TypeOK
    <3> QED
      BY <2>3, <3>1, <3>2, NewRows, NoneFacts DEF IInv
  <2> QED
    BY <2>1, <2>2, <2>3 DEF Rewritten
<1> QED
  BY <1>1, <1>2

LEMMA CreateStep ==
  ASSUME IInv, NEW k \in Keys, SigningKeyCreate(k)
  PROVE  Rewritten /\ OneActiveKey'
<1>1. Rewritten
  BY NewRows DEF Rewritten, SigningKeyCreate, IInv, TypeOK
<1>2. ASSUME NEW j \in Keys, j # k PROVE j \notin Active'
  <2>1. key'[j] = IF j \in Active THEN RetiredRow(j) ELSE key[j]
    BY <1>2 DEF SigningKeyCreate
  <2> QED
    BY <2>1, NewRows DEF IInv, Active, Rows
<1> QED
  BY <1>1, <1>2 DEF OneActiveKey, Active, Rows

LEMMA EnsureStep ==
  ASSUME IInv, NEW k \in Keys, SigningKeyEnsureActive(k)
  PROVE  Rewritten /\ OneActiveKey'
<1>1. Rewritten
  BY NewRows DEF Rewritten, SigningKeyEnsureActive, IInv, TypeOK
<1>2. ASSUME NEW j \in Keys, j # k PROVE j \notin Active'
  BY <1>2 DEF SigningKeyEnsureActive, IInv, TypeOK, Active, Rows
<1> QED
  BY <1>1, <1>2 DEF OneActiveKey, Active, Rows

LEMMA LifecycleStep ==
  ASSUME IInv, NEW k \in Keys, SigningKeyLifecycleSet(k)
  PROVE  Rewritten /\ OneActiveKey'
<1>1. Rewritten
  BY NewRows DEF Rewritten, SigningKeyLifecycleSet, IInv, TypeOK
<1>2. ASSUME NEW j \in Active' PROVE j \in Active
  BY <1>2, NewRows DEF SigningKeyLifecycleSet, IInv, TypeOK, Active, Rows
<1> QED
  BY <1>1, <1>2 DEF OneActiveKey, IInv

LEMMA DeleteStep ==
  ASSUME IInv, NEW k \in Keys, SigningKeyDelete(k)
  PROVE  IInv'
<1>1. TypeOK'
  BY DEF IInv, SigningKeyDelete, TypeOK
<1>2. ASSUME NEW j \in Keys, j # k PROVE key'[j] = key[j]
  BY <1>2 DEF IInv, SigningKeyDelete, TypeOK
<1>3. k \in removed' /\ key'[k] = None
  BY DEF IInv, SigningKeyDelete, TypeOK
<1>4. OneActiveKey'
  BY <1>2, <1>3 DEF IInv, OneActiveKey, Active, Rows
<1>5. EndsInTime'
  <2> SUFFICES ASSUME NEW j \in Keys \ removed'
               PROVE  /\ lastEnd[j] > 0 => j \in Rows'
                      /\ j \in Active' => lastEnd[j] <= now + MaxLifetime
                      /\ j \in Retired' => lastEnd[j] <= key'[j].retiredAt + MaxLifetime
    BY DEF EndsInTime, SigningKeyDelete
  <2>1. j # k /\ j \in Keys \ removed
    BY <1>3 DEF SigningKeyDelete
  <2> QED
    BY <2>1, <1>2 DEF IInv, EndsInTime, Active, Retired, Rows
<1> QED
  BY <1>1, <1>4, <1>5 DEF IInv

LEMMA Invariance == IInv /\ Change => IInv'
<1> SUFFICES ASSUME IInv, Change PROVE IInv'
  OBVIOUS
<1>1. CASE Tick
  BY <1>1, TickStep
<1>2. CASE \E s \in {"active", "inactive"} : RealmUpdate(s)
  BY <1>2, RealmStep
<1>3. CASE \E k \in Keys : SigningKeyCreate(k)
  BY <1>3, CreateStep, RewrittenStep DEF IInv
<1>4. CASE \E k \in Keys : SigningKeyEnsureActive(k)
  BY <1>4, EnsureStep, RewrittenStep DEF IInv
<1>5. CASE \E k \in Keys : SigningKeyLifecycleSet(k)
  BY <1>5, LifecycleStep, RewrittenStep DEF IInv
<1>6. CASE \E k \in Keys : SigningKeyDelete(k)
  BY <1>6, DeleteStep
<1>7. CASE \E k \in Keys, lifetime \in Lifetimes : TokenIssue(k, lifetime)
  BY <1>7, IssueStep
<1>8. CASE UNCHANGED vars
  BY <1>8 DEF vars, IInv, TypeOK, OneActiveKey, EndsInTime, Active, Retired, Rows
<1> QED
  BY <1>1, <1>2, <1>3, <1>4, <1>5, <1>6, <1>7, <1>8 DEF Change, Next

LEMMA Always == Spec => []IInv
  BY InitIInv, Invariance, PTL DEF Spec, Change

\* TypeOK: the handlers write rows of the schema only; a retired row is dated.
THEOREM TypeCorrect == Spec => []TypeOK
  BY Always, PTL DEF IInv

\* OneActiveKey: no order of the handlers leaves a realm with two active keys.
THEOREM OneActive == Spec => []OneActiveKey
  BY Always, PTL DEF IInv

LEMMA Covers == IInv => PublishedWhileValid
<1> SUFFICES ASSUME IInv, NEW k \in Keys \ removed, lastEnd[k] > now
             PROVE  Published(k)
  BY DEF PublishedWhileValid
<1>1. lastEnd[k] \in Nat /\ now \in Nat
  BY DEF IInv, TypeOK
<1>2. k \in Rows
  BY <1>1 DEF IInv, EndsInTime
<1>3. ASSUME k \in Retired PROVE key[k].retiredAt + Grace > now
  <2>1. lastEnd[k] <= key[k].retiredAt + MaxLifetime /\ key[k].retiredAt \in Nat
    BY <1>3, RowCases DEF IInv, EndsInTime
  <2> QED
    BY <2>1, <1>1, SigningKeysAssumption
<1> QED
  BY <1>2, <1>3 DEF Published

\* PublishedWhileValid: the grace of oidcJwksGet covers every token lifetime up
\* to the maximum, whenever the key was retired.
THEOREM Published24Hours == Spec => []PublishedWhileValid
  BY Always, Covers, PTL

LEMMA StaysWithdrawn ==
  ASSUME IInv, Change, NEW k \in Rows, ~Published(k)
  PROVE  ~Published(k)'
<1>1. /\ k \in Keys /\ k \in Retired /\ k \notin Active
      /\ now \in Nat /\ key[k].retiredAt \in Nat
      /\ key[k].retiredAt + Grace <= now
  BY RowCases, SigningKeysAssumption DEF Published, Rows, IInv, TypeOK, Retired
<1>2. now' \in Nat /\ now' >= now
  BY <1>1 DEF Change, Next, vars, Tick, RealmUpdate, SigningKeyCreate,
     SigningKeyEnsureActive, SigningKeyLifecycleSet, SigningKeyDelete, TokenIssue
<1>3. key'[k] = key[k] \/ key'[k] = None
  <2>1. ASSUME Rewritten PROVE key'[k] = key[k]
    BY <2>1, <1>1, RowCases DEF Rewritten, Fresh, IInv
  <2>2. ASSUME NEW j \in Keys, SigningKeyDelete(j) PROVE key'[k] = key[k] \/ key'[k] = None
    BY <2>2, <1>1 DEF SigningKeyDelete, IInv, TypeOK
  <2> QED
    BY <2>1, <2>2, CreateStep, EnsureStep, LifecycleStep
       DEF Change, Next, vars, Tick, RealmUpdate, TokenIssue
<1>4. CASE key'[k] = None
  BY <1>4 DEF Published, Rows
<1>5. CASE key'[k] = key[k]
  <2>1. key'[k].retiredAt + Grace <= now' /\ k \in Retired'
    BY <1>1, <1>2, <1>5, SigningKeysAssumption DEF Retired, Rows
  <2> QED
    BY <2>1, <1>1, <1>2, <1>5, SigningKeysAssumption DEF Published
<1> QED
  BY <1>3, <1>4, <1>5

\* WithdrawnForGood: a key that has left the JWKS stays out of it.
THEOREM Withdrawn == Spec => WithdrawnForGood
<1>1. IInv /\ Change => [\A k \in Rows : ~Published(k) => ~Published(k)']_vars
  BY StaysWithdrawn
<1> QED
  BY <1>1, Always, PTL DEF Spec, Change, WithdrawnForGood

-----------------------------------------------------------------------------
(* WhatsApp senders.                                                       *)

\* A row and the time since its sender was found working.
SoundRow(r, f) ==
    /\ r \in Candidate /\ f \in 0..Unknown
    /\ r.failure # "none" => ~r.healthy
    /\ r.healthy => f + r.left <= Ttl

RowsSound == \A c \in Senders : SoundRow(row[c], found[c])

TakenFailed == \A c \in taken : row[c].failure # "none"

SendersInv == WahaTypeOK /\ RowsSound /\ TakenFailed

\* What is not about rows: the configuration, the check and the deliveries.
Others ==
    /\ config \in Configurations
    /\ check \in Check \cup {Idle}
    /\ delivery \in [Deliveries -> Attempts \cup {Idle}]
    /\ taken \subseteq Senders
    /\ restarts \in 0..MaxRestarts

RowsTyped == row \in [Senders -> Candidate] /\ found \in [Senders -> 0..Unknown]

LEMMA SendersInvSplit == SendersInv <=> Others /\ RowsTyped /\ RowsSound /\ TakenFailed
  BY DEF SendersInv, WahaTypeOK, Others, RowsTyped

\* Every value that a row is given is sound.
LEMMA OutSound == \A f \in 0..Unknown : SoundRow(Out, f)
  BY WahaHealthAssumption DEF SoundRow, Out, Candidate, Unknown

LEMMA FailedSound ==
    /\ Failed.failure = "now"
    /\ \A f \in 0..Unknown : SoundRow(Failed, f)
  BY WahaHealthAssumption DEF SoundRow, Failed, Candidate, Unknown

LEMMA FoundSound ==
    ASSUME NEW elapsed \in 0..Ttl
    PROVE  SoundRow([healthy |-> TRUE, left |-> Ttl - elapsed, failure |-> "none"], 0)
  BY WahaHealthAssumption DEF SoundRow, Candidate, Unknown

\* One unit of time takes from what is left what it adds to the age.
LEMMA AgedSound ==
    ASSUME NEW r, NEW f, SoundRow(r, f)
    PROVE  /\ SoundRow(Aged(r), IF f = Unknown THEN Unknown ELSE Least(Ttl, f + 1))
           /\ r.failure # "none" => Aged(r).failure # "none"
<1> DEFINE left == IF r.left = 0 THEN 0 ELSE r.left - 1
           failure == IF r.failure = "now" THEN "since" ELSE r.failure
           age == IF f = Unknown THEN Unknown ELSE Least(Ttl, f + 1)
<1>1. /\ r.healthy \in BOOLEAN /\ r.left \in 0..Ttl /\ r.failure \in {"none", "now", "since"}
      /\ f \in 0..Unknown
  BY DEF SoundRow, Candidate
<1>2. /\ left \in 0..Ttl
      /\ age \in 0..Unknown
      /\ f + r.left <= Ttl => age + left <= Ttl
  BY <1>1, WahaHealthAssumption DEF Unknown, Least
<1>3. failure \in {"none", "now", "since"} /\ (failure = "none" <=> r.failure = "none")
  BY <1>1
<1>4. Aged(r) = [healthy |-> r.healthy, left |-> left, failure |-> failure]
  BY DEF Aged
<1> HIDE DEF left, failure, age
<1>5. SoundRow(Aged(r), age) /\ (r.failure # "none" => Aged(r).failure # "none")
  BY <1>1, <1>2, <1>3, <1>4 DEF SoundRow, Candidate
<1> QED
  BY <1>5 DEF age

LEMMA SoundIsTyped ==
    ASSUME NEW r, r = [c \in Senders |-> r[c]], NEW f, f = [c \in Senders |-> f[c]],
           \A c \in Senders : SoundRow(r[c], f[c])
    PROVE  r \in [Senders -> Candidate] /\ f \in [Senders -> 0..Unknown]
<1>1. \A c \in Senders : r[c] \in Candidate /\ f[c] \in 0..Unknown
  BY DEF SoundRow
<1>2. r \in [Senders -> Candidate]
  BY <1>1, Zenon
<1>3. f \in [Senders -> 0..Unknown]
  BY <1>1, Zenon
<1> QED
  BY <1>2, <1>3

\* A delivery that is outdated, and the next sender asked.
LEMMA Outdated ==
    ASSUME NEW a \in Attempts
    PROVE  [a EXCEPT !.current = FALSE] \in Attempts
  BY DEF Attempts

LEMMA AttemptTyped ==
    ASSUME NEW n \in {1, 2}, NEW c \in Senders
    PROVE  Attempt(n, c) \in Attempts
  BY DEF Attempt, Attempts

LEMMA AskNextTyped ==
    ASSUME NEW rest \in SUBSET Endpoints, NEW elapsed \in 0..Ttl, AskNext(rest, elapsed)
    PROVE  check' \in Check
<1>1. PICK e \in rest : check' = [at |-> e, rest |-> rest \ {e}, elapsed |-> elapsed]
  BY DEF AskNext
<1> QED
  BY <1>1 DEF Check

\* Writing rows keeps everything sound if what is written is.
LEMMA WriteSound ==
    ASSUME SendersInv, NEW written \in SUBSET Senders, NEW values, Write(written, values),
           found' = [c \in Senders |-> found'[c]],
           \A c \in written : SoundRow(values[c], found'[c]),
           \A c \in Senders \ written : SoundRow(row[c], found'[c])
    PROVE  /\ RowsTyped' /\ RowsSound'
           /\ delivery' \in [Deliveries -> Attempts \cup {Idle}]
<1>1. row' = [c \in Senders |-> IF c \in written THEN values[c] ELSE row[c]]
  BY DEF Write
<1>2. \A c \in Senders : SoundRow(row'[c], found'[c])
  BY <1>1
<1>3. row' = [c \in Senders |-> row'[c]]
  BY <1>1
<1>4. RowsTyped' /\ RowsSound'
  BY <1>2, <1>3, SoundIsTyped DEF RowsTyped, RowsSound
<1>5. delivery' \in [Deliveries -> Attempts \cup {Idle}]
  BY Outdated DEF Write, SendersInv, WahaTypeOK
<1> QED
  BY <1>4, <1>5

LEMMA InitSound == WahaInit => SendersInv
<1> SUFFICES ASSUME WahaInit PROVE SendersInv
  OBVIOUS
<1>1. row = [c \in Senders |-> Out] /\ found = [c \in Senders |-> Unknown]
  BY DEF WahaInit
<1>2. Unknown \in 0..Unknown
  BY WahaHealthAssumption DEF Unknown
<1>3. \A c \in Senders : SoundRow(row[c], found[c])
  BY <1>1, <1>2, OutSound
<1>4. RowsTyped
  BY <1>1, <1>3, SoundIsTyped DEF RowsTyped
<1>5. Others /\ TakenFailed
  BY WahaHealthAssumption DEF WahaInit, Others, TakenFailed
<1> QED
  BY <1>3, <1>4, <1>5, SendersInvSplit DEF RowsSound

LEMMA RefreshStep == SendersInv /\ Refresh => SendersInv'
<1> SUFFICES ASSUME SendersInv, Refresh PROVE SendersInv'
  OBVIOUS
<1>1. /\ Write(Superseded, [c \in Superseded |-> Out])
      /\ Superseded \in SUBSET Senders
      /\ found' = found /\ found = [c \in Senders |-> found[c]]
  BY DEF Refresh, Superseded, SendersInv, WahaTypeOK
<1>2. \A c \in Senders : SoundRow(row[c], found'[c]) /\ found'[c] \in 0..Unknown
  BY <1>1 DEF SendersInv, RowsSound, SoundRow
<1>3. /\ RowsTyped' /\ RowsSound'
      /\ delivery' \in [Deliveries -> Attempts \cup {Idle}]
  BY <1>1, <1>2, OutSound, WriteSound
<1>4. check' \in Check
  BY AskNextTyped, WahaHealthAssumption DEF Refresh, Configured
<1>5. Others' /\ TakenFailed'
  BY <1>3, <1>4 DEF SendersInv, WahaTypeOK, Others, Refresh, TakenFailed
<1> QED
  BY <1>3, <1>5 DEF SendersInv, WahaTypeOK, Others, RowsTyped

LEMMA AnswerStep ==
    ASSUME SendersInv, NEW working \in SUBSET Sessions, Answer(working)
    PROVE  SendersInv'
<1> DEFINE judged == {c \in {check.at} \X Sessions : ~FailureIsNew(c)}
           values == [c \in judged |-> Judged(c, working)]
<1>1. check \in Check
  BY DEF Answer, SendersInv, WahaTypeOK
<1>2. check.at \in Endpoints /\ check.rest \in SUBSET Endpoints /\ check.elapsed \in 0..Ttl
  BY <1>1 DEF Check
<1>3. /\ Write(judged, values)
      /\ found' = [c \in Senders |-> IF c[1] # check.at THEN found[c]
                                     ELSE IF c[2] \in working THEN 0 ELSE Unknown]
      /\ UNCHANGED <<config, taken, restarts>>
  BY DEF Answer
<1>4. judged \in SUBSET Senders
  BY <1>2 DEF Senders
<1>5. ASSUME NEW c \in judged PROVE SoundRow(values[c], found'[c])
  <2>1. c \in Senders /\ c[1] = check.at /\ values[c] = Judged(c, working)
    BY <1>4
  <2>2. CASE c[2] \in working
    <3>1. found'[c] = 0 /\ 0 \in 0..Unknown
      BY <1>3, <2>1, <2>2, WahaHealthAssumption DEF Unknown
    <3> QED
      BY <1>2, <2>1, <3>1, OutSound, FoundSound DEF Judged
  <2>3. CASE c[2] \notin working
    <3>1. found'[c] = Unknown /\ Unknown \in 0..Unknown
      BY <1>3, <2>1, <2>3, WahaHealthAssumption DEF Unknown
    <3> QED
      BY <2>1, <2>3, <3>1, OutSound DEF Judged
  <2> QED
    BY <2>2, <2>3
<1>6. ASSUME NEW c \in Senders \ judged PROVE SoundRow(row[c], found'[c])
  <2>1. SoundRow(row[c], found[c])
    BY DEF SendersInv, RowsSound
  <2>2. CASE c[1] # check.at
    BY <1>3, <2>1, <2>2
  <2>3. CASE c[1] = check.at
    <3>1. row[c].failure # "none"
      BY <1>6, <2>3 DEF FailureIsNew, Senders
    <3>2. found'[c] \in {0, Unknown} /\ {0, Unknown} \subseteq 0..Unknown
      BY <1>3, <2>3, WahaHealthAssumption DEF Unknown
    <3> QED
      BY <2>1, <3>1, <3>2 DEF SoundRow
  <2> QED
    BY <2>2, <2>3
<1>7. found' = [c \in Senders |-> found'[c]]
  BY <1>3
<1>8. ASSUME NEW c \in taken PROVE row'[c].failure # "none"
  <2>1. c \in Senders /\ row[c].failure # "none" /\ c \notin judged
    BY DEF SendersInv, WahaTypeOK, TakenFailed, FailureIsNew
  <2> QED
    BY <1>3, <2>1 DEF Write
<1> HIDE DEF judged, values
<1>9. /\ RowsTyped' /\ RowsSound'
      /\ delivery' \in [Deliveries -> Attempts \cup {Idle}]
  BY <1>3, <1>4, <1>5, <1>6, <1>7, WriteSound
<1>10. check' \in Check \cup {Idle}
  BY <1>2, AskNextTyped DEF Answer
<1>11. Others' /\ TakenFailed'
  BY <1>3, <1>8, <1>9, <1>10 DEF SendersInv, WahaTypeOK, Others, TakenFailed
<1> QED
  BY <1>9, <1>11 DEF SendersInv, WahaTypeOK, Others, RowsTyped

LEMMA SendStep ==
    ASSUME SendersInv, NEW d \in Deliveries, Send(d)
    PROVE  SendersInv'
<1>1. PICK c \in Senders : delivery' = [delivery EXCEPT ![d] = Attempt(1, c)]
  BY DEF Send
<1>2. delivery' \in [Deliveries -> Attempts \cup {Idle}]
  BY <1>1, AttemptTyped DEF SendersInv, WahaTypeOK
<1> QED
  BY <1>2 DEF Send, SendersInv, WahaTypeOK, RowsSound, TakenFailed

LEMMA DeliveredStep ==
    ASSUME SendersInv, NEW d \in Deliveries, Delivered(d)
    PROVE  SendersInv'
  BY DEF Delivered, SendersInv, WahaTypeOK, RowsSound, TakenFailed

LEMMA FailsStep ==
    ASSUME SendersInv, NEW d \in Deliveries, Fails(d)
    PROVE  SendersInv'
<1> DEFINE to == delivery[d].to
           marked == IF Marks(d) THEN {to} ELSE {}
           others == {b \in Senders \ {to} : Serves(b)}
           next == IF delivery[d].attempt = 1 /\ others # {}
                   THEN {Attempt(2, b) : b \in others} ELSE {Idle}
<1>1. /\ row' = [b \in Senders |-> IF b \in marked THEN Failed ELSE row[b]]
      /\ taken' = taken \cup marked
      /\ UNCHANGED <<config, check, found, restarts>>
  BY DEF Fails
<1>2. PICK n \in next : delivery' = [x \in Deliveries |->
          IF x = d THEN n
          ELSE IF delivery[x] # Idle /\ delivery[x].to \in marked
          THEN [delivery[x] EXCEPT !.current = FALSE] ELSE delivery[x]]
  BY DEF Fails
<1>3. to \in Senders
  BY DEF Fails, SendersInv, WahaTypeOK, Attempts
<1>4. marked \in SUBSET Senders
  BY <1>3
<1>5. n \in Attempts \cup {Idle}
  <2>1. others \in SUBSET Senders
    OBVIOUS
  <2>2. \A b \in others : Attempt(2, b) \in Attempts
    BY <2>1, AttemptTyped
  <2> HIDE DEF others
  <2> QED
    BY <2>2
<1> HIDE DEF marked, next
<1>6. delivery' \in [Deliveries -> Attempts \cup {Idle}]
  BY <1>2, <1>5, Outdated DEF SendersInv, WahaTypeOK
<1>7. \A c \in Senders : SoundRow(row[c], found[c]) /\ found[c] \in 0..Unknown
  BY DEF SendersInv, RowsSound, SoundRow
<1>8. \A c \in Senders : SoundRow(row'[c], found'[c])
  BY <1>1, <1>7, FailedSound
<1>9. row' = [c \in Senders |-> row'[c]] /\ found' = [c \in Senders |-> found'[c]]
  BY <1>1 DEF SendersInv, WahaTypeOK
<1>10. RowsTyped' /\ RowsSound'
  BY <1>8, <1>9, SoundIsTyped DEF RowsTyped, RowsSound
<1>11. TakenFailed'
  BY <1>1, <1>4, FailedSound DEF TakenFailed, SendersInv, WahaTypeOK
<1>12. Others'
  BY <1>1, <1>4, <1>6 DEF Others, SendersInv, WahaTypeOK
<1> QED
  BY <1>10, <1>11, <1>12 DEF SendersInv, WahaTypeOK, Others, RowsTyped

LEMMA TimeStep == SendersInv /\ TimePasses => SendersInv'
<1> SUFFICES ASSUME SendersInv, TimePasses PROVE SendersInv'
  OBVIOUS
<1>1. /\ row' = [c \in Senders |-> Aged(row[c])]
      /\ found' = [c \in Senders |->
             IF found[c] = Unknown THEN Unknown ELSE Least(Ttl, found[c] + 1)]
      /\ check' = IF check = Idle THEN Idle
                  ELSE [check EXCEPT !.elapsed = Least(Ttl, @ + 1)]
      /\ UNCHANGED <<config, delivery, taken, restarts>>
  BY DEF TimePasses
<1>2. \A c \in Senders : SoundRow(row'[c], found'[c])
  BY <1>1, AgedSound DEF SendersInv, RowsSound
<1>3. row' = [c \in Senders |-> row'[c]] /\ found' = [c \in Senders |-> found'[c]]
  BY <1>1
<1>4. RowsTyped' /\ RowsSound'
  BY <1>2, <1>3, SoundIsTyped DEF RowsTyped, RowsSound
<1>5. TakenFailed'
  BY <1>1, AgedSound DEF TakenFailed, SendersInv, WahaTypeOK, RowsSound
<1>6. check' \in Check \cup {Idle}
  <2>1. CASE check = Idle
    BY <1>1, <2>1
  <2>2. CASE check # Idle
    <3>1. check \in Check /\ check' = [check EXCEPT !.elapsed = Least(Ttl, check.elapsed + 1)]
      BY <1>1, <2>2 DEF SendersInv, WahaTypeOK
    <3>2. Least(Ttl, check.elapsed + 1) \in 0..Ttl
      BY <3>1, WahaHealthAssumption DEF Check, Least
    <3> QED
      BY <3>1, <3>2 DEF Check
  <2> QED
    BY <2>1, <2>2
<1>7. Others'
  BY <1>1, <1>6 DEF Others, SendersInv, WahaTypeOK
<1> QED
  BY <1>4, <1>5, <1>7 DEF SendersInv, WahaTypeOK, Others, RowsTyped

LEMMA RestartStep ==
    ASSUME SendersInv, NEW f \in Configurations, Restart(f)
    PROVE  SendersInv'
  BY WahaHealthAssumption
     DEF Restart, SendersInv, WahaTypeOK, RowsSound, TakenFailed

LEMMA SendersInvariance == SendersInv /\ [WahaNext]_wahaVars => SendersInv'
<1> SUFFICES ASSUME SendersInv, [WahaNext]_wahaVars PROVE SendersInv'
  OBVIOUS
<1>1. CASE Refresh
  BY <1>1, RefreshStep
<1>2. CASE Answers
  BY <1>2, AnswerStep DEF Answers
<1>3. CASE \E d \in Deliveries : Send(d) \/ Delivered(d) \/ Fails(d)
  BY <1>3, SendStep, DeliveredStep, FailsStep
<1>4. CASE TimePasses
  BY <1>4, TimeStep
<1>5. CASE \E f \in Configurations : Restart(f)
  BY <1>5, RestartStep
<1>6. CASE UNCHANGED wahaVars
  BY <1>6 DEF wahaVars, SendersInv, WahaTypeOK, RowsSound, TakenFailed
<1> QED
  BY <1>1, <1>2, <1>3, <1>4, <1>5, <1>6 DEF WahaNext

LEMMA SendersAlways == WahaSpec => []SendersInv
  BY InitSound, SendersInvariance, PTL DEF WahaSpec

\* WahaTypeOK: rows, the check and the deliveries keep their form.
THEOREM SendersTyped == WahaSpec => []WahaTypeOK
  BY SendersAlways, PTL DEF SendersInv

\* ServingIsFounded: what a check stored while it took its time is never chosen
\* after the time to live of the answer it rests on.
THEOREM Founded == WahaSpec => []ServingIsFounded
<1>1. SendersInv => ServingIsFounded
  <2> SUFFICES ASSUME SendersInv, NEW c \in Senders, Serves(c) PROVE found[c] < Ttl
    BY DEF ServingIsFounded
  <2>1. row[c].healthy /\ row[c].left > 0 /\ SoundRow(row[c], found[c])
    BY DEF Serves, SendersInv, RowsSound
  <2> QED
    BY <2>1, WahaHealthAssumption DEF SoundRow, Candidate, Unknown
<1> QED
  BY <1>1, SendersAlways, PTL

\* FailureStands: no check under way brings a failed sender back.
THEOREM FailuresStand == WahaSpec => []FailureStands
<1>1. SendersInv => FailureStands
  BY DEF SendersInv, WahaTypeOK, TakenFailed, RowsSound, SoundRow, FailureStands
<1> QED
  BY <1>1, SendersAlways, PTL

\* FailureIsHeard: a failed delivery takes its sender out of service, also when
\* the row was written since the delivery chose it.
THEOREM FailuresAreHeard == WahaSpec => FailureIsHeard
<1>1. ASSUME SendersInv, NEW d \in Deliveries, Fails(d)
      PROVE  ~row'[delivery[d].to].healthy
  <2>1. delivery[d].to \in Senders
    BY <1>1 DEF Fails, SendersInv, WahaTypeOK, Attempts
  <2>2. row'[delivery[d].to] = IF Marks(d) THEN Failed ELSE row[delivery[d].to]
    BY <1>1, <2>1 DEF Fails
  <2> QED
    BY <2>2 DEF Marks, Failed
<1>2. SendersInv /\ [WahaNext]_wahaVars =>
          [\A d \in Deliveries : Fails(d) => ~row'[delivery[d].to].healthy]_wahaVars
  BY <1>1
<1> QED
  BY <1>2, SendersAlways, PTL DEF WahaSpec, FailureIsHeard

=============================================================================
