------------------------------ MODULE WahaHealth ------------------------------
(***************************************************************************)
(* The WhatsApp senders of the configured WAHA gateways: the table that    *)
(* caches which of them work, the check that refreshes it gateway by       *)
(* gateway, and the deliveries that choose a sender from it.               *)
(*                                                                         *)
(* A check and a delivery wait for a gateway and go on with what they read *)
(* before: the check with the time when it began, the delivery with the    *)
(* version of the row that it chose.  All times are relative, so that the  *)
(* state space is finite without a bound on time.                          *)
(***************************************************************************)
EXTENDS Integers

CONSTANTS
    Endpoints, Sessions,  \* gateways, and names of WhatsApp sessions
    Deliveries,           \* deliveries that may be under way at once
    Ttl,                  \* freshnessTtlMs
    MaxRestarts,          \* bound of the server's restarts
    Idle

ASSUME WahaHealthAssumption ==
    Ttl \in Nat \ {0} /\ MaxRestarts \in Nat

VARIABLES
    config,    \* the sessions that an endpoint may use, {} when not configured
    row,       \* the table of candidates
    check,     \* the refresh in flight, Idle when there is none
    delivery,  \* the deliveries
    found,     \* history: the time since the last answer said that a sender works
    taken,     \* history: the senders whose failure was noted since the check began
    restarts

wahaVars == <<config, row, check, delivery, found, taken, restarts>>

-----------------------------------------------------------------------------

Senders == Endpoints \X Sessions
Unknown == Ttl + 1   \* the last answer was not that the sender works
Least(a, b) == IF a < b THEN a ELSE b

\* left: the time until expiresAt, of a healthy row.  failure: whether the row is
\* unhealthy because a delivery failed, at this instant or since the last check
\* began; any other failure, or a sender that has no row, is "none".
Candidate == [healthy : BOOLEAN, left : 0..Ttl, failure : {"none", "now", "since"}]
Out == [healthy |-> FALSE, left |-> 0, failure |-> "none"]
Failed == [healthy |-> FALSE, left |-> 0, failure |-> "now"]

\* at: the gateway that is asked; rest: those after it; elapsed: since checkedAt.
Check == [at : Endpoints, rest : SUBSET Endpoints, elapsed : 0..Ttl]

\* current: nobody has written the row since the delivery chose it.
Attempts == [attempt : {1, 2}, to : Senders, current : BOOLEAN]
ASSUME IdleIsNoRow == Idle \notin Check \cup Attempts
Attempt(n, c) == [attempt |-> n, to |-> c, current |-> TRUE]

Configured == {e \in Endpoints : config[e] # {}}
Allowed(c) == c[2] \in config[c[1]]
Serves(c) == Allowed(c) /\ row[c].healthy /\ row[c].left > 0

\* Mutant: a check does not look for failed deliveries.
FailureIsForgotten(c) == FALSE
\* The delivery failed when the check had begun.
FailureIsNew(c) == row[c].failure # "none"

Configurations == {f \in [Endpoints -> SUBSET Sessions] : \E e \in Endpoints : f[e] # {}}

WahaInit ==
    /\ config \in Configurations
    /\ row = [c \in Senders |-> Out]
    /\ check = Idle
    /\ delivery = [d \in Deliveries |-> Idle]
    /\ found = [c \in Senders |-> Unknown]
    /\ taken = {}
    /\ restarts = 0

-----------------------------------------------------------------------------
\* The check.

\* The rows of some senders are written, and their versions increased.
Write(written, values) ==
    /\ row' = [c \in Senders |-> IF c \in written THEN values[c] ELSE row[c]]
    /\ delivery' = [d \in Deliveries |->
           IF delivery[d] # Idle /\ delivery[d].to \in written
           THEN [delivery[d] EXCEPT !.current = FALSE] ELSE delivery[d]]

Lapsed(c) == row[c].healthy /\ (row[c].left = 0 \/ c[1] \notin Configured)

\* Mutant: a failed delivery is newer than any check.
LapsedOnly == {c \in Senders : Lapsed(c)}
\* Failures of earlier instants are older than the check that begins.
Superseded == {c \in Senders : Lapsed(c) \/ row[c].failure = "since"}

AskNext(rest, elapsed) ==
    check' \in {[at |-> e, rest |-> rest \ {e}, elapsed |-> elapsed] : e \in rest}

\* The timer, or the server's start; nothing happens while a check is in flight.
Refresh ==
    /\ check = Idle
    /\ Write(Superseded, [c \in Superseded |-> Out])
    /\ AskNext(Configured, 0)
    /\ taken' = {}
    /\ UNCHANGED <<config, found, restarts>>

\* Mutant: the row of a session that is not reported stays as it is.
JudgedIfListed(c, working) ==
    IF c[2] \in working /\ Allowed(c)
    THEN [healthy |-> TRUE, left |-> Ttl - check.elapsed, failure |-> "none"]
    ELSE row[c]
Judged(c, working) ==
    IF c[2] \in working /\ Allowed(c)
    THEN [healthy |-> TRUE, left |-> Ttl - check.elapsed, failure |-> "none"]
    ELSE Out

\* The gateway reports its working sessions, or none because it fails.
Answer(working) ==
    /\ check # Idle
    /\ LET e == check.at
           judged == {c \in {e} \X Sessions : ~FailureIsNew(c)}
       IN /\ Write(judged, [c \in judged |-> Judged(c, working)])
          /\ found' = [c \in Senders |->
                 IF c[1] # e THEN found[c] ELSE IF c[2] \in working THEN 0 ELSE Unknown]
    /\ IF check.rest = {} THEN check' = Idle ELSE AskNext(check.rest, check.elapsed)
    /\ UNCHANGED <<config, taken, restarts>>

-----------------------------------------------------------------------------
\* Deliveries.

Send(d) ==
    /\ delivery[d] = Idle
    /\ \E c \in Senders : Serves(c) /\ delivery' = [delivery EXCEPT ![d] = Attempt(1, c)]
    /\ UNCHANGED <<config, row, check, found, taken, restarts>>

Delivered(d) ==
    /\ delivery[d] # Idle
    /\ delivery' = [delivery EXCEPT ![d] = Idle]
    /\ UNCHANGED <<config, row, check, found, taken, restarts>>

\* Mutant: a row that was written meanwhile is left alone.
MarksCurrent(d) == delivery[d].current
\* A row that was written meanwhile is marked too, unless it is unhealthy by now.
Marks(d) == delivery[d].current \/ row[delivery[d].to].healthy

\* The sender is marked, and the first time another one is tried.
Fails(d) ==
    /\ delivery[d] # Idle
    /\ LET c == delivery[d].to
           marked == IF Marks(d) THEN {c} ELSE {}
           others == {b \in Senders \ {c} : Serves(b)}
           next == IF delivery[d].attempt = 1 /\ others # {}
                   THEN {Attempt(2, b) : b \in others} ELSE {Idle}
       IN /\ row' = [b \in Senders |-> IF b \in marked THEN Failed ELSE row[b]]
          /\ taken' = taken \cup marked
          /\ \E n \in next : delivery' = [x \in Deliveries |->
                 IF x = d THEN n
                 ELSE IF delivery[x] # Idle /\ delivery[x].to \in marked
                 THEN [delivery[x] EXCEPT !.current = FALSE] ELSE delivery[x]]
    /\ UNCHANGED <<config, check, found, restarts>>

-----------------------------------------------------------------------------
\* Time, and the end of the process.

Aged(r) ==
    [healthy |-> r.healthy,
     left |-> IF r.left = 0 THEN 0 ELSE r.left - 1,
     failure |-> IF r.failure = "now" THEN "since" ELSE r.failure]

TimePasses ==
    /\ row' = [c \in Senders |-> Aged(row[c])]
    /\ check' = IF check = Idle THEN Idle
                ELSE [check EXCEPT !.elapsed = Least(Ttl, @ + 1)]
    /\ found' = [c \in Senders |->
           IF found[c] = Unknown THEN Unknown ELSE Least(Ttl, found[c] + 1)]
    /\ UNCHANGED <<config, delivery, taken, restarts>>

\* The table survives; the configuration is read again.
Restart(configuration) ==
    /\ restarts < MaxRestarts
    /\ restarts' = restarts + 1
    /\ config' = configuration
    /\ check' = Idle
    /\ delivery' = [d \in Deliveries |-> Idle]
    /\ taken' = {}
    /\ UNCHANGED <<row, found>>

Answers == \E working \in SUBSET Sessions : Answer(working)

WahaNext ==
    \/ Refresh
    \/ Answers
    \/ \E d \in Deliveries : Send(d) \/ Delivered(d) \/ Fails(d)
    \/ TimePasses
    \/ \E f \in Configurations : Restart(f)

\* Time and the timer go on, and the client of a gateway answers or gives up.
WahaSpec ==
    /\ WahaInit /\ [][WahaNext]_wahaVars
    /\ WF_wahaVars(TimePasses) /\ WF_wahaVars(Refresh) /\ WF_wahaVars(Answers)

-----------------------------------------------------------------------------
\* Properties.

\* The rows, the check and the deliveries keep their form.
WahaTypeOK ==
    /\ config \in Configurations
    /\ row \in [Senders -> Candidate]
    /\ check \in Check \cup {Idle}
    /\ delivery \in [Deliveries -> Attempts \cup {Idle}]
    /\ found \in [Senders -> 0..Unknown]
    /\ taken \subseteq Senders
    /\ restarts \in 0..MaxRestarts

\* A sender that can be chosen was found working by its gateway's last answer,
\* less than the time to live ago, however long the check took and whatever was
\* configured in between (wahaHealthRegistryCreate.ts:108).
ServingIsFounded ==
    \A c \in Senders : Serves(c) => found[c] < Ttl

\* A failed delivery leaves its sender out of service, even if a check has
\* written the row since the delivery chose it (wahaTextDeliveryCreate.ts:82).
FailureIsHeard ==
    [][\A d \in Deliveries : Fails(d) => ~row'[delivery[d].to].healthy]_wahaVars

\* A sender that a failed delivery took out of service during a check is not
\* brought back by that check (wahaHealthRegistryCreate.ts:104).
FailureStands ==
    \A c \in taken : ~row[c].healthy

\* A sender that its gateway reports from some time on, while checks take less
\* than the time to live, serves again and again, whatever deliveries fail
\* (wahaHealthRegistryCreate.ts:23).
WorkingSenderServes ==
    \A c \in Senders :
        <>[](found[c] # Unknown /\ Allowed(c) /\ (check # Idle => check.elapsed < Ttl))
            => []<>Serves(c)
=============================================================================
