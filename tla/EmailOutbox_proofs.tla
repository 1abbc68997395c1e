------------------------- MODULE EmailOutbox_proofs -------------------------
(* Theorems about EmailOutbox. *)
EXTENDS EmailOutbox, FiniteSetTheorems, SequenceTheorems, TLAPS

-------------------------------------------------------------------------------
(* Queueing *)

\* A step that queues jobs carrying tokens of S, and changes no other job.
Adds(S) ==
    /\ jobs' \in [Jobs -> JobRow]
    /\ \A j \in Jobs : jobs'[j] # jobs[j] =>
          /\ jobs[j].status = "none"
          /\ jobs'[j].status = "pending"
          /\ jobs'[j].attempts = 0
          /\ jobs'[j].to # None
          /\ jobs'[j].token \in S
    /\ queue' \in Seq(Jobs)
    /\ QueueInv'

\* A new job is a row of email_jobs.
LEMMA NewJobIsRow ==
    ASSUME OutboxAssumption, TypeOK,
           NEW kind \in {"notification", "reset", "verification"},
           NEW a \in Addresses, NEW t \in Tokens \cup {None}
    PROVE  /\ NewJob(kind, a, t) \in JobRow
           /\ NewJob(kind, a, t).status = "pending"
           /\ NewJob(kind, a, t).attempts = 0
           /\ NewJob(kind, a, t).to # None
           /\ NewJob(kind, a, t).token = t
  BY DEF NewJob, JobRow, JobStatus, MaxAttempts, TypeOK, OutboxAssumption

\* enqueue adds one job, at the end of the queue.
LEMMA EnqueueAdds ==
    ASSUME OutboxAssumption, TypeOK, QueueInv,
           NEW kind \in {"notification", "reset", "verification"},
           NEW a \in Addresses, NEW t \in Tokens \cup {None}, NEW j \in Jobs,
           Enqueue(j, kind, a, t)
    PROVE  Adds({t})
<1> DEFINE row == NewJob(kind, a, t)
<1>1. /\ row \in JobRow
      /\ row.status = "pending"
      /\ row.attempts = 0
      /\ row.to # None
      /\ row.token = t
  BY NewJobIsRow
<1> HIDE DEF row
<1>2. /\ jobs \in [Jobs -> JobRow]
      /\ jobs' = [jobs EXCEPT ![j] = row]
      /\ jobs[j].status = "none"
  BY DEF TypeOK, Enqueue, row
<1>3. jobs' \in [Jobs -> JobRow]
  BY <1>1, <1>2
<1>4. /\ queue \in Seq(Jobs)
      /\ queue' = Append(queue, j)
      /\ queue' \in Seq(Jobs)
      /\ Len(queue') = Len(queue) + 1
      /\ Len(queue) \in Nat
      /\ \A i \in 1..Len(queue) : queue'[i] = queue[i] /\ queue[i] \in Jobs
      /\ queue'[Len(queue) + 1] = j
  BY DEF TypeOK, Enqueue
<1>5. \A i \in 1..Len(queue) : queue[i] # j
  BY <1>2 DEF QueueInv
<1>6. \A i \in 1..Len(queue') : i \in 1..Len(queue) \/ i = Len(queue) + 1
  BY <1>4
<1>7. \A i \in 1..Len(queue') : jobs'[queue'[i]].status = "pending"
  BY <1>1, <1>2, <1>4, <1>5, <1>6 DEF QueueInv
<1>8. \A i, k \in 1..Len(queue') : queue'[i] = queue'[k] => i = k
  BY <1>4, <1>5, <1>6 DEF QueueInv
<1>9. QueueInv'
  BY <1>7, <1>8 DEF QueueInv
<1> QED
  BY <1>1, <1>2, <1>3, <1>4, <1>9 DEF Adds

\* notification adds a job for each address that finds room.
LEMMA NotifyAdds ==
    ASSUME OutboxAssumption, TypeOK, QueueInv,
           NEW A \in SUBSET Addresses, IsFiniteSet(A), Notify(A)
    PROVE  Adds({None})
<1>1. OpenCount \in Nat
  <2>1. IsFiniteSet({j \in Jobs : Open(j)})
    BY FS_Subset DEF OutboxAssumption
  <2> QED BY <2>1, FS_CardinalityType DEF OpenCount
<1>2. Cardinality(A) \in Nat
  BY FS_CardinalityType
<1>3. \E n \in Nat : \E js \in [1..n -> {j \in Jobs : jobs[j].status = "none"}],
                       as \in [1..n -> A] : QueueNotifications(n, js, as)
  <2> DEFINE room == IF OpenCount < Limit THEN Limit - OpenCount ELSE 0
             n == IF Cardinality(A) < room THEN Cardinality(A) ELSE room
  <2>1. n \in Nat
    BY <1>1, <1>2 DEF OutboxAssumption
  <2> QED BY <2>1, Zenon DEF Notify
<1>31. PICK n \in Nat :
         \E js \in [1..n -> {j \in Jobs : jobs[j].status = "none"}],
            as \in [1..n -> A] : QueueNotifications(n, js, as)
  BY <1>3, Zenon
<1>32. PICK js \in [1..n -> {j \in Jobs : jobs[j].status = "none"}],
           as \in [1..n -> A] : QueueNotifications(n, js, as)
  BY <1>31, Zenon
<1>4. /\ \A i, k \in 1..n : i # k => js[i] # js[k] /\ as[i] # as[k]
      /\ jobs' = [j \in Jobs |->
                     IF \E i \in 1..n : js[i] = j
                     THEN NewJob("notification", as[CHOOSE i \in 1..n : js[i] = j], None)
                     ELSE jobs[j]]
      /\ queue' = queue \o js
  BY <1>32, Zenon DEF QueueNotifications
<1>5. /\ js \in Seq(Jobs)
      /\ Len(js) = n
      /\ \A i \in 1..n : js[i] \in Jobs /\ jobs[js[i]].status = "none"
  <2>1. js \in [1..n -> Jobs]
    BY <1>4
  <2> QED BY <2>1, <1>4
<1>6. \A j \in Jobs :
        \/ /\ \E i \in 1..n : js[i] = j
           /\ \E a \in A : jobs'[j] = NewJob("notification", a, None)
        \/ (\A i \in 1..n : js[i] # j) /\ jobs'[j] = jobs[j]
  <2> SUFFICES ASSUME NEW j \in Jobs, NEW i \in 1..n, js[i] = j
               PROVE  \E a \in A : jobs'[j] = NewJob("notification", a, None)
    BY <1>4
  <2>1. (CHOOSE k \in 1..n : js[k] = j) \in 1..n
    BY Zenon
  <2>2. as[CHOOSE k \in 1..n : js[k] = j] \in A
    BY <2>1, <1>4
  <2>3. jobs'[j] = NewJob("notification", as[CHOOSE k \in 1..n : js[k] = j], None)
    BY <1>4, Zenon
  <2> QED BY <2>2, <2>3
<1>7. \A a \in A : /\ NewJob("notification", a, None) \in JobRow
                   /\ NewJob("notification", a, None).status = "pending"
                   /\ NewJob("notification", a, None).attempts = 0
                   /\ NewJob("notification", a, None).to # None
                   /\ NewJob("notification", a, None).token = None
  BY NewJobIsRow
<1>8. \A j \in Jobs : jobs'[j] \in JobRow
  <2> TAKE j \in Jobs
  <2>1. jobs[j] \in JobRow
    BY DEF TypeOK
  <2>2. CASE jobs'[j] = jobs[j]
    BY <2>1, <2>2
  <2>3. CASE \E a \in A : jobs'[j] = NewJob("notification", a, None)
    BY <2>3, <1>7
  <2> QED BY <2>2, <2>3, <1>6, Zenon
<1>9. jobs' \in [Jobs -> JobRow]
  BY <1>4, <1>8
<1>10. \A j \in Jobs : jobs'[j] # jobs[j] =>
          /\ jobs[j].status = "none"
          /\ jobs'[j].status = "pending"
          /\ jobs'[j].attempts = 0
          /\ jobs'[j].to # None
          /\ jobs'[j].token = None
  BY <1>5, <1>6, <1>7
<1>11. /\ queue \in Seq(Jobs)
       /\ Len(queue) \in Nat
       /\ queue' \in Seq(Jobs)
       /\ Len(queue') = Len(queue) + n
       /\ \A i \in 1..Len(queue) : queue'[i] = queue[i] /\ queue[i] \in Jobs
       /\ \A i \in 1..n : queue'[Len(queue) + i] = js[i]
  <2>1. queue \in Seq(Jobs) /\ Len(queue) \in Nat /\ queue' = queue \o js
    BY <1>4 DEF TypeOK
  <2>2. \A i \in 1..Len(queue) : queue[i] \in Jobs
    BY <2>1
  <2>3. /\ queue \o js \in Seq(Jobs)
        /\ Len(queue \o js) = Len(queue) + Len(js)
        /\ \A i \in 1..Len(queue) + Len(js) :
             (queue \o js)[i] = IF i <= Len(queue) THEN queue[i] ELSE js[i - Len(queue)]
    <3>1. queue \in Seq(Jobs) /\ js \in Seq(Jobs)
      BY <2>1, <1>5
    <3>2. \A p, q \in Seq(Jobs) :
             /\ p \o q \in Seq(Jobs)
             /\ Len(p \o q) = Len(p) + Len(q)
             /\ \A i \in 1..Len(p) + Len(q) :
                  (p \o q)[i] = IF i <= Len(p) THEN p[i] ELSE q[i - Len(p)]
      BY ConcatProperties
    <3> QED BY <3>1, <3>2, ZenonT(60)
  <2>4. /\ queue' \in Seq(Jobs)
        /\ Len(queue') = Len(queue) + n
        /\ \A i \in 1..Len(queue) + n :
             queue'[i] = IF i <= Len(queue) THEN queue[i] ELSE js[i - Len(queue)]
    BY <2>1, <2>3, <1>5, Zenon
  <2>5. \A i \in 1..n : /\ Len(queue) + i \in 1..Len(queue) + n
                        /\ ~(Len(queue) + i <= Len(queue))
                        /\ (Len(queue) + i) - Len(queue) = i
    BY <2>1
  <2> QED BY <2>1, <2>2, <2>4, <2>5
<1>12. \A i \in 1..Len(queue') :
         \/ i \in 1..Len(queue) /\ queue'[i] = queue[i]
         \/ i - Len(queue) \in 1..n /\ queue'[i] = js[i - Len(queue)]
  <2> TAKE i \in 1..Len(queue')
  <2>1. CASE i \in 1..Len(queue)
    BY <2>1, <1>11
  <2>2. CASE i \notin 1..Len(queue)
    <3>1. i - Len(queue) \in 1..n
      BY <2>2, <1>11
    <3>2. Len(queue) + (i - Len(queue)) = i
      BY <1>11
    <3> QED BY <3>1, <3>2, <1>11
  <2> QED BY <2>1, <2>2
<1>13. \A i \in 1..Len(queue) : jobs[queue[i]].status = "pending" /\ jobs'[queue[i]] = jobs[queue[i]]
  <2> TAKE i \in 1..Len(queue)
  <2>1. jobs[queue[i]].status = "pending" /\ queue[i] \in Jobs
    BY <1>11 DEF QueueInv
  <2>2. \A k \in 1..n : js[k] # queue[i]
    BY <2>1, <1>5
  <2> QED BY <2>1, <2>2, <1>6, Zenon
<1>14. \A i \in 1..n : jobs'[js[i]].status = "pending"
  BY <1>5, <1>6, <1>7
<1>15. \A i \in 1..Len(queue') : jobs'[queue'[i]].status = "pending"
  BY <1>12, <1>13, <1>14
<1>16. \A i, k \in 1..Len(queue') : queue'[i] = queue'[k] => i = k
  <2> SUFFICES ASSUME NEW i \in 1..Len(queue'), NEW k \in 1..Len(queue'),
                      queue'[i] = queue'[k]
               PROVE  i = k
    OBVIOUS
  <2>1. CASE i \in 1..Len(queue) /\ k \in 1..Len(queue)
    BY <2>1, <1>11 DEF QueueInv
  <2>2. CASE i - Len(queue) \in 1..n /\ k - Len(queue) \in 1..n
    <3>1. queue'[i] = js[i - Len(queue)] /\ queue'[k] = js[k - Len(queue)]
      BY <2>2, <1>12, <1>11
    <3>2. i - Len(queue) = k - Len(queue)
      BY <2>2, <3>1, <1>4
    <3> QED BY <3>2, <1>11
  <2> QED BY <2>1, <2>2, <1>5, <1>12, <1>13
<1>17. QueueInv'
  BY <1>15, <1>16 DEF QueueInv
<1> QED
  BY <1>9, <1>10, <1>11, <1>17 DEF Adds

\* A queued job has been sent to nobody and has its attempts before it.
LEMMA AddsKeepsJobs ==
    ASSUME TypeOK, AttemptBudget, OutcomeIsTrue, CountInv, MailInv,
           NEW S, Adds(S), UNCHANGED <<workerVars, mailVars>>
    PROVE  AttemptBudget' /\ OutcomeIsTrue' /\ CountInv' /\ MailInv'
<1>1. /\ \A j \in Jobs : jobs'[j] # jobs[j] =>
            /\ jobs[j].status = "none"
            /\ jobs'[j].status = "pending"
            /\ jobs'[j].attempts = 0
            /\ jobs'[j].to # None
      /\ working' = working /\ result' = result
      /\ deliveries' = deliveries /\ mailed' = mailed
  BY DEF Adds, workerVars, mailVars
<1>2. \A j \in Jobs : jobs'[j] # jobs[j] => deliveries[j] = 0 /\ mailed[j] = {}
  BY <1>1 DEF CountInv, MailInv
<1>3. AttemptBudget'
  BY <1>1, <1>2 DEF AttemptBudget, MaxAttempts
<1>4. OutcomeIsTrue'
  BY <1>1, <1>2 DEF OutcomeIsTrue
<1>5. working # None => working \in Jobs /\ jobs'[working] = jobs[working]
  BY <1>1 DEF TypeOK, CountInv
<1>6. CountInv'
  BY <1>1, <1>2, <1>5 DEF CountInv, MaxAttempts
<1>7. MailInv'
  <2> SUFFICES ASSUME NEW j \in Jobs
               PROVE  /\ jobs'[j].status = "none" => mailed[j] = {}
                      /\ Open(j)' => mailed[j] \subseteq {<<jobs'[j].token, jobs'[j].to>>}
                      /\ Open(j)' => jobs'[j].to # None
                      /\ Open(j)' /\ NeedsToken(j)' =>
                            jobs'[j].status = "pending" /\ mailed[j] = {}
                      /\ \A m, n \in mailed[j] : m = n
    BY <1>1 DEF MailInv
  <2>1. CASE jobs'[j] = jobs[j]
    BY <2>1 DEF MailInv, Open, NeedsToken
  <2>2. CASE jobs'[j] # jobs[j]
    BY <2>2, <1>1, <1>2 DEF Open, NeedsToken
  <2> QED BY <2>1, <2>2
<1> QED
  BY <1>3, <1>4, <1>6, <1>7

\* A step of accounts that revives no token, moves no live reset token away from
\* its owner's address, and issues those of S for no reset.
Harmless(S) ==
    /\ \A t \in Tokens : tokens[t].state # "unissued" => tokens'[t].state # "unissued"
    /\ \A t \in Tokens :
          tokens[t].state # "unissued" /\ tokens'[t].kind = "reset" /\ Live(t)' =>
              /\ tokens[t].kind = "reset"
              /\ Live(t)
              /\ tokens'[t].user = tokens[t].user
              /\ \A a \in Addresses :
                    tokens[t].user \in Users /\ HasAddress(tokens[t].user, a)
                       => HasAddress(tokens[t].user, a)'
    /\ \A t \in S \cap Tokens : tokens'[t].state # "unissued" /\ tokens'[t].kind # "reset"

\* After a harmless step the jobs still carry tokens of the right people.
LEMMA HarmlessKeepsCarry ==
    ASSUME OutboxAssumption, TypeOK, CarryInv,
           NEW S \in SUBSET (Tokens \cup {None}), Adds(S), Harmless(S), UNCHANGED mailed
    PROVE  CarryInv'
<1> SUFFICES ASSUME NEW j \in Jobs, NEW t \in Tokens, NEW a \in Addresses, Carries(j, t, a)'
             PROVE  /\ tokens'[t].state # "unissued"
                    /\ tokens'[t].kind = "reset" /\ Live(t)' =>
                          tokens'[t].user \in Users /\ HasAddress(tokens[t].user, a)'
  BY DEF CarryInv, Live, HasAddress
<1>1. CASE Carries(j, t, a)
  <2>1. /\ tokens[t].state # "unissued"
        /\ tokens[t].kind = "reset" /\ Live(t) =>
              tokens[t].user \in Users /\ HasAddress(tokens[t].user, a)
    BY <1>1 DEF CarryInv
  <2> QED BY <2>1 DEF Harmless
<1>2. CASE ~Carries(j, t, a)
  <2>1. jobs'[j] # jobs[j] /\ jobs'[j].token = t
    BY <1>2 DEF Carries
  <2>2. t \in S
    BY <2>1 DEF Adds
  <2> QED BY <2>2 DEF Harmless
<1> QED
  BY <1>1, <1>2

-------------------------------------------------------------------------------
(* Tokens *)

\* Voiding tokens issues none and revives none.
LEMMA InvalidatedTokens ==
    ASSUME TypeOK, NEW S
    PROVE  /\ Invalidated(S) \in [Tokens -> TokenRow]
           /\ \A t \in Tokens :
                 /\ Invalidated(S)[t].kind = tokens[t].kind
                 /\ Invalidated(S)[t].user = tokens[t].user
                 /\ Invalidated(S)[t].email = tokens[t].email
                 /\ Invalidated(S)[t].state = "live" => Live(t) /\ t \notin S
                 /\ Invalidated(S)[t].state = "unissued" => tokens[t].state = "unissued"
  BY DEF TypeOK, TokenRow, Invalidated, Live

\* Voiding tokens leaves a user with at most one of each kind.
LEMMA InvalidatedKeepsOne ==
    ASSUME TypeOK, TokenInv, NEW S, tokens' = Invalidated(S)
    PROVE  TokenInv'
  BY InvalidatedTokens DEF TokenInv, OneLiveToken, Live

\* So does issuing one where the earlier ones of that kind are voided.
LEMMA IssuedKeepsOne ==
    ASSUME TypeOK, TokenInv, NEW t \in Tokens, NEW S, NEW row \in TokenRow,
           row.user \in Users, row.kind = "verification" => row.email \in Addresses,
           \A s \in Tokens : tokens[s].kind = row.kind /\ tokens[s].user = row.user => s \in S,
           tokens' = Issued(t, row, S)
    PROVE  /\ TokenInv'
           /\ tokens' \in [Tokens -> TokenRow]
           /\ tokens'[t] = row
           /\ \A s \in Tokens \ {t} : tokens'[s] = Invalidated(S)[s]
<1>1. /\ tokens' \in [Tokens -> TokenRow]
      /\ tokens'[t] = row
      /\ \A s \in Tokens \ {t} : tokens'[s] = Invalidated(S)[s]
  BY InvalidatedTokens DEF Issued
<1>2. \A s \in Tokens : s # t /\ Live(s)' =>
         /\ Live(s) /\ s \notin S
         /\ tokens'[s].kind = tokens[s].kind
         /\ tokens'[s].user = tokens[s].user
         /\ tokens'[s].email = tokens[s].email
  BY <1>1, InvalidatedTokens DEF Live
<1>3. OneLiveToken'
  <2> SUFFICES ASSUME NEW r \in Tokens, NEW s \in Tokens, Live(r)', Live(s)',
                      tokens'[r].kind = tokens'[s].kind, tokens'[r].user = tokens'[s].user
               PROVE  r = s
    BY DEF OneLiveToken
  <2>1. CASE r # t /\ s # t
    BY <2>1, <1>2 DEF TokenInv, OneLiveToken
  <2>2. CASE r = t /\ s # t
    BY <2>2, <1>1, <1>2
  <2>3. CASE r # t /\ s = t
    BY <2>3, <1>1, <1>2
  <2> QED BY <2>1, <2>2, <2>3
<1>4. TokenInv'
  BY <1>1, <1>2, <1>3 DEF TokenInv, Live
<1> QED
  BY <1>1, <1>4

-------------------------------------------------------------------------------
(* Requests *)

\* A request that queues jobs keeps the invariant if what it does to accounts is
\* harmless.
LEMMA RequestKeepsInv ==
    ASSUME OutboxAssumption, OutboxInv, NEW S \in SUBSET (Tokens \cup {None}),
           Adds(S), Harmless(S), TokenInv', VerifiedInv',
           email' \in [Users -> Addresses \cup {None}],
           verified' \in [Users -> BOOLEAN],
           pending' \in [Users -> Addresses \cup {None}],
           tokens' \in [Tokens -> TokenRow],
           UNCHANGED <<workerVars, mailVars>>
    PROVE  OutboxInv'
<1>1. AttemptBudget' /\ OutcomeIsTrue' /\ CountInv' /\ MailInv'
  BY AddsKeepsJobs DEF OutboxInv
<1>2. CarryInv'
  BY HarmlessKeepsCarry DEF OutboxInv, mailVars
<1>3. TypeOK'
  BY DEF OutboxInv, TypeOK, Adds, workerVars, mailVars
<1> QED
  BY <1>1, <1>2, <1>3 DEF OutboxInv, Adds

\* Accounts that do not change are harmless.
LEMMA SameIsHarmless ==
    ASSUME UNCHANGED <<email, verified, tokens>>
    PROVE  Harmless({None} \ Tokens)
  BY DEF Harmless, HasAddress, Live

\* A recovery request queues a job and touches no account.
LEMMA RequestResetStep ==
    ASSUME OutboxAssumption, OutboxInv, NEW a \in Addresses, NEW j \in Jobs,
           RequestReset(a, j)
    PROVE  OutboxInv'
<1>1. Adds({None})
  BY EnqueueAdds DEF OutboxInv, RequestReset
<1>2. Harmless({None})
  BY SameIsHarmless DEF RequestReset, accountVars, OutboxAssumption, Harmless
<1>3. UNCHANGED <<email, verified, pending, tokens, workerVars, mailVars>>
  BY DEF RequestReset, accountVars
<1>4. TokenInv'
  BY <1>3 DEF OutboxInv, TokenInv, OneLiveToken, Live
<1> QED
  BY <1>1, <1>2, <1>3, <1>4, RequestKeepsInv DEF OutboxInv, TypeOK, VerifiedInv

\* A verification voids the earlier ones.  The address of the account changes only
\* if it had none.
LEMMA QueueVerificationStep ==
    ASSUME OutboxAssumption, OutboxInv,
           NEW u \in Users, NEW a \in Addresses, NEW j \in Jobs, NEW t \in Tokens,
           QueueVerification(u, a, j, t),
           \/ UNCHANGED email
           \/ email[u] = None /\ email' = [email EXCEPT ![u] = a]
    PROVE  OutboxInv'
<1> DEFINE row == [state |-> "live", kind |-> "verification", user |-> u, email |-> a]
<1>1. Adds({t})
  BY EnqueueAdds DEF OutboxInv, QueueVerification
<1>2. /\ row \in TokenRow
      /\ row.user \in Users
      /\ row.email \in Addresses
  BY DEF TokenRow
<1>3. /\ TokenInv'
      /\ tokens' \in [Tokens -> TokenRow]
      /\ tokens'[t] = row
      /\ \A s \in Tokens \ {t} : tokens'[s] = Invalidated(Verifications(u))[s]
  <2>1. tokens' = Issued(t, row, Verifications(u))
    BY DEF QueueVerification
  <2>2. \A s \in Tokens : tokens[s].kind = row.kind /\ tokens[s].user = row.user
                             => s \in Verifications(u)
    BY DEF Verifications
  <2> HIDE DEF row
  <2> QED BY <1>2, <2>1, <2>2, IssuedKeepsOne DEF OutboxInv
<1>4. tokens[t].state = "unissued" /\ UNCHANGED verified
  BY DEF QueueVerification
<1>5. \A v \in Users, b \in Addresses :
         HasAddress(v, b) => verified'[v] /\ email'[v] = b
  BY <1>4 DEF HasAddress, OutboxInv, TypeOK, OutboxAssumption
<1>6. Harmless({t})
  <2>1. \A s \in Tokens \ {t} :
           /\ tokens'[s].kind = tokens[s].kind
           /\ tokens'[s].user = tokens[s].user
           /\ tokens'[s].state = "live" => Live(s)
           /\ tokens'[s].state = "unissued" => tokens[s].state = "unissued"
    BY <1>3, InvalidatedTokens DEF OutboxInv
  <2>2. /\ tokens'[t].state = "live"
        /\ tokens'[t].kind = "verification"
    BY <1>3
  <2>3. \A s \in Tokens : tokens[s].state # "unissued" => tokens'[s].state # "unissued"
    BY <2>1, <2>2, <1>4
  <2>4. ASSUME NEW s \in Tokens, tokens'[s].kind = "reset", tokens'[s].state = "live"
        PROVE  /\ tokens[s].kind = "reset"
               /\ Live(s)
               /\ tokens'[s].user = tokens[s].user
               /\ \A b \in Addresses :
                     tokens[s].user \in Users /\ HasAddress(tokens[s].user, b)
                        => HasAddress(tokens[s].user, b)'
    <3>1. s # t
      BY <2>2, <2>4
    <3>2. \A b \in Addresses : tokens[s].user \in Users /\ HasAddress(tokens[s].user, b)
                                 => verified'[tokens[s].user] /\ email'[tokens[s].user] = b
      BY <1>5
    <3> QED BY <3>1, <3>2, <2>1, <2>4 DEF HasAddress
  <2> QED BY <2>2, <2>3, <2>4 DEF Harmless, Live
<1>7. /\ email' \in [Users -> Addresses \cup {None}]
      /\ verified' \in [Users -> BOOLEAN]
      /\ pending' \in [Users -> Addresses \cup {None}]
      /\ UNCHANGED <<workerVars, mailVars>>
      /\ VerifiedInv'
  BY DEF QueueVerification, OutboxInv, TypeOK, VerifiedInv, OutboxAssumption
<1> QED
  BY <1>1, <1>3, <1>6, <1>7, RequestKeepsInv

\* The tokens of a step that only voids some, and moves nobody who keeps a live
\* reset token, are harmless.
LEMMA VoidingIsHarmless ==
    ASSUME TypeOK, TokenInv, NEW T \in SUBSET Tokens, tokens' = Invalidated(T),
           \A u \in Users, a \in Addresses :
              HasAddress(u, a) => HasAddress(u, a)' \/ ResetTokens(u) \subseteq T
    PROVE  /\ Harmless({None} \ Tokens)
           /\ TokenInv'
           /\ tokens' \in [Tokens -> TokenRow]
<1>1. \A t \in Tokens :
         /\ tokens'[t].kind = tokens[t].kind
         /\ tokens'[t].user = tokens[t].user
         /\ tokens'[t].state = "live" => Live(t) /\ t \notin T
         /\ tokens'[t].state = "unissued" => tokens[t].state = "unissued"
  BY InvalidatedTokens
<1>2. ASSUME NEW t \in Tokens, tokens'[t].kind = "reset", tokens'[t].state = "live",
             NEW a \in Addresses, tokens[t].user \in Users, HasAddress(tokens[t].user, a)
      PROVE  HasAddress(tokens[t].user, a)'
  <2> DEFINE u == tokens[t].user
  <2>1. t \in ResetTokens(u) /\ t \notin T
    BY <1>1, <1>2 DEF ResetTokens
  <2>2. verified'[u] /\ email'[u] = a
    BY <1>2, <2>1 DEF HasAddress
  <2> QED BY <1>1, <2>2 DEF HasAddress
<1>3. Harmless({None} \ Tokens)
  BY <1>1, <1>2 DEF Harmless, Live
<1> QED
  BY <1>3, InvalidatedKeepsOne, InvalidatedTokens

\* Notifications go to addresses.
LEMMA KnownAddressIsAddress ==
    ASSUME OutboxInv, NEW u \in Users, NEW A \in SUBSET Addresses, IsFiniteSet(A)
    PROVE  /\ KnownAddress(u) \cup A \in SUBSET Addresses
           /\ IsFiniteSet(KnownAddress(u) \cup A)
<1>1. KnownAddress(u) \in SUBSET Addresses
  BY DEF KnownAddress, OutboxInv, TypeOK, VerifiedInv
<1>2. IsFiniteSet(KnownAddress(u))
  BY FS_EmptySet, FS_Singleton DEF KnownAddress
<1> QED
  BY <1>1, <1>2, FS_Union

\* A step that voids tokens and tells the user's address of it.
LEMMA NoticeStep ==
    ASSUME OutboxAssumption, OutboxInv, NEW u \in Users,
           NEW A \in SUBSET Addresses, IsFiniteSet(A), Notify(KnownAddress(u) \cup A),
           NEW T \in SUBSET Tokens, tokens' = Invalidated(T),
           email' \in [Users -> Addresses \cup {None}],
           verified' \in [Users -> BOOLEAN],
           pending' \in [Users -> Addresses \cup {None}],
           VerifiedInv',
           \A v \in Users, a \in Addresses :
              HasAddress(v, a) => HasAddress(v, a)' \/ ResetTokens(v) \subseteq T,
           UNCHANGED <<workerVars, mailVars>>
    PROVE  OutboxInv'
<1>1. Adds({None})
  <2>1. /\ KnownAddress(u) \cup A \in SUBSET Addresses
        /\ IsFiniteSet(KnownAddress(u) \cup A)
    BY KnownAddressIsAddress
  <2> QED BY <2>1, NotifyAdds DEF OutboxInv
<1>2. /\ Harmless({None} \ Tokens)
      /\ TokenInv'
      /\ tokens' \in [Tokens -> TokenRow]
  BY VoidingIsHarmless DEF OutboxInv
<1>3. {None} \ Tokens = {None}
  BY DEF OutboxAssumption
<1> QED
  BY <1>1, <1>2, <1>3, RequestKeepsInv

\* Verifying an address moves the account to it and voids its reset tokens.
LEMMA VerifyEmailStep ==
    ASSUME OutboxAssumption, OutboxInv, NEW t \in Tokens, VerifyEmail(t)
    PROVE  OutboxInv'
<1> DEFINE u == tokens[t].user
           a == tokens[t].email
<1>1. u \in Users /\ a \in Addresses
  BY DEF VerifyEmail, OutboxInv, TokenInv
<1>2. /\ email' = [email EXCEPT ![u] = a]
      /\ verified' = [verified EXCEPT ![u] = TRUE]
      /\ pending' = [pending EXCEPT ![u] = None]
      /\ tokens' = Invalidated({t} \cup ResetTokens(u))
      /\ Notify(KnownAddress(u) \cup {a})
      /\ UNCHANGED <<workerVars, mailVars>>
  BY DEF VerifyEmail
<1>3. /\ email' \in [Users -> Addresses \cup {None}]
      /\ verified' \in [Users -> BOOLEAN]
      /\ pending' \in [Users -> Addresses \cup {None}]
      /\ VerifiedInv'
  BY <1>1, <1>2 DEF OutboxInv, TypeOK, VerifiedInv, OutboxAssumption
<1>4. \A v \in Users, b \in Addresses :
         HasAddress(v, b) => HasAddress(v, b)' \/ ResetTokens(v) \subseteq {t} \cup ResetTokens(u)
  BY <1>1, <1>2 DEF HasAddress, OutboxInv, TypeOK
<1>5. {t} \cup ResetTokens(u) \in SUBSET Tokens
  BY DEF ResetTokens
<1>6. {a} \in SUBSET Addresses /\ IsFiniteSet({a})
  BY <1>1, FS_Singleton
<1> HIDE DEF u, a
<1> QED
  BY <1>1, <1>2, <1>3, <1>4, <1>5, <1>6, NoticeStep

\* A password or second factor changes, and perhaps tokens are voided.
LEMMA CredentialStep ==
    ASSUME OutboxAssumption, OutboxInv, NEW u \in Users, Notify(KnownAddress(u)),
           NEW T \in SUBSET Tokens, tokens' = Invalidated(T),
           UNCHANGED <<email, verified, pending, workerVars, mailVars>>
    PROVE  OutboxInv'
<1>1. /\ email' \in [Users -> Addresses \cup {None}]
      /\ verified' \in [Users -> BOOLEAN]
      /\ pending' \in [Users -> Addresses \cup {None}]
      /\ VerifiedInv'
  BY DEF OutboxInv, TypeOK, VerifiedInv
<1>2. \A v \in Users, b \in Addresses :
         HasAddress(v, b) => HasAddress(v, b)' \/ ResetTokens(v) \subseteq T
  BY DEF HasAddress
<1>3. Notify(KnownAddress(u) \cup {})
  <2>1. KnownAddress(u) \cup {} = KnownAddress(u)
    OBVIOUS
  <2> QED BY <2>1
<1>4. {} \in SUBSET Addresses /\ IsFiniteSet({})
  BY FS_EmptySet
<1> QED
  BY <1>1, <1>2, <1>3, <1>4, NoticeStep

\* Every request keeps the invariant.
LEMMA RequestStep ==
    ASSUME OutboxAssumption, OutboxInv, Request
    PROVE  OutboxInv'
<1>1. ASSUME NEW a \in Addresses, NEW j \in Jobs, RequestReset(a, j)
      PROVE  OutboxInv'
  BY <1>1, RequestResetStep
<1>2. ASSUME NEW u \in Users, NEW a \in Addresses, NEW j \in Jobs, NEW t \in Tokens,
             Register(u, a, j, t) \/ ChangeEmail(u, a, j, t)
      PROVE  OutboxInv'
  BY <1>2, QueueVerificationStep DEF Register, ChangeEmail
<1>3. ASSUME NEW t \in Tokens, VerifyEmail(t)
      PROVE  OutboxInv'
  BY <1>3, VerifyEmailStep
<1>4. ASSUME NEW t \in Tokens, ResetPassword(t)
      PROVE  OutboxInv'
  <2>1. tokens[t].user \in Users
    BY <1>4 DEF ResetPassword, OutboxInv, TokenInv
  <2> QED BY <1>4, <2>1, CredentialStep DEF ResetPassword
<1>5. ASSUME NEW u \in Users, ChangePassword(u)
      PROVE  OutboxInv'
  BY <1>5, CredentialStep DEF ChangePassword, ResetTokens
<1>6. ASSUME NEW u \in Users, ChangeMfa(u)
      PROVE  OutboxInv'
  <2>1. Invalidated({}) = tokens
    BY DEF Invalidated, OutboxInv, TypeOK
  <2> QED BY <1>6, <2>1, CredentialStep DEF ChangeMfa, accountVars
<1>7. ASSUME NEW t \in Tokens, Expire(t)
      PROVE  OutboxInv'
  <2>1. Adds({None})
    BY <1>7 DEF Expire, Adds, OutboxInv, TypeOK, QueueInv
  <2>2. /\ tokens' = Invalidated({t})
        /\ UNCHANGED <<email, verified, pending, workerVars, mailVars>>
    BY <1>7 DEF Expire
  <2>3. \A v \in Users, b \in Addresses :
           HasAddress(v, b) => HasAddress(v, b)' \/ ResetTokens(v) \subseteq {t}
    BY <2>2 DEF HasAddress
  <2>4. /\ Harmless({None})
        /\ TokenInv'
        /\ tokens' \in [Tokens -> TokenRow]
    <3>1. {None} \ Tokens = {None}
      BY DEF OutboxAssumption
    <3>2. TypeOK /\ TokenInv
      BY DEF OutboxInv
    <3> QED BY <2>2, <2>3, <3>1, <3>2, VoidingIsHarmless
  <2>5. /\ email' \in [Users -> Addresses \cup {None}]
        /\ verified' \in [Users -> BOOLEAN]
        /\ pending' \in [Users -> Addresses \cup {None}]
        /\ VerifiedInv'
    BY <2>2 DEF OutboxInv, TypeOK, VerifiedInv
  <2> QED BY <2>1, <2>2, <2>4, <2>5, RequestKeepsInv
<1> QED
  BY <1>1, <1>2, <1>3, <1>4, <1>5, <1>6, <1>7, Zenon DEF Request


-------------------------------------------------------------------------------
(* The worker *)

\* The job that is picked is pending, and in the queue once.
LEMMA PickedJob ==
    ASSUME TypeOK, QueueInv, NEW j \in Jobs, Picks(j)
    PROVE  /\ working = None
           /\ jobs[j].status = "pending"
           /\ Tail(queue) \in Seq(Jobs)
           /\ Len(Tail(queue)) \in Nat
           /\ \A i \in 1..Len(Tail(queue)) :
                 /\ i + 1 \in 1..Len(queue)
                 /\ Tail(queue)[i] = queue[i + 1]
                 /\ Tail(queue)[i] \in Jobs
                 /\ Tail(queue)[i] # j
<1>1. queue \in Seq(Jobs) /\ queue # <<>> /\ j = Head(queue) /\ working = None
  BY DEF TypeOK, Picks
<1>2. Len(queue) \in Nat \ {0} /\ j = queue[1]
  BY <1>1
<1>3. /\ Tail(queue) \in Seq(Jobs)
      /\ Len(Tail(queue)) = Len(queue) - 1
      /\ \A i \in 1..Len(queue) - 1 : Tail(queue)[i] = queue[i + 1]
  BY <1>1, <1>2
<1>4. \A i \in 1..Len(queue) - 1 :
         i + 1 \in 1..Len(queue) /\ i + 1 # 1 /\ queue[i + 1] \in Jobs
  BY <1>1, <1>2
<1>5. jobs[j].status = "pending"
  BY <1>2 DEF QueueInv
<1>6. \A i \in 1..Len(queue) - 1 : queue[i + 1] # j
  BY <1>2, <1>4 DEF QueueInv
<1> QED
  BY <1>1, <1>2, <1>3, <1>4, <1>5, <1>6

\* When it leaves the queue the others stay.
LEMMA PickKeepsQueue ==
    ASSUME TypeOK, QueueInv, NEW j \in Jobs, Picks(j), queue' = Tail(queue),
           \A i \in Jobs \ {j} : jobs'[i] = jobs[i]
    PROVE  queue' \in Seq(Jobs) /\ QueueInv'
<1>1. /\ Tail(queue) \in Seq(Jobs)
      /\ \A i \in 1..Len(Tail(queue)) :
            /\ i \in Nat
            /\ i + 1 \in 1..Len(queue)
            /\ Tail(queue)[i] = queue[i + 1]
            /\ jobs'[Tail(queue)[i]] = jobs[Tail(queue)[i]]
  BY PickedJob
<1>2. \A i \in 1..Len(Tail(queue)) : jobs'[Tail(queue)[i]].status = "pending"
  BY <1>1 DEF QueueInv
<1>3. \A i, k \in 1..Len(Tail(queue)) : Tail(queue)[i] = Tail(queue)[k] => i = k
  <2> TAKE i, k \in 1..Len(Tail(queue))
  <2>1. Tail(queue)[i] = Tail(queue)[k] => i + 1 = k + 1
    BY <1>1 DEF QueueInv
  <2> QED BY <2>1, <1>1
<1> QED
  BY <1>1, <1>2, <1>3 DEF QueueInv

\* A job that is not waiting may change without a place in the queue.
LEMMA SameQueue ==
    ASSUME QueueInv, queue' = queue,
           \A i \in 1..Len(queue) : jobs[queue[i]].status = "pending" =>
                                       jobs'[queue[i]].status = "pending"
    PROVE  QueueInv'
  BY DEF QueueInv

\* A finished job carries nothing.
LEMMA FinishedRow ==
    ASSUME TypeOK, NEW j \in Jobs, NEW status \in {"sent", "failed", "discarded"}
    PROVE  /\ Finished(j, status) \in [Jobs -> JobRow]
           /\ \A i \in Jobs \ {j} : Finished(j, status)[i] = jobs[i]
           /\ Finished(j, status)[j].status = status
           /\ Finished(j, status)[j].attempts = jobs[j].attempts
           /\ Finished(j, status)[j].to = None
           /\ Finished(j, status)[j].token = None
<1>1. jobs[j] \in JobRow /\ jobs \in [Jobs -> JobRow]
  BY DEF TypeOK
<1> DEFINE row == [jobs[j] EXCEPT !.status = status, !.to = None, !.token = None]
<1>2. /\ row \in JobRow
      /\ row.status = status
      /\ row.attempts = jobs[j].attempts
      /\ row.to = None
      /\ row.token = None
  BY <1>1 DEF JobRow, JobStatus
<1>3. Finished(j, status) = [jobs EXCEPT ![j] = row]
  BY <1>1 DEF Finished
<1> HIDE DEF row
<1> QED
  BY <1>1, <1>2, <1>3

\* Mail carried by a changed job is mail it carried before.
LEMMA FewerCarried ==
    ASSUME CarryInv, UNCHANGED <<email, verified, tokens, mailed>>,
           \A j \in Jobs, t \in Tokens, a \in Addresses :
              jobs'[j].token = t /\ jobs'[j].to = a => Carries(j, t, a)
    PROVE  CarryInv'
<1> SUFFICES ASSUME NEW j \in Jobs, NEW t \in Tokens, NEW a \in Addresses, Carries(j, t, a)'
             PROVE  /\ tokens[t].state # "unissued"
                    /\ tokens[t].kind = "reset" /\ Live(t) =>
                          tokens[t].user \in Users /\ HasAddress(tokens[t].user, a)
  BY DEF CarryInv, Live, HasAddress
<1>1. Carries(j, t, a)
  BY DEF Carries
<1> QED
  BY <1>1 DEF CarryInv

\* A step that leaves accounts alone leaves what is known of them.
LEMMA SameAccounts ==
    ASSUME OutboxInv, UNCHANGED accountVars
    PROVE  TokenInv' /\ VerifiedInv'
  BY DEF OutboxInv, accountVars, TokenInv, OneLiveToken, Live, VerifiedInv

\* A discarded job leaves the queue and loses what it carried.
LEMMA DiscardStep ==
    ASSUME OutboxAssumption, OutboxInv, NEW j \in Jobs, DiscardJob(j)
    PROVE  OutboxInv'
<1>1. /\ Picks(j)
      /\ jobs' = Finished(j, "discarded")
      /\ queue' = Tail(queue)
      /\ UNCHANGED <<accountVars, workerVars, mailVars>>
  BY DEF DiscardJob
<1>2. TypeOK /\ QueueInv /\ working = None /\ jobs[j].status = "pending"
  BY <1>1, PickedJob DEF OutboxInv
<1>3. /\ jobs' \in [Jobs -> JobRow]
      /\ \A i \in Jobs \ {j} : jobs'[i] = jobs[i]
      /\ jobs'[j].status = "discarded"
      /\ jobs'[j].attempts = jobs[j].attempts
      /\ jobs'[j].to = None
      /\ jobs'[j].token = None
  BY <1>1, <1>2, FinishedRow
<1>4. queue' \in Seq(Jobs) /\ QueueInv'
  BY <1>1, <1>2, <1>3, PickKeepsQueue
<1>5. TypeOK'
  BY <1>1, <1>2, <1>3, <1>4 DEF TypeOK, accountVars, workerVars, mailVars
<1>6. AttemptBudget' /\ OutcomeIsTrue' /\ CountInv'
  BY <1>1, <1>2, <1>3 DEF OutboxInv, AttemptBudget, OutcomeIsTrue, CountInv, workerVars, mailVars
<1>7. MailInv'
  BY <1>1, <1>3 DEF OutboxInv, MailInv, Open, NeedsToken, mailVars
<1>8. CarryInv'
  BY <1>1, <1>3, FewerCarried DEF OutboxInv, OutboxAssumption, Carries, accountVars, mailVars
<1> QED
  BY <1>1, <1>4, <1>5, <1>6, <1>7, <1>8, SameAccounts DEF OutboxInv

\* The attempt is counted before anything is sent.
LEMMA SendingStep ==
    ASSUME OutboxAssumption, OutboxInv, NEW j \in Jobs, NEW t \in Tokens \cup {None},
           Picks(j), Sending(j, t),
           mailed[j] \subseteq {<<t, jobs[j].to>>},
           jobs[j].kind = "reset" => t # None,
           tokens' \in [Tokens -> TokenRow], TokenInv', CarryInv'
    PROVE  OutboxInv'
<1>1. /\ working' = j
      /\ result' = "none"
      /\ queue' = Tail(queue)
      /\ jobs' = [jobs EXCEPT ![j].status = "sending", ![j].attempts = @ + 1, ![j].token = t]
      /\ UNCHANGED <<email, verified, pending, key, restarts, mailVars>>
  BY DEF Sending
<1>2. TypeOK /\ QueueInv /\ working = None /\ jobs[j].status = "pending"
  BY PickedJob DEF OutboxInv
<1>3. jobs[j].attempts \in 0..2 /\ deliveries[j] \in Nat /\ deliveries[j] <= jobs[j].attempts
  BY <1>2 DEF OutboxInv, CountInv, AttemptBudget, TypeOK, JobRow, MaxAttempts
<1>4. /\ jobs' \in [Jobs -> JobRow]
      /\ \A i \in Jobs \ {j} : jobs'[i] = jobs[i]
      /\ jobs'[j].status = "sending"
      /\ jobs'[j].attempts = jobs[j].attempts + 1
      /\ jobs'[j].kind = jobs[j].kind
      /\ jobs'[j].to = jobs[j].to
      /\ jobs'[j].token = t
  BY <1>1, <1>2, <1>3 DEF TypeOK, JobRow, JobStatus, MaxAttempts
<1>5. queue' \in Seq(Jobs) /\ QueueInv'
  BY <1>1, <1>2, <1>4, PickKeepsQueue
<1>6. TypeOK'
  BY <1>1, <1>2, <1>4, <1>5 DEF TypeOK, mailVars
<1>7. AttemptBudget'
  BY <1>1, <1>3, <1>4 DEF OutboxInv, AttemptBudget, mailVars, MaxAttempts
<1>8. OutcomeIsTrue'
  BY <1>1, <1>4 DEF OutboxInv, OutcomeIsTrue, mailVars
<1>9. CountInv'
  BY <1>1, <1>2, <1>3, <1>4 DEF OutboxInv, CountInv, mailVars, OutboxAssumption
<1>10. MailInv'
  BY <1>1, <1>2, <1>4 DEF OutboxInv, MailInv, Open, NeedsToken, mailVars
<1>11. VerifiedInv'
  BY <1>1 DEF OutboxInv, VerifiedInv
<1> QED
  BY <1>5, <1>6, <1>7, <1>8, <1>9, <1>10, <1>11 DEF OutboxInv

\* A reset gets its token when it is first sent, and voids the user's earlier ones.
LEMMA PickResetStep ==
    ASSUME OutboxAssumption, OutboxInv, NEW j \in Jobs, NEW u \in Users, NEW t \in Tokens,
           PickReset(j, u, t)
    PROVE  OutboxInv'
<1> DEFINE row == [state |-> "live", kind |-> "reset", user |-> u, email |-> None]
<1>1. /\ Picks(j) /\ Sending(j, t)
      /\ NeedsToken(j)
      /\ HasAddress(u, jobs[j].to)
      /\ tokens[t].state = "unissued"
      /\ tokens' = Issued(t, row, ResetTokens(u))
      /\ UNCHANGED <<email, verified, mailed>>
  BY DEF PickReset, Sending, mailVars, VoidedByReset
<1>2. /\ TokenInv'
      /\ tokens' \in [Tokens -> TokenRow]
      /\ tokens'[t] = row
      /\ \A s \in Tokens \ {t} : tokens'[s] = Invalidated(ResetTokens(u))[s]
  <2>1. row \in TokenRow /\ row.user \in Users /\ row.kind = "reset"
    BY DEF TokenRow
  <2>2. \A s \in Tokens : tokens[s].kind = row.kind /\ tokens[s].user = row.user
                             => s \in ResetTokens(u)
    BY DEF ResetTokens
  <2>3. tokens' = Issued(t, row, ResetTokens(u))
    BY <1>1
  <2> HIDE DEF row
  <2> QED BY <2>1, <2>2, <2>3, IssuedKeepsOne DEF OutboxInv
<1>3. TypeOK /\ QueueInv /\ jobs[j].status = "pending"
  BY <1>1, PickedJob DEF OutboxInv
<1>4. mailed[j] = {}
  BY <1>1, <1>3 DEF OutboxInv, MailInv, Open
<1>5. CarryInv'
  <2> SUFFICES ASSUME NEW i \in Jobs, NEW s \in Tokens, NEW a \in Addresses, Carries(i, s, a)'
               PROVE  /\ tokens'[s].state # "unissued"
                      /\ tokens'[s].kind = "reset" /\ tokens'[s].state = "live" =>
                            /\ tokens'[s].user \in Users
                            /\ verified'[tokens'[s].user] /\ email'[tokens'[s].user] = a
    BY DEF CarryInv, Live, HasAddress
  <2>1. \/ Carries(i, s, a)
        \/ i = j /\ s = t /\ jobs[j].to = a
    BY <1>1, <1>3 DEF Carries, Sending, TypeOK, JobRow
  <2>2. CASE Carries(i, s, a)
    <3>1. /\ tokens[s].state # "unissued"
          /\ tokens[s].kind = "reset" /\ Live(s) =>
                tokens[s].user \in Users /\ HasAddress(tokens[s].user, a)
      BY <2>2 DEF OutboxInv, CarryInv
    <3>2. s # t
      BY <1>1, <3>1
    <3>3. /\ tokens'[s].kind = tokens[s].kind
          /\ tokens'[s].user = tokens[s].user
          /\ tokens'[s].state = "live" => Live(s)
          /\ tokens'[s].state = "unissued" => tokens[s].state = "unissued"
      BY <1>2, <1>3, <3>2, InvalidatedTokens
    <3> QED BY <1>1, <3>1, <3>3 DEF HasAddress
  <2>3. CASE i = j /\ s = t /\ jobs[j].to = a
    BY <1>1, <1>2, <2>3 DEF HasAddress
  <2> QED BY <2>1, <2>2, <2>3
<1>6. mailed[j] \subseteq {<<t, jobs[j].to>>} /\ t # None
  BY <1>4 DEF OutboxAssumption
<1> QED
  BY <1>1, <1>2, <1>5, <1>6, SendingStep

\* A retry, or a job that needs no token of its own, carries what it carried.
LEMMA PickJobStep ==
    ASSUME OutboxAssumption, OutboxInv, NEW j \in Jobs, PickJob(j)
    PROVE  OutboxInv'
<1> DEFINE t == jobs[j].token
<1>1. /\ Picks(j) /\ Sending(j, t)
      /\ ~NeedsToken(j)
      /\ UNCHANGED <<accountVars, mailed>>
  BY DEF PickJob, Sending, mailVars, accountVars
<1>2. TypeOK /\ jobs[j].status = "pending"
  BY <1>1, PickedJob DEF OutboxInv
<1>3. t \in Tokens \cup {None}
  BY <1>2 DEF TypeOK, JobRow
<1>4. mailed[j] \subseteq {<<t, jobs[j].to>>}
  BY <1>2 DEF OutboxInv, MailInv, Open
<1>5. jobs[j].kind = "reset" => t # None
  BY <1>1 DEF NeedsToken
<1>6. \A i \in Jobs : jobs'[i].token = jobs[i].token /\ jobs'[i].to = jobs[i].to
  BY <1>1, <1>2 DEF Sending, TypeOK, JobRow
<1>7. CarryInv'
  BY <1>1, <1>6, FewerCarried DEF OutboxInv, Carries, accountVars
<1>8. TokenInv' /\ tokens' \in [Tokens -> TokenRow]
  BY <1>1, <1>2, SameAccounts DEF accountVars, TypeOK
<1> HIDE DEF t
<1> QED
  BY <1>1, <1>3, <1>4, <1>5, <1>7, <1>8, SendingStep

\* What an exchange delivers is the one thing the job carries.
LEMMA ExchangeStep ==
    ASSUME OutboxAssumption, OutboxInv,
           NEW accepted \in BOOLEAN, NEW returned \in {"accepted", "error"},
           returned = "accepted" => accepted,
           Exchange(accepted, returned)
    PROVE  OutboxInv'
<1>1. /\ working \in Jobs /\ jobs[working].status = "sending"
      /\ deliveries[working] < jobs[working].attempts
      /\ jobs[working] \in JobRow /\ deliveries[working] \in Nat
      /\ jobs[working].attempts \in Nat
      /\ jobs[working].to \in Addresses
  BY DEF Exchange, OutboxInv, TypeOK, CountInv, JobRow, MailInv, Open
<1>2. /\ result = "none" /\ working # None
      /\ result' = returned
      /\ UNCHANGED <<accountVars, jobs, queue, working, key, restarts, unrecorded>>
  BY DEF Exchange
<1>3. /\ deliveries' \in [Jobs -> Nat]
      /\ mailed' \in [Jobs -> SUBSET ((Tokens \cup {None}) \X Addresses)]
      /\ \A j \in Jobs \ {working} : deliveries'[j] = deliveries[j] /\ mailed'[j] = mailed[j]
      /\ deliveries'[working] \in {deliveries[working], deliveries[working] + 1}
      /\ returned = "accepted" => deliveries'[working] = deliveries[working] + 1
      /\ mailed'[working] \subseteq mailed[working] \cup
                                       {<<jobs[working].token, jobs[working].to>>}
  <2>1. CASE accepted
    <3>1. /\ deliveries' = [deliveries EXCEPT ![working] = @ + 1]
          /\ mailed' = [mailed EXCEPT ![working] =
                           @ \cup {<<jobs[working].token, jobs[working].to>>}]
      BY <2>1 DEF Exchange
    <3>2. <<jobs[working].token, jobs[working].to>> \in (Tokens \cup {None}) \X Addresses
      BY <1>1 DEF JobRow
    <3> QED BY <1>1, <3>1, <3>2 DEF OutboxInv, TypeOK
  <2>2. CASE ~accepted
    BY <1>1, <2>2 DEF Exchange, OutboxInv, TypeOK
  <2> QED BY <2>1, <2>2
<1>4. TypeOK'
  BY <1>2, <1>3 DEF OutboxInv, TypeOK, accountVars
<1>5. QueueInv'
  BY <1>2 DEF OutboxInv, QueueInv
<1>6. AttemptBudget'
  <2> SUFFICES ASSUME NEW j \in Jobs
               PROVE  deliveries'[j] <= jobs[j].attempts /\ jobs[j].attempts <= MaxAttempts
    BY <1>2 DEF AttemptBudget
  <2>1. CASE j = working
    BY <2>1, <1>1, <1>3 DEF OutboxInv, AttemptBudget
  <2>2. CASE j # working
    BY <2>2, <1>3 DEF OutboxInv, AttemptBudget
  <2> QED BY <2>1, <2>2
<1>7. OutcomeIsTrue'
  BY <1>1, <1>2, <1>3 DEF OutboxInv, OutcomeIsTrue
<1>8. CountInv'
  BY <1>1, <1>2, <1>3 DEF OutboxInv, CountInv
<1>9. MailInv'
  <2> SUFFICES ASSUME NEW j \in Jobs
               PROVE  /\ jobs[j].status = "none" => mailed'[j] = {}
                      /\ Open(j) => mailed'[j] \subseteq {<<jobs[j].token, jobs[j].to>>}
                      /\ Open(j) => jobs[j].to # None
                      /\ Open(j) /\ NeedsToken(j) =>
                            jobs[j].status = "pending" /\ mailed'[j] = {}
                      /\ \A m, n \in mailed'[j] : m = n
    BY <1>2 DEF MailInv, Open, NeedsToken
  <2>1. CASE j = working
    <3>1. mailed'[j] \subseteq {<<jobs[j].token, jobs[j].to>>}
      BY <2>1, <1>1, <1>3 DEF OutboxInv, MailInv, Open
    <3> QED BY <2>1, <3>1, <1>1 DEF OutboxInv, MailInv, Open
  <2>2. CASE j # working
    BY <2>2, <1>3 DEF OutboxInv, MailInv
  <2> QED BY <2>1, <2>2
<1>10. CarryInv'
  <2> SUFFICES ASSUME NEW j \in Jobs, NEW t \in Tokens, NEW a \in Addresses,
                      Carries(j, t, a)'
               PROVE  Carries(j, t, a)
    BY <1>2 DEF OutboxInv, CarryInv, Live, HasAddress, accountVars
  <2> QED BY <1>2, <1>3 DEF Carries
<1> QED
  BY <1>2, <1>4, <1>5, <1>6, <1>7, <1>8, <1>9, <1>10, SameAccounts DEF OutboxInv

\* A job that was being sent ends, or is pending again with an attempt left.
Settles(j) ==
    /\ jobs'[j] \in JobRow
    /\ jobs'[j].attempts = jobs[j].attempts
    /\ \/ /\ jobs'[j].status = "sent" /\ deliveries[j] > 0
          /\ jobs'[j].token = None /\ jobs'[j].to = None
       \/ /\ jobs'[j].status = "failed" /\ jobs[j].attempts = MaxAttempts
          /\ jobs'[j].token = None /\ jobs'[j].to = None
       \/ /\ jobs'[j].status = "pending" /\ jobs[j].attempts < MaxAttempts
          /\ jobs'[j].kind = jobs[j].kind
          /\ jobs'[j].token = jobs[j].token
          /\ jobs'[j].to = jobs[j].to

\* The worker has no job after this step, and the jobs being sent settle or stay.
LEMMA SettledKeepsInv ==
    ASSUME OutboxAssumption, OutboxInv,
           jobs' \in [Jobs -> JobRow],
           \A j \in Jobs : jobs'[j] = jobs[j] \/ (jobs[j].status = "sending" /\ Settles(j)),
           working' = None, result' = "none", key' \in Keys, restarts' \in 0..MaxRestarts,
           unrecorded' \subseteq Jobs,
           UNCHANGED <<accountVars, queue, deliveries, mailed>>
    PROVE  OutboxInv'
<1>1. TypeOK'
  BY DEF OutboxInv, TypeOK, accountVars
<1>2. QueueInv'
  <2>1. \A i \in 1..Len(queue) : queue[i] \in Jobs /\ jobs[queue[i]].status = "pending"
    BY DEF OutboxInv, TypeOK, QueueInv
  <2>2. \A i \in 1..Len(queue) : jobs'[queue[i]] = jobs[queue[i]]
    BY <2>1
  <2> QED BY <2>1, <2>2, SameQueue DEF OutboxInv
<1>3. AttemptBudget'
  <2>1. \A j \in Jobs : jobs'[j].attempts = jobs[j].attempts
    BY DEF Settles
  <2> QED BY <2>1 DEF OutboxInv, AttemptBudget
<1>4. OutcomeIsTrue'
  BY DEF OutboxInv, OutcomeIsTrue, Settles
<1>5. CountInv'
  BY DEF OutboxInv, CountInv, Settles
<1>6. MailInv'
  <2> SUFFICES ASSUME NEW j \in Jobs
               PROVE  /\ jobs'[j].status = "none" => mailed[j] = {}
                      /\ Open(j)' => mailed[j] \subseteq {<<jobs'[j].token, jobs'[j].to>>}
                      /\ Open(j)' => jobs'[j].to # None
                      /\ Open(j)' /\ NeedsToken(j)' =>
                            jobs'[j].status = "pending" /\ mailed[j] = {}
                      /\ \A m, n \in mailed[j] : m = n
    BY DEF MailInv
  <2>1. CASE jobs'[j] = jobs[j]
    BY <2>1 DEF OutboxInv, MailInv, Open, NeedsToken
  <2>2. CASE jobs[j].status = "sending" /\ Settles(j)
    BY <2>2 DEF OutboxInv, MailInv, Open, NeedsToken, Settles
  <2> QED BY <2>1, <2>2
<1>7. CarryInv'
  <2>1. \A j \in Jobs, t \in Tokens, a \in Addresses :
           jobs'[j].token = t /\ jobs'[j].to = a => Carries(j, t, a)
    BY DEF Settles, Carries, OutboxAssumption
  <2> QED BY <2>1, FewerCarried DEF OutboxInv, accountVars
<1> QED
  BY <1>1, <1>2, <1>3, <1>4, <1>5, <1>6, <1>7, SameAccounts DEF OutboxInv

\* The outcome is written down: sent, failed, or to be tried again.
LEMMA FinishStep ==
    ASSUME OutboxAssumption, OutboxInv, FinishJob
    PROVE  OutboxInv'
<1> DEFINE retried == [jobs EXCEPT ![working].status = "pending"]
<1>1. /\ working \in Jobs /\ working # None /\ jobs[working].status = "sending"
      /\ jobs[working] \in JobRow /\ jobs[working].attempts \in 0..MaxAttempts
      /\ deliveries \in [Jobs -> Nat]
      /\ result = "accepted" => deliveries[working] > 0
      /\ result # "none"
      /\ working' = None /\ result' = "none"
      /\ UNCHANGED <<accountVars, queue, key, restarts, mailVars>>
  BY DEF FinishJob, OutboxInv, TypeOK, CountInv, JobRow
<1>2. TypeOK
  BY DEF OutboxInv
<1>3. CASE result = "accepted"
  <2>1. jobs' = Finished(working, "sent")
    BY <1>3 DEF FinishJob
  <2>2. /\ jobs' \in [Jobs -> JobRow]
        /\ \A i \in Jobs \ {working} : jobs'[i] = jobs[i]
        /\ Settles(working)
    BY <1>1, <1>2, <1>3, <2>1, FinishedRow DEF Settles
  <2> QED BY <1>1, <1>2, <2>2, SettledKeepsInv DEF TypeOK, mailVars
<1>4. CASE result # "accepted" /\ jobs[working].attempts >= MaxAttempts
  <2>1. jobs' = Finished(working, "failed")
    BY <1>4 DEF FinishJob
  <2>2. jobs[working].attempts = MaxAttempts
    BY <1>1, <1>4 DEF MaxAttempts
  <2>3. /\ jobs' \in [Jobs -> JobRow]
        /\ \A i \in Jobs \ {working} : jobs'[i] = jobs[i]
        /\ Settles(working)
    BY <1>1, <1>2, <2>1, <2>2, FinishedRow DEF Settles
  <2> QED BY <1>1, <1>2, <2>3, SettledKeepsInv DEF TypeOK, mailVars
<1>5. CASE result # "accepted" /\ ~(jobs[working].attempts >= MaxAttempts)
  <2>1. jobs' = retried
    BY <1>5 DEF FinishJob
  <2>2. jobs[working].attempts < MaxAttempts
    BY <1>1, <1>5 DEF MaxAttempts
  <2>3. /\ jobs' \in [Jobs -> JobRow]
        /\ \A i \in Jobs \ {working} : jobs'[i] = jobs[i]
        /\ Settles(working)
    BY <1>1, <1>2, <2>1, <2>2 DEF TypeOK, JobRow, JobStatus, Settles
  <2> QED BY <1>1, <1>2, <2>3, SettledKeepsInv DEF TypeOK, mailVars
<1> QED
  BY <1>3, <1>4, <1>5

\* The outcome is lost: the job stays in sending.
LEMMA FinishFailsStep ==
    ASSUME OutboxAssumption, OutboxInv, FinishFails
    PROVE  OutboxInv'
<1>1. /\ working \in Jobs
      /\ working' = None /\ result' = "none"
      /\ unrecorded' = unrecorded \cup {working}
      /\ UNCHANGED <<accountVars, jobs, queue, key, restarts, deliveries, mailed>>
  BY DEF FinishFails, OutboxInv, TypeOK
<1> QED
  BY <1>1, SettledKeepsInv DEF OutboxInv, TypeOK

\* A repaired job settles: it is pending again, or has failed for good.
LEMMA RestartStep ==
    ASSUME OutboxAssumption, OutboxInv, NEW k \in Keys, Restart(k)
    PROVE  OutboxInv'
<1>1. /\ restarts' \in 0..MaxRestarts
      /\ key' \in Keys
      /\ working' = None /\ result' = "none"
      /\ unrecorded' = {}
      /\ jobs' = [j \in Jobs |-> Repaired(j)]
      /\ UNCHANGED <<accountVars, queue, deliveries, mailed>>
  BY DEF Restart, OutboxInv, TypeOK, OutboxAssumption
<1>2. ASSUME NEW j \in Jobs
      PROVE  /\ jobs'[j] \in JobRow
             /\ jobs'[j] = jobs[j] \/ (jobs[j].status = "sending" /\ Settles(j))
  <2>1. TypeOK /\ jobs[j] \in JobRow /\ jobs'[j] = Repaired(j)
    BY <1>1 DEF OutboxInv, TypeOK
  <2>2. jobs[j].attempts \in 0..MaxAttempts
    BY <2>1 DEF JobRow
  <2>3. CASE jobs[j].status # "sending"
    BY <2>1, <2>3 DEF Repaired
  <2>4. CASE jobs[j].status = "sending" /\ jobs[j].attempts < MaxAttempts
    <3>1. jobs'[j] = [jobs[j] EXCEPT !.status = "pending"]
      BY <2>1, <2>4 DEF Repaired
    <3> QED BY <2>1, <2>4, <3>1 DEF JobRow, JobStatus, Settles
  <2>5. CASE jobs[j].status = "sending" /\ ~(jobs[j].attempts < MaxAttempts)
    <3>1. jobs'[j] = Finished(j, "failed")[j]
      BY <2>1, <2>5 DEF Repaired
    <3>2. jobs[j].attempts = MaxAttempts
      BY <2>2, <2>5 DEF MaxAttempts
    <3> QED BY <2>1, <2>5, <3>1, <3>2, FinishedRow DEF Settles
  <2> QED BY <2>3, <2>4, <2>5
<1>3. jobs' \in [Jobs -> JobRow]
  BY <1>1, <1>2
<1> QED
  BY <1>1, <1>2, <1>3, SettledKeepsInv

\* A job whose time has come is queued behind those that were due before.
LEMMA DueStep ==
    ASSUME OutboxAssumption, OutboxInv, NEW j \in Jobs, BecomesDue(j)
    PROVE  OutboxInv'
<1>1. /\ jobs[j].status = "pending"
      /\ \A i \in 1..Len(queue) : queue[i] # j
      /\ queue' = Append(queue, j)
      /\ UNCHANGED <<accountVars, jobs, workerVars, mailVars>>
  BY DEF BecomesDue
<1>2. /\ queue \in Seq(Jobs)
      /\ queue' \in Seq(Jobs)
      /\ Len(queue) \in Nat
      /\ Len(queue') = Len(queue) + 1
      /\ \A i \in 1..Len(queue) : queue'[i] = queue[i]
      /\ queue'[Len(queue) + 1] = j
  BY <1>1 DEF OutboxInv, TypeOK
<1>3. \A i \in 1..Len(queue') : i \in 1..Len(queue) \/ i = Len(queue) + 1
  BY <1>2
<1>4. QueueInv'
  <2>1. \A i \in 1..Len(queue') : jobs'[queue'[i]].status = "pending"
    BY <1>1, <1>2, <1>3 DEF OutboxInv, QueueInv
  <2>2. \A i, k \in 1..Len(queue') : queue'[i] = queue'[k] => i = k
    BY <1>1, <1>2, <1>3 DEF OutboxInv, QueueInv
  <2> QED BY <2>1, <2>2 DEF QueueInv
<1>5. TypeOK'
  BY <1>1, <1>2 DEF OutboxInv, TypeOK, accountVars, workerVars, mailVars
<1>6. AttemptBudget' /\ OutcomeIsTrue' /\ CountInv'
  BY <1>1 DEF OutboxInv, AttemptBudget, OutcomeIsTrue, CountInv, workerVars, mailVars
<1>7. MailInv' /\ CarryInv'
  BY <1>1 DEF OutboxInv, MailInv, CarryInv, Carries, Open, NeedsToken, Live, HasAddress,
              accountVars, mailVars
<1> QED
  BY <1>1, <1>4, <1>5, <1>6, <1>7, SameAccounts DEF OutboxInv

-------------------------------------------------------------------------------
(* Theorems *)

\* The empty outbox satisfies the invariant.
LEMMA InitIsSafe == OutboxAssumption /\ Init => OutboxInv
<1> SUFFICES ASSUME OutboxAssumption, Init PROVE OutboxInv
  OBVIOUS
<1>1. /\ \A j \in Jobs : jobs[j] = NoJob /\ mailed[j] = {} /\ deliveries[j] = 0
      /\ \A t \in Tokens : tokens[t] = NoToken
      /\ \A u \in Users : ~verified[u]
      /\ queue = <<>> /\ working = None /\ result = "none"
  BY DEF Init
<1>2. TypeOK
  BY DEF Init, OutboxAssumption, TypeOK, NoJob, NoToken, JobRow, TokenRow, JobStatus, MaxAttempts
<1>3. QueueInv
  BY <1>1 DEF QueueInv
<1>4. AttemptBudget /\ OutcomeIsTrue /\ CountInv
  BY <1>1 DEF AttemptBudget, OutcomeIsTrue, CountInv, NoJob, MaxAttempts
<1>5. MailInv
  BY <1>1 DEF MailInv, Open, NoJob
<1>6. CarryInv
  BY <1>1 DEF CarryInv, Carries, NoJob, OutboxAssumption
<1>7. TokenInv /\ VerifiedInv
  BY <1>1 DEF TokenInv, OneLiveToken, VerifiedInv, Live, NoToken
<1> QED
  BY <1>2, <1>3, <1>4, <1>5, <1>6, <1>7 DEF OutboxInv

\* Every request, step of the worker and restart keeps the invariant.
LEMMA StepKeepsInv ==
    ASSUME OutboxAssumption, OutboxInv, [Next]_vars
    PROVE  OutboxInv'
<1>1. CASE Request
  BY <1>1, RequestStep
<1>2. CASE Pick
  <2>1. ASSUME NEW j \in Jobs, DiscardJob(j) PROVE OutboxInv'
    BY <2>1, DiscardStep
  <2>2. ASSUME NEW j \in Jobs, NEW u \in Users, NEW t \in Tokens, PickReset(j, u, t)
        PROVE  OutboxInv'
    BY <2>2, PickResetStep
  <2>3. ASSUME NEW j \in Jobs, PickJob(j) PROVE OutboxInv'
    BY <2>3, PickJobStep
  <2> QED BY <1>2, <2>1, <2>2, <2>3, Zenon DEF Pick
<1>3. CASE SendReturns
  <2>1. CASE Exchange(TRUE, "accepted")
    BY <2>1, ExchangeStep
  <2>2. ASSUME NEW accepted \in BOOLEAN, Exchange(accepted, "error") PROVE OutboxInv'
    BY <2>2, ExchangeStep
  <2> QED BY <1>3, <2>1, <2>2, Zenon DEF SendReturns
<1>4. CASE FinishJob
  BY <1>4, FinishStep
<1>5. CASE FinishFails
  BY <1>5, FinishFailsStep
<1>6. ASSUME NEW j \in Jobs, BecomesDue(j) PROVE OutboxInv'
  BY <1>6, DueStep
<1>7. ASSUME NEW k \in Keys, Restart(k) PROVE OutboxInv'
  BY <1>7, RestartStep
<1>8. CASE UNCHANGED vars
  BY <1>8 DEF vars, accountVars, workerVars, mailVars, OutboxInv, TypeOK, VerifiedInv, QueueInv,
              AttemptBudget, OutcomeIsTrue, CountInv, MailInv, CarryInv, Carries, TokenInv,
              OneLiveToken, Open, NeedsToken, Live, HasAddress
<1> QED
  BY <1>1, <1>2, <1>3, <1>4, <1>5, <1>6, <1>7, <1>8, Zenon DEF Next

\* The invariant holds of every outbox.
THEOREM OutboxInvariant == Spec => []OutboxInv
<1>1. Init => OutboxInv
  BY InitIsSafe, OutboxAssumption
<1>2. OutboxInv /\ [Next]_vars => OutboxInv'
  BY StepKeepsInv, OutboxAssumption
<1> QED
  BY <1>1, <1>2, PTL DEF Spec

\* No job is sent more often than it may be, a retry repeats the message, a user has
\* one live token of each kind, and what a finished job says is what happened.
THEOREM OutboxSafety ==
    Spec => [](TypeOK /\ AttemptBudget /\ OutcomeIsTrue /\ OneLiveToken /\ StableToken)
<1>1. OutboxInv => StableToken
  <2> SUFFICES ASSUME OutboxInv, NEW j \in Jobs PROVE Cardinality(mailed[j]) <= 1
    BY DEF StableToken
  <2>1. \A m, n \in mailed[j] : m = n
    BY DEF OutboxInv, MailInv
  <2>2. CASE mailed[j] = {}
    BY <2>2, FS_EmptySet
  <2>3. CASE mailed[j] # {}
    <3>1. PICK m \in mailed[j] : TRUE
      BY <2>3
    <3>2. mailed[j] = {m}
      BY <3>1, <2>1
    <3> QED BY <3>2, FS_Singleton
  <2> QED BY <2>2, <2>3
<1>2. OutboxInv => TypeOK /\ AttemptBudget /\ OutcomeIsTrue /\ OneLiveToken
  BY DEF OutboxInv, TokenInv
<1> QED
  BY <1>1, <1>2, OutboxInvariant, PTL

\* A reset link that still works was mailed to the owner's present address only.
THEOREM ResetSafety == Spec => []ResetReachesOwner
<1>1. OutboxInv => ResetReachesOwner
  <2> SUFFICES ASSUME OutboxInv, NEW j \in Jobs, NEW m \in mailed[j], m[1] # None,
                      tokens[m[1]].kind = "reset", Live(m[1])
               PROVE  HasAddress(tokens[m[1]].user, m[2])
    BY DEF ResetReachesOwner
  <2>1. m \in (Tokens \cup {None}) \X Addresses
    BY DEF OutboxInv, TypeOK
  <2>2. m[1] \in Tokens /\ m[2] \in Addresses /\ <<m[1], m[2]>> \in mailed[j]
    BY <2>1
  <2>3. Carries(j, m[1], m[2])
    BY <2>2 DEF Carries
  <2> QED BY <2>2, <2>3 DEF OutboxInv, CarryInv
<1> QED
  BY <1>1, OutboxInvariant, PTL

-------------------------------------------------------------------------------
(* The queue never exceeds its limit *)

OpenJobs == {j \in Jobs : Open(j)}

\* The open jobs can be counted.
LEMMA OpenJobsAreFinite ==
    ASSUME OutboxAssumption
    PROVE  /\ IsFiniteSet(OpenJobs) /\ OpenCount = Cardinality(OpenJobs) /\ OpenCount \in Nat
           /\ IsFiniteSet(OpenJobs') /\ OpenCount' = Cardinality(OpenJobs')
<1>1. OpenJobs \in SUBSET Jobs /\ OpenJobs' \in SUBSET Jobs
  BY DEF OpenJobs
<1>2. IsFiniteSet(OpenJobs) /\ IsFiniteSet(OpenJobs')
  BY <1>1, FS_Subset DEF OutboxAssumption
<1>3. OpenCount = Cardinality(OpenJobs) /\ OpenCount' = Cardinality(OpenJobs')
  BY DEF OpenCount, OpenJobs
<1> QED
  BY <1>2, <1>3, FS_CardinalityType

\* A step that opens no job keeps the bound.
LEMMA OpensNone ==
    ASSUME OutboxAssumption, QueueBound, \A j \in Jobs : Open(j)' => Open(j)
    PROVE  QueueBound'
<1>1. OpenJobs' \in SUBSET OpenJobs
  BY DEF OpenJobs
<1>2. Cardinality(OpenJobs') <= Cardinality(OpenJobs)
  BY <1>1, OpenJobsAreFinite, FS_Subset
<1>3. Cardinality(OpenJobs') \in Nat /\ Cardinality(OpenJobs) \in Nat
  BY OpenJobsAreFinite, FS_CardinalityType
<1> QED
  BY <1>2, <1>3 DEF QueueBound, OpenJobs, OutboxAssumption

\* A step that opens at most n jobs keeps the bound when n more find room.
LEMMA OpensFew ==
    ASSUME OutboxAssumption, NEW n \in Nat, OpenCount + n <= Limit,
           NEW js \in [1..n -> Jobs],
           \A j \in Jobs : Open(j)' => Open(j) \/ \E i \in 1..n : js[i] = j
    PROVE  QueueBound'
<1> DEFINE opened == {js[i] : i \in 1..n}
<1>1. IsFiniteSet(1..n) /\ Cardinality(1..n) = n
  BY FS_Interval
<1>2. js \in Surjection(1..n, opened)
  BY DEF Surjection
<1>3. IsFiniteSet(opened) /\ Cardinality(opened) <= n
  BY <1>1, <1>2, FS_Surjection
<1>4. OpenJobs' \in SUBSET (OpenJobs \cup opened)
  BY DEF OpenJobs
<1> HIDE DEF opened
<1>5. /\ IsFiniteSet(OpenJobs \cup opened)
      /\ Cardinality(OpenJobs \cup opened) =
            OpenCount + Cardinality(opened) - Cardinality(OpenJobs \cap opened)
  BY <1>3, OpenJobsAreFinite, FS_Union
<1>6. Cardinality(opened) \in Nat /\ Cardinality(OpenJobs \cap opened) \in Nat
  BY <1>3, OpenJobsAreFinite, FS_Intersection, FS_CardinalityType
<1>7. Cardinality(OpenJobs') <= Cardinality(OpenJobs \cup opened)
  BY <1>4, <1>5, FS_Subset
<1>8. Cardinality(OpenJobs') \in Nat /\ Cardinality(OpenJobs \cup opened) \in Nat
  BY <1>5, OpenJobsAreFinite, FS_CardinalityType
<1>9. OpenCount \in Nat
  BY OpenJobsAreFinite
<1>10. Cardinality(OpenJobs') <= Limit
  BY <1>3, <1>5, <1>6, <1>7, <1>8, <1>9 DEF OutboxAssumption
<1> QED
  BY <1>10 DEF QueueBound, OpenJobs

\* enqueue opens one job, and refuses when there is no room for it.
LEMMA EnqueueKeepsBound ==
    ASSUME OutboxAssumption, TypeOK, NEW j \in Jobs, NEW kind, NEW a, NEW t,
           Enqueue(j, kind, a, t)
    PROVE  QueueBound'
<1> DEFINE js == [i \in 1..1 |-> j]
<1>1. js \in [1..1 -> Jobs] /\ js[1] = j
  OBVIOUS
<1>2. OpenCount + 1 <= Limit
  BY OpenJobsAreFinite DEF Enqueue, OutboxAssumption
<1>3. \A i \in Jobs : i # j => jobs'[i] = jobs[i]
  BY DEF Enqueue, TypeOK
<1>4. \A i \in Jobs : Open(i)' => Open(i) \/ \E k \in 1..1 : js[k] = i
  BY <1>1, <1>3 DEF Open
<1> HIDE DEF js
<1> QED
  BY <1>1, <1>2, <1>4, OpensFew

\* notification opens as many jobs as find room.
LEMMA NotifyKeepsBound ==
    ASSUME OutboxAssumption, QueueBound, NEW A, IsFiniteSet(A), Notify(A)
    PROVE  QueueBound'
<1> DEFINE room == IF OpenCount < Limit THEN Limit - OpenCount ELSE 0
           n == IF Cardinality(A) < room THEN Cardinality(A) ELSE room
<1>1. OpenCount \in Nat /\ OpenCount <= Limit /\ Cardinality(A) \in Nat
  BY OpenJobsAreFinite, FS_CardinalityType DEF QueueBound, OpenCount
<1>2. n \in Nat /\ OpenCount + n <= Limit
  BY <1>1 DEF OutboxAssumption
<1>3. \E js \in [1..n -> {j \in Jobs : jobs[j].status = "none"}],
         as \in [1..n -> A] : QueueNotifications(n, js, as)
  BY Zenon DEF Notify
<1> HIDE DEF n
<1>4. PICK js \in [1..n -> {j \in Jobs : jobs[j].status = "none"}],
           as \in [1..n -> A] : QueueNotifications(n, js, as)
  BY <1>3, Zenon
<1>5. js \in [1..n -> Jobs]
  BY <1>4
<1>6. jobs' = [j \in Jobs |->
                  IF \E i \in 1..n : js[i] = j
                  THEN NewJob("notification", as[CHOOSE i \in 1..n : js[i] = j], None)
                  ELSE jobs[j]]
  BY <1>4, Zenon DEF QueueNotifications
<1>7. \A j \in Jobs : jobs'[j] = jobs[j] \/ \E i \in 1..n : js[i] = j
  BY <1>6
<1>8. \A j \in Jobs : Open(j)' => Open(j) \/ \E i \in 1..n : js[i] = j
  BY <1>7 DEF Open
<1> QED
  BY <1>2, <1>5, <1>8, OpensFew

\* The verified address of a user is one address at most.
LEMMA KnownAddressIsFinite ==
    ASSUME NEW u, NEW a
    PROVE  IsFiniteSet(KnownAddress(u)) /\ IsFiniteSet(KnownAddress(u) \cup {a})
<1>1. IsFiniteSet(KnownAddress(u))
  BY FS_EmptySet, FS_Singleton DEF KnownAddress
<1> QED
  BY <1>1, FS_AddElement

\* A request queues no more jobs than find room.
LEMMA RequestKeepsBound ==
    ASSUME OutboxAssumption, TypeOK, QueueBound, Request
    PROVE  QueueBound'
<1>1. ASSUME NEW a \in Addresses, NEW j \in Jobs, RequestReset(a, j)
      PROVE  QueueBound'
  BY <1>1, EnqueueKeepsBound DEF RequestReset
<1>2. ASSUME NEW u \in Users, NEW a \in Addresses, NEW j \in Jobs, NEW t \in Tokens,
             Register(u, a, j, t) \/ ChangeEmail(u, a, j, t)
      PROVE  QueueBound'
  BY <1>2, EnqueueKeepsBound DEF Register, ChangeEmail, QueueVerification
<1>3. ASSUME NEW t \in Tokens, VerifyEmail(t)
      PROVE  QueueBound'
  BY <1>3, NotifyKeepsBound, KnownAddressIsFinite DEF VerifyEmail
<1>4. ASSUME NEW t \in Tokens, ResetPassword(t)
      PROVE  QueueBound'
  BY <1>4, NotifyKeepsBound, KnownAddressIsFinite DEF ResetPassword
<1>5. ASSUME NEW u \in Users, ChangePassword(u) \/ ChangeMfa(u)
      PROVE  QueueBound'
  BY <1>5, NotifyKeepsBound, KnownAddressIsFinite DEF ChangePassword, ChangeMfa
<1>6. ASSUME NEW t \in Tokens, Expire(t)
      PROVE  QueueBound'
  BY <1>6, OpensNone DEF Expire, Open
<1> QED
  BY <1>1, <1>2, <1>3, <1>4, <1>5, <1>6, Zenon DEF Request

\* The worker, a retry that becomes due and a repair open nothing.
LEMMA StepKeepsBound ==
    ASSUME OutboxAssumption, OutboxInv, QueueBound, [Next]_vars
    PROVE  QueueBound'
<1>1. TypeOK
  BY DEF OutboxInv
<1>2. CASE Request
  BY <1>1, <1>2, RequestKeepsBound
<1>3. ASSUME NEW j \in Jobs, DiscardJob(j) PROVE QueueBound'
  <2>1. jobs' = Finished(j, "discarded")
    BY <1>3 DEF DiscardJob
  <2> QED BY <1>1, <2>1, OpensNone DEF Finished, TypeOK, Open
<1>4. ASSUME NEW j \in Jobs, NEW t, Picks(j), Sending(j, t) PROVE QueueBound'
  <2>1. jobs[j].status = "pending"
    BY <1>1, <1>4, PickedJob DEF OutboxInv
  <2>2. \A i \in Jobs : i # j => jobs'[i] = jobs[i]
    BY <1>1, <1>4 DEF Sending, TypeOK
  <2> QED BY <2>1, <2>2, OpensNone DEF Open
<1>5. CASE Pick
  BY <1>3, <1>4, <1>5 DEF Pick, PickReset, PickJob
<1>6. CASE SendReturns \/ FinishFails
  BY <1>6, OpensNone DEF SendReturns, Exchange, FinishFails, Open
<1>7. CASE FinishJob
  <2>1. working \in Jobs /\ jobs[working].status = "sending"
    BY <1>7 DEF FinishJob, OutboxInv, TypeOK, CountInv
  <2>2. \A i \in Jobs : i # working => jobs'[i] = jobs[i]
    BY <1>1, <1>7, <2>1 DEF FinishJob, Finished, TypeOK
  <2> QED BY <2>1, <2>2, OpensNone DEF Open
<1>8. ASSUME NEW j \in Jobs, BecomesDue(j) PROVE QueueBound'
  BY <1>8, OpensNone DEF BecomesDue, Open
<1>9. ASSUME NEW k \in Keys, Restart(k) PROVE QueueBound'
  <2>1. \A j \in Jobs : jobs[j].status # "sending" => jobs'[j] = jobs[j]
    BY <1>9 DEF Restart, Repaired
  <2> QED BY <2>1, OpensNone DEF Open
<1>10. CASE UNCHANGED vars
  BY <1>10, OpensNone DEF vars, Open
<1> QED
  BY <1>2, <1>5, <1>6, <1>7, <1>8, <1>9, <1>10, Zenon DEF Next

\* The queue never holds more jobs than its limit, however requests that queue several
\* notifications, retries and repairs follow each other.
THEOREM QueueIsBounded == Spec => []QueueBound
<1>1. Init => QueueBound
  <2> SUFFICES ASSUME Init PROVE QueueBound
    OBVIOUS
  <2>1. {j \in Jobs : Open(j)} = {}
    BY DEF Init, Open, NoJob
  <2> QED BY <2>1, FS_EmptySet, OutboxAssumption DEF QueueBound, OutboxAssumption
<1>2. OutboxInv /\ QueueBound /\ [Next]_vars => QueueBound'
  BY StepKeepsBound, OutboxAssumption
<1> QED
  BY <1>1, <1>2, OutboxInvariant, PTL DEF Spec

=============================================================================
