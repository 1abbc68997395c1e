------------------------------ MODULE EmailOutbox ------------------------------
(***************************************************************************)
(* The queue of account emails: jobs in the database, the one worker that  *)
(* sends them (EmailOutbox.process_one), the tokens they carry, and the    *)
(* requests that queue jobs and use or replace tokens while a job waits.   *)
(*                                                                         *)
(* A request is one transaction.  The worker's pass is three steps: the    *)
(* transaction that picks a job, the SMTP exchange, the transaction that   *)
(* finishes it; the process may stop between any two.                      *)
(*                                                                         *)
(* Jobs are sent in the order of next_attempt_at.  A new job is due at     *)
(* once, a retried one becomes due later, so the queue of due jobs is      *)
(* ordered by when they became due; a pending job outside it waits for its *)
(* time.                                                                   *)
(*                                                                         *)
(* A definition marked "Faulty" is used by no action.                      *)
(***************************************************************************)
EXTENDS Naturals, Sequences, FiniteSets

CONSTANTS
    Users,
    Addresses,
    Jobs,           \* ids of email_jobs
    Tokens,         \* reset and verification tokens
    Keys,           \* values of settings.encryption_key
    Limit,          \* settings.email_outbox_limit
    MaxRestarts,    \* bound on the number of restarts
    None

ASSUME OutboxAssumption ==
    /\ IsFiniteSet(Jobs)
    /\ Limit \in Nat \ {0}
    /\ MaxRestarts \in Nat
    /\ None \notin Users \cup Addresses \cup Jobs \cup Tokens \cup Keys

MaxAttempts == 3

VARIABLES
    email,        \* users.email
    verified,     \* users.email_verified
    pending,      \* users.pending_email
    tokens,       \* rows of password_reset_tokens and email_verifications
    jobs,         \* rows of email_jobs
    queue,        \* the pending jobs that are due, oldest first
    working,      \* the job whose SMTP exchange the worker is in, or None
    result,       \* what the exchange returned
    key,          \* the encryption key of the running process
    restarts,
    unrecorded,   \* history: jobs whose outcome this process could not write down
    deliveries,   \* history: messages of a job accepted by the SMTP server
    mailed        \* history: what they carried and to whom

accountVars == <<email, verified, pending, tokens>>
workerVars == <<working, result, key, restarts>>
mailVars == <<unrecorded, deliveries, mailed>>
vars == <<accountVars, jobs, queue, workerVars, mailVars>>

-------------------------------------------------------------------------------
JobStatus == {"none", "pending", "sending", "sent", "failed", "discarded"}
JobRow == [status : JobStatus,
           kind : {"none", "notification", "reset", "verification"},
           to : Addresses \cup {None},
           token : Tokens \cup {None},
           attempts : 0..MaxAttempts,
           key : Keys \cup {None}]
TokenRow == [state : {"unissued", "live", "dead"},
             kind : {"none", "reset", "verification"},
             user : Users \cup {None},
             email : Addresses \cup {None}]
NoJob == [status |-> "none", kind |-> "none", to |-> None, token |-> None,
          attempts |-> 0, key |-> None]
NoToken == [state |-> "unissued", kind |-> "none", user |-> None, email |-> None]

TypeOK ==
    /\ email \in [Users -> Addresses \cup {None}]
    /\ verified \in [Users -> BOOLEAN]
    /\ pending \in [Users -> Addresses \cup {None}]
    /\ tokens \in [Tokens -> TokenRow]
    /\ jobs \in [Jobs -> JobRow]
    /\ queue \in Seq(Jobs)
    /\ working \in Jobs \cup {None}
    /\ result \in {"none", "accepted", "error"}
    /\ key \in Keys
    /\ restarts \in 0..MaxRestarts
    /\ unrecorded \subseteq Jobs
    /\ deliveries \in [Jobs -> Nat]
    /\ mailed \in [Jobs -> SUBSET ((Tokens \cup {None}) \X Addresses)]

Live(t) == tokens[t].state = "live"

\* The database keeps a hash: a token is known to whom it was mailed.
Known(t) == \E j \in Jobs : \E m \in mailed[j] : m[1] = t

ResetTokens(u) == {t \in Tokens : tokens[t].kind = "reset" /\ tokens[t].user = u}
Verifications(u) == {t \in Tokens : tokens[t].kind = "verification" /\ tokens[t].user = u}

\* The tokens in S are marked used, or have expired.
Invalidated(S) ==
    [t \in Tokens |-> IF t \in S THEN [tokens[t] EXCEPT !.state = "dead"] ELSE tokens[t]]

\* The tokens after t was issued and those in S were marked used.
Issued(t, row, S) == [Invalidated(S) EXCEPT ![t] = row]

Open(j) == jobs[j].status \in {"pending", "sending"}

\* Faulty: the job being sent is not counted.
RoomIgnoringSending == Cardinality({j \in Jobs : jobs[j].status = "pending"})
OpenCount == Cardinality({j \in Jobs : Open(j)})

-------------------------------------------------------------------------------
(* enqueue *)

NewJob(kind, to, token) ==
    [status |-> "pending", kind |-> kind, to |-> to, token |-> token,
     attempts |-> 0, key |-> key]

Enqueue(j, kind, to, token) ==
    /\ jobs[j].status = "none"
    /\ OpenCount < Limit
    /\ jobs' = [jobs EXCEPT ![j] = NewJob(kind, to, token)]
    /\ queue' = Append(queue, j)

\* The n addresses as are each told by a job of js.
QueueNotifications(n, js, as) ==
    /\ \A i, k \in 1..n : i # k => js[i] # js[k] /\ as[i] # as[k]
    /\ jobs' = [j \in Jobs |->
                   IF \E i \in 1..n : js[i] = j
                   THEN NewJob("notification", as[CHOOSE i \in 1..n : js[i] = j], None)
                   ELSE jobs[j]]
    /\ queue' = queue \o js

\* notification, for each of the addresses: those that find the queue full are
\* left out, and the change they tell of is made all the same.
Notify(addresses) ==
    LET room == IF OpenCount < Limit THEN Limit - OpenCount ELSE 0
        n == IF Cardinality(addresses) < room THEN Cardinality(addresses) ELSE room IN
    \E js \in [1..n -> {j \in Jobs : jobs[j].status = "none"}],
       as \in [1..n -> addresses] : QueueNotifications(n, js, as)

KnownAddress(u) == IF verified[u] THEN {email[u]} ELSE {}

-------------------------------------------------------------------------------
(* Requests *)

\* Recovery for an address, whoever it belongs to.
RequestReset(a, j) ==
    /\ Enqueue(j, "reset", a, None)
    /\ UNCHANGED <<accountVars, workerVars, mailVars>>

\* queue_verification: the earlier verifications of the user are void.
QueueVerification(u, a, j, t) ==
    /\ tokens[t].state = "unissued"
    /\ tokens' = Issued(t, [state |-> "live", kind |-> "verification", user |-> u, email |-> a],
                        Verifications(u))
    /\ pending' = [pending EXCEPT ![u] = a]
    /\ Enqueue(j, "verification", a, t)
    /\ UNCHANGED <<verified, workerVars, mailVars>>

\* An account registers with an address, which is its own until verified.
Register(u, a, j, t) ==
    /\ email[u] = None
    /\ pending[u] = None
    /\ \A v \in Users : email[v] # a
    /\ email' = [email EXCEPT ![u] = a]
    /\ QueueVerification(u, a, j, t)

\* A change of address, or the repetition of the verification it waits for.
ChangeEmail(u, a, j, t) ==
    /\ QueueVerification(u, a, j, t)
    /\ UNCHANGED email

\* Faulty: the reset tokens sent to the previous address stay valid.
VerifyEmailKeepingResets(t) ==
    LET u == tokens[t].user
        a == tokens[t].email IN
    /\ Known(t)
    /\ Live(t)
    /\ tokens[t].kind = "verification"
    /\ pending[u] = a
    /\ \A v \in Users \ {u} : email[v] # a
    /\ email' = [email EXCEPT ![u] = a]
    /\ verified' = [verified EXCEPT ![u] = TRUE]
    /\ pending' = [pending EXCEPT ![u] = None]
    /\ tokens' = Invalidated({t})
    /\ Notify(KnownAddress(u) \cup {a})
    /\ UNCHANGED <<workerVars, mailVars>>

VerifyEmail(t) ==
    LET u == tokens[t].user
        a == tokens[t].email IN
    /\ Known(t)
    /\ Live(t)
    /\ tokens[t].kind = "verification"
    /\ pending[u] = a
    /\ \A v \in Users \ {u} : email[v] # a
    /\ email' = [email EXCEPT ![u] = a]
    /\ verified' = [verified EXCEPT ![u] = TRUE]
    /\ pending' = [pending EXCEPT ![u] = None]
    /\ tokens' = Invalidated({t} \cup ResetTokens(u))
    /\ Notify(KnownAddress(u) \cup {a})
    /\ UNCHANGED <<workerVars, mailVars>>

ResetPassword(t) ==
    /\ Known(t)
    /\ Live(t)
    /\ tokens[t].kind = "reset"
    /\ tokens' = Invalidated({t})
    /\ Notify(KnownAddress(tokens[t].user))
    /\ UNCHANGED <<email, verified, pending, workerVars, mailVars>>

ChangePassword(u) ==
    /\ tokens' = Invalidated(ResetTokens(u))
    /\ Notify(KnownAddress(u))
    /\ UNCHANGED <<email, verified, pending, workerVars, mailVars>>

\* MFA is turned on or off, or its recovery codes are replaced.
ChangeMfa(u) ==
    /\ Notify(KnownAddress(u))
    /\ UNCHANGED <<accountVars, workerVars, mailVars>>

\* Half an hour, or a day, has passed.
Expire(t) ==
    /\ Live(t)
    /\ tokens' = Invalidated({t})
    /\ UNCHANGED <<email, verified, pending, jobs, queue, workerVars, mailVars>>

-------------------------------------------------------------------------------
(* The worker: process_one *)

Finished(j, status) ==
    [jobs EXCEPT ![j].status = status, ![j].to = None, ![j].token = None]

\* The oldest due job is picked if its payload can be read; otherwise the pass
\* raises, rolls back, and the next one finds the same job.
Picks(j) ==
    /\ working = None
    /\ queue # <<>>
    /\ j = Head(queue)
    /\ jobs[j].key = key

HasAddress(u, a) == verified[u] /\ email[u] = a

\* Faulty: every attempt issues a token.
NeedsTokenAlways(j) == jobs[j].kind = "reset"
NeedsToken(j) == jobs[j].kind = "reset" /\ jobs[j].token = None

TokenHolds(j) == jobs[j].token # None => Live(jobs[j].token)

\* Nobody has the address of a reset, or the token is no longer valid.
DiscardJob(j) ==
    /\ Picks(j)
    /\ \/ NeedsToken(j) /\ \A u \in Users : ~HasAddress(u, jobs[j].to)
       \/ /\ ~NeedsToken(j)
          /\ ~TokenHolds(j)
    /\ jobs' = Finished(j, "discarded")
    /\ queue' = Tail(queue)
    /\ UNCHANGED <<accountVars, workerVars, mailVars>>

\* Committed before the exchange: the attempt, the status, the token.
Sending(j, t) ==
    /\ working' = j
    /\ result' = "none"
    /\ queue' = Tail(queue)
    /\ jobs' = [jobs EXCEPT ![j].status = "sending", ![j].attempts = @ + 1,
                            ![j].token = t]
    /\ UNCHANGED <<email, verified, pending, key, restarts, mailVars>>

\* Faulty: the user's earlier reset tokens stay valid.
VoidedByNothing(u) == {}

\* create_password_reset_token voids the user's earlier ones.
VoidedByReset(u) == ResetTokens(u)

\* A reset is sent for the first time.
PickReset(j, u, t) ==
    /\ Picks(j)
    /\ NeedsToken(j)
    /\ HasAddress(u, jobs[j].to)
    /\ tokens[t].state = "unissued"
    /\ tokens' = Issued(t, [state |-> "live", kind |-> "reset", user |-> u, email |-> None],
                        VoidedByReset(u))
    /\ Sending(j, t)

\* Any other job, or a retry.
PickJob(j) ==
    /\ Picks(j)
    /\ ~NeedsToken(j)
    /\ TokenHolds(j)
    /\ Sending(j, jobs[j].token)
    /\ UNCHANGED tokens

\* The exchange ends: the server may have accepted a message whose reply was lost.
Exchange(accepted, returned) ==
    /\ working # None
    /\ result = "none"
    /\ result' = returned
    /\ IF accepted
       THEN /\ deliveries' = [deliveries EXCEPT ![working] = @ + 1]
            /\ mailed' = [mailed EXCEPT ![working] =
                             @ \cup {<<jobs[working].token, jobs[working].to>>}]
       ELSE UNCHANGED <<deliveries, mailed>>
    /\ UNCHANGED <<accountVars, jobs, queue, working, key, restarts, unrecorded>>

SendReturns ==
    \/ Exchange(TRUE, "accepted")
    \/ \E accepted \in BOOLEAN : Exchange(accepted, "error")

FinishJob ==
    /\ working # None
    /\ result # "none"
    /\ jobs' = IF result = "accepted"
               THEN Finished(working, "sent")
               ELSE IF jobs[working].attempts >= MaxAttempts
                    THEN Finished(working, "failed")
                    ELSE [jobs EXCEPT ![working].status = "pending"]
    /\ working' = None
    /\ result' = "none"
    /\ UNCHANGED <<accountVars, queue, key, restarts, mailVars>>

\* The second transaction fails: the loop logs it and goes on with the next job.
FinishFails ==
    /\ working # None
    /\ result # "none"
    /\ working' = None
    /\ result' = "none"
    /\ unrecorded' = unrecorded \cup {working}
    /\ UNCHANGED <<accountVars, jobs, queue, key, restarts, deliveries, mailed>>

\* The time of a retry has come.
BecomesDue(j) ==
    /\ jobs[j].status = "pending"
    /\ \A i \in 1..Len(queue) : queue[i] # j
    /\ queue' = Append(queue, j)
    /\ UNCHANGED <<accountVars, jobs, workerVars, mailVars>>

-------------------------------------------------------------------------------
(* The process stops, also in the middle of an exchange, and start() repairs *)
(* the jobs it left in sending.                                             *)

\* Faulty: a job that was being sent starts over.
RepairedAnew(j) ==
    IF jobs[j].status = "sending"
    THEN [jobs[j] EXCEPT !.status = "pending", !.attempts = 0]
    ELSE jobs[j]

\* Faulty: a job that was being sent is taken to have been sent.
RepairedAsSent(j) ==
    IF jobs[j].status = "sending" THEN Finished(j, "sent")[j] ELSE jobs[j]

\* Faulty: the jobs are left as they are.
NotRepaired(j) == jobs[j]

Repaired(j) ==
    IF jobs[j].status # "sending" THEN jobs[j]
    ELSE IF jobs[j].attempts < MaxAttempts
         THEN [jobs[j] EXCEPT !.status = "pending"]
         ELSE Finished(j, "failed")[j]

Restart(k) ==
    /\ restarts < MaxRestarts
    /\ restarts' = restarts + 1
    /\ key' = k
    /\ working' = None
    /\ result' = "none"
    /\ jobs' = [j \in Jobs |-> Repaired(j)]
    /\ unrecorded' = {}
    /\ UNCHANGED <<accountVars, queue, deliveries, mailed>>

-------------------------------------------------------------------------------
Init ==
    /\ email = [u \in Users |-> None]
    /\ verified = [u \in Users |-> FALSE]
    /\ pending = [u \in Users |-> None]
    /\ tokens = [t \in Tokens |-> NoToken]
    /\ jobs = [j \in Jobs |-> NoJob]
    /\ queue = <<>>
    /\ working = None
    /\ result = "none"
    /\ key \in Keys
    /\ restarts = 0
    /\ unrecorded = {}
    /\ deliveries = [j \in Jobs |-> 0]
    /\ mailed = [j \in Jobs |-> {}]

Request ==
    \/ \E a \in Addresses, j \in Jobs : RequestReset(a, j)
    \/ \E u \in Users, a \in Addresses, j \in Jobs, t \in Tokens :
          Register(u, a, j, t) \/ ChangeEmail(u, a, j, t)
    \/ \E t \in Tokens : VerifyEmail(t) \/ ResetPassword(t) \/ Expire(t)
    \/ \E u \in Users : ChangePassword(u) \/ ChangeMfa(u)

Pick ==
    \E j \in Jobs :
        \/ DiscardJob(j)
        \/ \E u \in Users, t \in Tokens : PickReset(j, u, t)
        \/ PickJob(j)

Next ==
    \/ Request
    \/ Pick
    \/ SendReturns
    \/ FinishJob
    \/ FinishFails
    \/ \E j \in Jobs : BecomesDue(j)
    \/ \E k \in Keys : Restart(k)

Spec == Init /\ [][Next]_vars

\* The worker's loop goes on whatever a pass raises, an exchange is cut off by the
\* socket's timeout of ten seconds, and time passes.
Fairness ==
    /\ WF_vars(Pick)
    /\ WF_vars(SendReturns)
    /\ WF_vars(FinishJob \/ FinishFails)
    /\ \A j \in Jobs : WF_vars(BecomesDue(j))

FairSpec == Spec /\ Fairness

-------------------------------------------------------------------------------
(* What makes it correct *)

\* No job is sent more often than its attempts, of which there are three, also
\* when the process stops between an exchange and the record of its outcome.
AttemptBudget ==
    \A j \in Jobs : deliveries[j] <= jobs[j].attempts /\ jobs[j].attempts <= MaxAttempts

\* All messages of a job carry the same token: a retry, also after a restart, does
\* not void the link in a message that did arrive.
StableToken ==
    \A j \in Jobs : Cardinality(mailed[j]) <= 1

\* A user has at most one live token of each kind, however requests, retries and
\* the worker interleave.
OneLiveToken ==
    \A s, t \in Tokens :
        Live(s) /\ Live(t) /\ tokens[s].kind = tokens[t].kind /\ tokens[s].user = tokens[t].user
            => s = t

\* A reset token that still works was mailed to nobody but the present, verified
\* address of its user.
ResetReachesOwner ==
    \A j \in Jobs : \A m \in mailed[j] :
        m[1] # None => (tokens[m[1]].kind = "reset" /\ Live(m[1])
                           => HasAddress(tokens[m[1]].user, m[2]))

\* The queue holds at most Limit jobs, retries and repaired ones included.
QueueBound == Cardinality({j \in Jobs : Open(j)}) <= Limit

\* What a finished job says is what happened: sent was accepted by the server, and
\* failed used up its attempts.
OutcomeIsTrue ==
    \A j \in Jobs :
        /\ jobs[j].status = "sent" => deliveries[j] > 0
        /\ jobs[j].status = "failed" => jobs[j].attempts = MaxAttempts

-------------------------------------------------------------------------------
(* Why it is correct: the invariant the safety properties follow from *)

\* The queue holds pending jobs, none twice.
QueueInv ==
    \A i \in 1..Len(queue) :
        /\ jobs[queue[i]].status = "pending"
        /\ \A k \in 1..Len(queue) : queue[i] = queue[k] => i = k

\* A pending job has an attempt left; the attempt in progress is counted but has
\* delivered nothing, until its exchange ends.
CountInv ==
    /\ working # None => jobs[working].status = "sending"
    /\ result # "none" => working # None
    /\ result = "accepted" => deliveries[working] > 0
    /\ working # None /\ result = "none" => deliveries[working] < jobs[working].attempts
    /\ \A j \in Jobs :
          /\ jobs[j].status = "none" => jobs[j].attempts = 0 /\ deliveries[j] = 0
          /\ jobs[j].status = "pending" => jobs[j].attempts < MaxAttempts

\* What was mailed for a job that is still open is what the job carries.
MailInv ==
    \A j \in Jobs :
        /\ jobs[j].status = "none" => mailed[j] = {}
        /\ Open(j) => mailed[j] \subseteq {<<jobs[j].token, jobs[j].to>>}
        /\ Open(j) => jobs[j].to # None
        /\ Open(j) /\ NeedsToken(j) => jobs[j].status = "pending" /\ mailed[j] = {}
        /\ \A m, n \in mailed[j] : m = n

\* Carries(j, t, a): job j mailed token t to a, or is about to.
Carries(j, t, a) ==
    \/ <<t, a>> \in mailed[j]
    \/ jobs[j].token = t /\ jobs[j].to = a

\* A token that was mailed, or will be, is issued, and a reset token that works
\* goes to the verified address of its user.
CarryInv ==
    \A j \in Jobs, t \in Tokens, a \in Addresses :
        Carries(j, t, a) =>
            /\ tokens[t].state # "unissued"
            /\ tokens[t].kind = "reset" /\ Live(t) =>
                  tokens[t].user \in Users /\ HasAddress(tokens[t].user, a)

\* A token that works is somebody's, for an address if it verifies one.
TokenInv ==
    /\ OneLiveToken
    /\ \A t \in Tokens : Live(t) =>
          /\ tokens[t].user \in Users
          /\ tokens[t].kind = "verification" => tokens[t].email \in Addresses

\* What is verified is an address.
VerifiedInv == \A u \in Users : verified[u] => email[u] # None

OutboxInv ==
    /\ TypeOK
    /\ VerifiedInv
    /\ QueueInv
    /\ AttemptBudget
    /\ OutcomeIsTrue
    /\ CountInv
    /\ MailInv
    /\ CarryInv
    /\ TokenInv

-------------------------------------------------------------------------------
\* Every job ends, also one whose process stopped while it was being sent, unless its
\* outcome could not be written down, or the queue waits for another encryption key.
EveryJobEnds ==
    \A j \in Jobs :
        Open(j) ~> \/ ~Open(j)
                   \/ j \in unrecorded
                   \/ \E i \in Jobs : Open(i) /\ jobs[i].key # key
=============================================================================
