---------------------------- MODULE Notifications ----------------------------
(* get_notifications, and any other tool of the PDS, over the one AT Protocol *)
(* session of the process.  get_notifications waits for its turn at the       *)
(* service, pages back through the unread notifications, and moves the        *)
(* account's read marker past the ones it returns.  Each request takes the    *)
(* cached session, and renews it once when the PDS no longer accepts its      *)
(* token.  The PDS, the AppView and the other clients of the account are the  *)
(* environment.                                                               *)
EXTENDS Naturals, Sequences, FiniteSets, SequencesExt, FiniteSetsExt, Functions

CONSTANTS
  Runs,         \* scripts that may call such a tool at once
  Accounts,     \* what the operator may enter as credentials
  Nobody,       \* no credentials
  PageSize, MaxPages, Limit,
  MaxNotifs, MaxFetches, MaxTrouble   \* bounds for TLC

ASSUME FetchAssumption ==
  /\ PageSize \in Nat \ {0} /\ MaxPages \in Nat \ {0} /\ Limit \in Nat \ {0} /\ MaxNotifs \in Nat
  /\ IsFiniteSet(Accounts) /\ Accounts # {} /\ Nobody \notin Accounts

VARIABLES
  account,      \* the credentials in the secret manager
  session,      \* _session: whose, and which pair of tokens
  accepted,     \* pairs whose access token the PDS accepts
  unused,       \* pairs whose refresh token the PDS accepts
  sessionLock,  \* who holds _session_lock, then who waits
  serviceLock,  \* the same for the lock of the service
  fetch,        \* the get_notifications of each run
  now,          \* the AppView's clock, in milliseconds
  inbox, seen,  \* by account: notifications, oldest first, and marker
  returned,     \* how often each notification was returned
  unmarked,     \* returned with a mark_read_error, or by a run of two accounts,
                \* or unread again when such a run moved the marker back
  excused,      \* read by another client, lost in a run that was cut off, or passed over
  pairs, fetches, trouble                 \* spent so far

fetchVars == <<account, session, accepted, unused, sessionLock, serviceLock, fetch,
               now, inbox, seen, returned, unmarked, excused, pairs, fetches,
               trouble>>

Refs == Accounts \X (1..MaxNotifs)
Indexed == {r \in Refs : r[2] <= Len(inbox[r[1]])}
NoSession == [who |-> Nobody, id |-> 0]
Idle == [step |-> "idle", what |-> "page", who |-> Nobody, mine |-> NoSession,
         retried |-> FALSE, from |-> 0, left |-> 0, pages |-> 0,
         reached |-> FALSE, found |-> {}, pagesOf |-> {}]

\* What a client that moves the marker of account a to s reads.
TimeOf(r) == inbox[r[1]][r[2]].time
NewlyRead(a, s) == {<<a, i>> : i \in {j \in 1..Len(inbox[a]) :
                      seen[a] <= inbox[a][j].time /\ inbox[a][j].time < s}}

\* Mutant: the newest.
NewestBatch(f) == {r \in f.found : Cardinality({q \in f.found : q[2] > r[2]}) < Limit}

\* The oldest Limit of what was found, and the marker that reads them.
Batch(f) == {r \in f.found : Cardinality({q \in f.found : q[2] < r[2]}) < Limit}
Target(f) == Max({TimeOf(r) : r \in Batch(f)}) + 1

\* What a moved marker passes over, as the note says or because the credentials
\* changed between two requests; the batch is then not the one that is marked.
OneAccount(f) == f.pagesOf = {f.mine.who}
Passed(f) == NewlyRead(f.mine.who, Target(f))
Lost(f) == IF ~OneAccount(f) THEN Passed(f)
           ELSE IF f.reached THEN {} ELSE {r \in Passed(f) : r[2] <= f.left}
Unsure(f) == IF OneAccount(f) THEN {} ELSE Batch(f)
UnreadAgain(f) == IF OneAccount(f) THEN {}
                  ELSE {r \in Indexed : r[1] = f.mine.who /\ Target(f) <= TimeOf(r)}

\* ---------------------------------------------------------------- requests
StepOf(p, s) == fetch[p].step = s
First(lock, p) == lock # <<>> /\ Head(lock) = p
Becomes(p, f) == fetch' = [fetch EXCEPT ![p] = f]

\* _authed_request: the credentials are read, then the lock is waited for.
Asking(f, what) == [f EXCEPT !.step = "session", !.what = what, !.who = account,
                             !.retried = FALSE]
Ask(p, f, what) == Becomes(p, Asking(f, what)) /\ sessionLock' = Append(sessionLock, p)
Without(lock, p) == RemoveFirst(lock, p)
End(p) == Becomes(p, Idle) /\ serviceLock' = Without(serviceLock, p)
Sending(f, s) == [f EXCEPT !.step = "send", !.mine = s]

GetSession(p) ==
  /\ StepOf(p, "session") /\ First(sessionLock, p)
  /\ IF session.who # fetch[p].who
     THEN Becomes(p, [fetch[p] EXCEPT !.step = "login"]) /\ UNCHANGED sessionLock
     ELSE Becomes(p, Sending(fetch[p], session)) /\ sessionLock' = Tail(sessionLock)
  /\ UNCHANGED <<account, session, accepted, unused, serviceLock, now, inbox, seen,
                 returned, unmarked, excused, pairs, fetches, trouble>>

\* A new pair of tokens for who; the tokens it replaces are good no more.
NewPair(p, who, old) ==
  /\ pairs' = pairs + 1
  /\ session' = [who |-> who, id |-> pairs']
  /\ accepted' = (accepted \ old) \cup {pairs'}
  /\ unused' = (unused \ old) \cup {pairs'}
  /\ Becomes(p, Sending(fetch[p], session'))
  /\ sessionLock' = Tail(sessionLock)

LoggedIn(p) ==
  /\ StepOf(p, "login")
  /\ NewPair(p, fetch[p].who, {})
  /\ UNCHANGED <<account, serviceLock, now, inbox, seen, returned, unmarked, excused,
                 fetches, trouble>>

Expired(p) ==
  /\ StepOf(p, "send") /\ fetch[p].mine.id \notin accepted
  /\ ~fetch[p].retried
  /\ Becomes(p, [fetch[p] EXCEPT !.step = "renew", !.retried = TRUE])
  /\ sessionLock' = Append(sessionLock, p)
  /\ UNCHANGED <<account, session, accepted, unused, serviceLock, now, inbox, seen,
                 returned, unmarked, excused, pairs, fetches, trouble>>

\* Mutant: the session is renewed whatever others did meanwhile.
RenewAnyway(p) ==
  /\ StepOf(p, "renew") /\ First(sessionLock, p)
  /\ Becomes(p, [fetch[p] EXCEPT !.step = "refresh"])
  /\ UNCHANGED <<account, session, accepted, unused, sessionLock, serviceLock, now,
                 inbox, seen, returned, unmarked, excused, pairs, fetches, trouble>>

\* Another call may have renewed it already.
Renew(p) ==
  /\ StepOf(p, "renew") /\ First(sessionLock, p)
  /\ IF session # fetch[p].mine
     THEN Becomes(p, Sending(fetch[p], session)) /\ sessionLock' = Tail(sessionLock)
     ELSE Becomes(p, [fetch[p] EXCEPT !.step = "refresh"]) /\ UNCHANGED sessionLock
  /\ UNCHANGED <<account, session, accepted, unused, serviceLock, now, inbox, seen,
                 returned, unmarked, excused, pairs, fetches, trouble>>

Refreshed(p) ==
  /\ StepOf(p, "refresh") /\ fetch[p].mine.id \in unused
  /\ NewPair(p, fetch[p].mine.who, {fetch[p].mine.id})
  /\ UNCHANGED <<account, serviceLock, now, inbox, seen, returned, unmarked, excused,
                 fetches, trouble>>

Refused(p) ==
  /\ StepOf(p, "refresh") /\ fetch[p].mine.id \notin unused
  /\ Becomes(p, [fetch[p] EXCEPT !.step = "login", !.who = fetch[p].mine.who])
  /\ UNCHANGED <<account, session, accepted, unused, sessionLock, serviceLock, now,
                 inbox, seen, returned, unmarked, excused, pairs, fetches, trouble>>

\* ------------------------------------------------------------ notifications
Deliver(batch) ==
  returned' = [r \in Refs |-> IF r \in batch /\ returned[r] < 2 THEN returned[r] + 1
                              ELSE returned[r]]

Begin(p) ==
  /\ StepOf(p, "idle")
  /\ fetches < MaxFetches /\ fetches' = fetches + 1
  /\ Becomes(p, [Idle EXCEPT !.step = "turn"])
  /\ serviceLock' = Append(serviceLock, p)
  /\ UNCHANGED <<account, session, accepted, unused, sessionLock, now, inbox, seen,
                 returned, unmarked, excused, pairs, trouble>>

Scan(p) ==
  /\ StepOf(p, "turn") /\ First(serviceLock, p)
  /\ Ask(p, fetch[p], "page")
  /\ UNCHANGED <<account, session, accepted, unused, serviceLock, now, inbox, seen,
                 returned, unmarked, excused, pairs, fetches, trouble>>

\* unread_count and the other tools of the PDS ask without waiting for a turn.
Query(p) ==
  /\ StepOf(p, "idle")
  /\ fetches < MaxFetches /\ fetches' = fetches + 1
  /\ Ask(p, Idle, "query")
  /\ UNCHANGED <<account, session, accepted, unused, serviceLock, now, inbox, seen,
                 returned, unmarked, excused, pairs, trouble>>

Told(p) ==
  /\ StepOf(p, "send") /\ fetch[p].what = "query" /\ fetch[p].mine.id \in accepted
  /\ End(p)
  /\ UNCHANGED <<account, session, accepted, unused, sessionLock, now, inbox, seen,
                 returned, unmarked, excused, pairs, fetches, trouble>>

\* A page of _scan_unread: what matches on it, up to the first that is read.
Scanned(f) ==
  LET a == f.mine.who
      top == IF f.pages = 0 THEN Len(inbox[a]) ELSE f.left
      page == {i \in 1..Len(inbox[a]) : i <= top /\ i + PageSize > top}
      read == {i \in page : inbox[a][i].time < seen[a]}
      new == {i \in page : inbox[a][i].wanted /\ \A j \in read : j < i}
  IN [f EXCEPT !.from = IF f.pages = 0 THEN seen[a] ELSE f.from,
               !.left = IF top > PageSize THEN top - PageSize ELSE 0,
               !.pages = f.pages + 1,
               !.reached = read # {},
               !.pagesOf = f.pagesOf \cup {a},
               !.found = f.found \cup {<<a, i>> : i \in new}]

PageRead(p) ==
  /\ StepOf(p, "send") /\ fetch[p].what = "page" /\ fetch[p].mine.id \in accepted
  /\ LET f == Scanned(fetch[p])
     IN IF ~f.reached /\ f.left > 0 /\ f.pages < MaxPages
        THEN Ask(p, f, "page") /\ UNCHANGED <<serviceLock, returned, unmarked>>
        ELSE IF f.found = {} \/ Target(f) <= f.from
        THEN /\ End(p)
             /\ Deliver(Batch(f))
             /\ unmarked' = unmarked \cup Unsure(f)
             /\ UNCHANGED sessionLock
        ELSE Ask(p, f, "mark") /\ UNCHANGED <<serviceLock, returned, unmarked>>
  /\ UNCHANGED <<account, session, accepted, unused, now, inbox, seen, excused,
                 pairs, fetches, trouble>>

\* updateSeen stores the value as it is, for the account that asks.
Move(f) == seen' = [seen EXCEPT ![f.mine.who] = Target(f)]
SeenUpdated(p) ==
  /\ StepOf(p, "send") /\ fetch[p].what = "mark" /\ fetch[p].mine.id \in accepted
  /\ Move(fetch[p])
  /\ Deliver(Batch(fetch[p]))
  /\ excused' = excused \cup Lost(fetch[p])
  /\ unmarked' = unmarked \cup Unsure(fetch[p]) \cup UnreadAgain(fetch[p])
  /\ End(p)
  /\ UNCHANGED <<account, session, accepted, unused, sessionLock, now, inbox, pairs,
                 fetches, trouble>>

\* A request that fails ends the fetch; what it asked for may have been done.
\* A failed mark is reported with the notifications.
RequestFails(p) ==
  /\ \/ trouble < MaxTrouble /\ trouble' = trouble + 1
     \/ /\ StepOf(p, "send") /\ fetch[p].retried
        /\ fetch[p].mine.id \notin accepted
        /\ UNCHANGED trouble
  /\ fetch[p].step \in {"login", "refresh", "send"}
  /\ unused' \in {unused, IF StepOf(p, "refresh") THEN unused \ {fetch[p].mine.id} ELSE unused}
  /\ IF fetch[p].what = "mark"
     THEN /\ Deliver(Batch(fetch[p]))
          /\ \/ /\ UNCHANGED <<seen, excused>>
                /\ unmarked' = unmarked \cup Batch(fetch[p])
             \/ /\ StepOf(p, "send") /\ fetch[p].mine.id \in accepted
                /\ Move(fetch[p])
                /\ excused' = excused \cup Lost(fetch[p])
                /\ unmarked' = unmarked \cup Batch(fetch[p]) \cup UnreadAgain(fetch[p])
     ELSE UNCHANGED <<seen, excused, returned, unmarked>>
  /\ sessionLock' = Without(sessionLock, p)
  /\ End(p)
  /\ UNCHANGED <<account, session, accepted, now, inbox, pairs, fetches>>

\* The turn is cancelled: what was found is lost, marked or not.
CutOff(p) ==
  /\ ~StepOf(p, "idle")
  /\ trouble < MaxTrouble /\ trouble' = trouble + 1
  /\ \/ UNCHANGED <<seen, excused, unmarked>>
     \/ /\ StepOf(p, "send") /\ fetch[p].what = "mark" /\ fetch[p].mine.id \in accepted
        /\ Move(fetch[p])
        /\ excused' = excused \cup Passed(fetch[p]) \cup Batch(fetch[p])
        /\ unmarked' = unmarked \cup UnreadAgain(fetch[p])
  /\ sessionLock' = Without(sessionLock, p)
  /\ serviceLock' = Without(serviceLock, p)
  /\ Becomes(p, Idle)
  /\ UNCHANGED <<account, session, accepted, unused, now, inbox, returned, pairs, fetches>>

\* ------------------------------------------------------------- environment
\* Notifications are indexed in order, several in a millisecond at times.
Arrive(a) ==
  /\ Cardinality(Indexed) < MaxNotifs
  /\ now' \in {now, now + 1}
  /\ \E wanted \in BOOLEAN :
       inbox' = [inbox EXCEPT ![a] = Append(@, [time |-> now', wanted |-> wanted])]
  /\ UNCHANGED <<account, session, accepted, unused, sessionLock, serviceLock, fetch,
                 seen, returned, unmarked, excused, pairs, fetches, trouble>>

\* Another client, the operator's, reads all there is.
ReadElsewhere(a) ==
  /\ trouble < MaxTrouble /\ trouble' = trouble + 1
  /\ now' = now + 1
  /\ seen' = [seen EXCEPT ![a] = now']
  /\ excused' = excused \cup NewlyRead(a, now')
  /\ UNCHANGED <<account, session, accepted, unused, sessionLock, serviceLock, fetch,
                 inbox, returned, unmarked, pairs, fetches>>

\* An access token expires, perhaps with the refresh token.
Expire ==
  /\ trouble < MaxTrouble /\ trouble' = trouble + 1
  /\ \E i \in accepted : accepted' = accepted \ {i} /\ unused' \in {unused, unused \ {i}}
  /\ UNCHANGED <<account, session, sessionLock, serviceLock, fetch, now, inbox, seen,
                 returned, unmarked, excused, pairs, fetches>>

ChangeAccount ==
  /\ trouble < MaxTrouble /\ trouble' = trouble + 1
  /\ account' \in Accounts \ {account}
  /\ UNCHANGED <<session, accepted, unused, sessionLock, serviceLock, fetch, now,
                 inbox, seen, returned, unmarked, excused, pairs, fetches>>

FetchInit ==
  /\ account = CHOOSE a \in Accounts : TRUE
  /\ session = NoSession /\ accepted = {} /\ unused = {}
  /\ sessionLock = <<>> /\ serviceLock = <<>>
  /\ fetch = [p \in Runs |-> Idle]
  /\ now = 1
  /\ inbox = [a \in Accounts |-> <<>>] /\ seen = [a \in Accounts |-> 0]
  /\ returned = [r \in Refs |-> 0] /\ unmarked = {} /\ excused = {}
  /\ pairs = 0 /\ fetches = 0 /\ trouble = 0

FetchNext ==
  \/ \E p \in Runs : Begin(p) \/ Scan(p) \/ Query(p) \/ Told(p) \/ GetSession(p) \/ LoggedIn(p)
                     \/ Expired(p) \/ Renew(p) \/ Refreshed(p) \/ Refused(p)
                     \/ PageRead(p) \/ SeenUpdated(p) \/ RequestFails(p) \/ CutOff(p)
  \/ \E a \in Accounts : Arrive(a) \/ ReadElsewhere(a)
  \/ Expire \/ ChangeAccount

FetchSpec == FetchInit /\ [][FetchNext]_fetchVars

-----------------------------------------------------------------------------
(* Type invariant.                                                             *)
FetchTypeOK ==
  /\ account \in Accounts /\ accepted \subseteq 1..pairs /\ unused \subseteq 1..pairs
  /\ session \in [who : Accounts \cup {Nobody}, id : 0..pairs]
  /\ sessionLock \in Seq(Runs) /\ serviceLock \in Seq(Runs)
  /\ \A p \in Runs : fetch[p].found \subseteq Refs
  /\ returned \in [Refs -> 0..2] /\ unmarked \subseteq Refs /\ excused \subseteq Refs

(* A notification the agent waits for is not lost and not repeated: one that   *)
(* is read was returned, or is one another client read, the scan did not reach *)
(* (the result says so), a cancelled run or another account's marker took, or  *)
(* one of the same millisecond as one returned; and none is returned twice     *)
(* unless the first time it could not be marked read, or the marker of its     *)
(* account was since moved back by a run whose credentials changed.            *)
SameTime(r) == \E q \in Refs :
  (returned[q] > 0 \/ q \in excused) /\ TimeOf(q) = TimeOf(r)
ReadMeansReturned ==
  \A a \in Accounts : \A i \in 1..Len(inbox[a]) :
    LET r == <<a, i>>
    IN /\ inbox[a][i].wanted /\ inbox[a][i].time < seen[a] =>
            returned[r] > 0 \/ r \in excused \/ SameTime(r)
       /\ returned[r] > 1 => r \in unmarked

(* Logins are rationed and refresh tokens good for one use: only the cached    *)
(* session is refreshed, whoever found it expired, and a login means the       *)
(* credentials changed or the refresh was refused.                             *)
TokensSpentOnce ==
  \A p \in Runs :
    /\ StepOf(p, "refresh") => fetch[p].mine = session
    /\ StepOf(p, "login") => session.who # fetch[p].who \/ session.id \notin unused
    /\ fetch[p].step \in {"refresh", "login"} => First(sessionLock, p)

=============================================================================
