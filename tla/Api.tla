--------------------------------- MODULE Api ---------------------------------
(***************************************************************************)
(* The HTTP API: requests served concurrently, each a sequence of awaited  *)
(* calls on the components, with the rate limits, the tokens, the sessions *)
(* the ingestion jobs and the document uploads behind them.                *)
(*                                                                         *)
(* A call may fail; the request then ends with 500 and its transaction is  *)
(* rolled back.  `suite` names the routes and users of a behaviour.        *)
(***************************************************************************)
EXTENDS RateLimiter, RefreshTokens, IngestionJobs, DocumentUploads, SequencesExt

CONSTANTS Suites,                     \* bound: [ops, users, started, clock] records
          UserLimit, GlobalLimit,     \* calls a window lets through
          Window, GlobalWindow,       \* ticks of a window
          AccessLife,                 \* ticks an access token lives
          MaxServed,                  \* bound: requests served at the same time
          MaxTasks,                   \* bound: ingestions asked for
          MaxFaults                   \* bound: calls that fail

Routes == {"register", "login", "refresh", "logout", "chat", "search", "create_session",
           "answer", "ingest", "job_status", "upload", "upload_parents"}

ASSUME ApiAssumption ==
    /\ {UserLimit, GlobalLimit, Window, GlobalWindow, AccessLife, MaxFaults} \subseteq Nat
    /\ UserLimit > 0 /\ GlobalLimit > 0 /\ Window > 0 /\ GlobalWindow > 0
    /\ \A s \in Suites : /\ s.ops \subseteq Routes /\ s.users \subseteq Users /\ s.users # {}
                         /\ {s.started, s.clock} \subseteq Nat /\ s.started <= MaxStarted

(* A request: its route, caller and argument; the program counter; its answer *)
(* once it has one; when its bearer token expires; whether what it names was  *)
(* gone when it came in; the limit it was counted by and the one it is shown. *)
Request ==
    [op : Routes, user : Users, arg : Ids \cup Users \cup {None},
     pc : Nat \ {0}, status : Nat \cup {None}, exp : Nat, dead : BOOLEAN, chain : Ids,
     stash : LimitKeys \cup {None}, shown : LimitKeys \cup {None},
     refused : (LimitKeys \X Nat) \cup {None}]

ASSUME NoneAssumption == None \notin Request \cup LimitKeys \cup (LimitKeys \X Nat)

VARIABLES suite, req, started, clock, faults,
          users,          \* emails with a committed row
          access,         \* user -> when the newest access token expires
          sessions,       \* id -> owner
          budgets,        \* session -> whoever recorded its context_budget
          answered        \* history: <<session, user>> an answer was worked out for

vars == <<suite, req, started, clock, faults, users, access, sessions, budgets, answered,
          limiterVars, tokenVars, jobs, docs>>

accountVars == <<users, access>>
sessionVars == <<sessions, budgets, answered>>

Init ==
    /\ suite \in Suites
    /\ req = [r \in Ids |-> None] /\ started = 0 /\ clock = 0 /\ faults = 0
    /\ LET fresh == "register" \in suite.ops
           earlier == IF fresh THEN None ELSE CHOOSE u \in suite.users : TRUE
       IN /\ users = IF fresh THEN {} ELSE suite.users
          /\ access = [u \in Users |-> IF fresh THEN 0 ELSE AccessLife]
          /\ sessions = [s \in Ids |-> IF s = 0 THEN earlier ELSE None]
          /\ TokensInit(earlier)
    /\ budgets = [s \in Ids |-> None] /\ answered = {}
    /\ LimiterInit /\ JobsInit /\ DocsInit

-----------------------------------------------------------------------------
(* Routes. *)

(* Fault: the new refresh token is stored before the old one is deleted. *)
RefreshProgram_SaveFirst == <<"peek", "find_user", "read", "save_token", "delete">>

(* The route looks the token up for the tenant, the use case once more. *)
RefreshProgram == <<"peek", "find_user", "read", "delete", "save_token">>

Upload == <<"verify", "extract", "save_file", "save_document">>
          \o [i \in 1..ChunkCount |-> "upsert"]
          \o <<"save_chunks", "status", "commit">>

(* Not wired to a route in the app: served here as one of its own, with the   *)
(* same calls; only children are points, parents are rows alone.            *)
UploadWithParents == Upload

Program ==
    [register |-> <<"limit", "insert", "commit_user">>,
     login |-> <<"limit", "authenticate", "save_token">>,
     refresh |-> RefreshProgram,
     logout |-> <<"delete">>,
     chat |-> <<"verify", "limit", "global", "search">>,
     search |-> <<"verify", "search">>,
     create_session |-> <<"verify", "limit", "create">>,
     answer |-> <<"verify", "limit", "global", "find_owned", "answer", "record">>,
     ingest |-> <<"verify", "limit", "send", "own">>,
     job_status |-> <<"verify", "owner", "result">>,
     upload |-> Upload,
     upload_parents |-> UploadWithParents]

SuccessOf(op) ==
    CASE op \in {"register", "create_session", "upload", "upload_parents"} -> 201
      [] op = "ingest" -> 202
      [] op = "logout" -> 204
      [] OTHER -> 200

LimitName == [register |-> "register", login |-> "login", chat |-> "chat", answer |-> "chat",
              create_session |-> "sessions", ingest |-> "data-sources"]

(* Per client for the routes without a caller, there is one client. *)
KeyOf(r) == <<LimitName[req[r].op], IF req[r].op \in {"register", "login"} THEN None ELSE req[r].user>>

GlobalKey == <<"global", None>>

(* What a request may carry besides its user. *)
Arguments(op) ==
    CASE op \in {"refresh", "logout"} -> {t \in Ids : tokens[t] # None}
      [] op = "answer" -> {s \in Ids : sessions[s] # None}
      [] op = "job_status" -> {j \in Ids : jobs[j] # None}
      [] op = "login" -> {None} \cup Users                          \* whose password it gives
      [] op = "ingest" -> {None} \cup Users                         \* tenant or user scope
      [] OTHER -> {None}

Serving == {r \in Ids : req[r] # None /\ req[r].status = None}

Start(op, u, a) ==
    /\ started < suite.started /\ Cardinality(Serving) < MaxServed
    /\ op \in {"login", "ingest"} => a \in {None, u}
    /\ op = "ingest" => Cardinality({r \in Ids : req[r] # None /\ req[r].op = op}) < MaxTasks
    /\ started' = started + 1
    /\ req' = [req EXCEPT ![started + 1] =
         [op |-> op, user |-> u, arg |-> a, pc |-> 1, status |-> None,
          exp |-> access[u],
          dead |-> \/ op \in {"refresh", "logout"} /\ (deletes[a] > 0 \/ ~Live(a, clock))
                   \/ op = "job_status" /\ OwnerOf(a, clock) = None,
          chain |-> IF op \in {"refresh", "logout"} THEN tokens[a].chain ELSE started + 1,
          stash |-> None, shown |-> None, refused |-> None]]
    /\ UNCHANGED <<suite, clock, faults, accountVars, sessionVars, limiterVars, tokenVars, jobs, docs>>

-----------------------------------------------------------------------------
(* Every response passes RateLimitHeadersMiddleware, but that of an           *)
(* exception nobody handles: it is made above the middleware.                *)
Shown(stash, handler) == IF stash # None THEN stash ELSE handler

At(r, step) == /\ req[r] # None /\ req[r].status = None
               /\ req[r].pc <= Len(Program[req[r].op]) /\ Program[req[r].op][req[r].pc] = step

Advance(r) == req' = [req EXCEPT ![r].pc = @ + 1]

End(r, status) ==
    req' = [req EXCEPT ![r].status = status,
                       ![r].shown = IF status = 500 THEN None ELSE Shown(req[r].stash, None)]

Then(r, ok, status) == IF ok THEN Advance(r) ELSE End(r, status)

Respond(r) ==
    /\ req[r] # None /\ req[r].status = None /\ req[r].pc > Len(Program[req[r].op])
    /\ End(r, SuccessOf(req[r].op))
    /\ UNCHANGED <<users, sessionVars, limiterVars, tokenVars, jobs, docs>>
    /\ access' = IF req[r].op \in {"login", "refresh"}
                 THEN [access EXCEPT ![req[r].user] = clock + AccessLife] ELSE access

(* A bearer token is good until the second of its expiry, that included. *)
Verify(r) ==
    /\ At(r, "verify") /\ Then(r, req[r].exp > 0 /\ clock <= req[r].exp, 401)
    /\ UNCHANGED <<accountVars, sessionVars, limiterVars, tokenVars, jobs, docs>>

Refuse(r, key) ==
    req' = [req EXCEPT ![r].status = 429, ![r].refused = <<key, clock>>, ![r].stash = None,
                       ![r].shown = Shown(None, key)]

enforce_rate_limit(r, key, limit, window) ==
    /\ \E ok \in BOOLEAN :
         /\ check(key, limit, window, clock, ok)
         /\ IF ok THEN req' = [req EXCEPT ![r].pc = @ + 1,
                                          ![r].stash = IF @ = None THEN key ELSE @]
                  ELSE Refuse(r, key)
    /\ UNCHANGED <<accountVars, sessionVars, tokenVars, jobs, docs>>

Limit(r) == \/ At(r, "limit") /\ enforce_rate_limit(r, KeyOf(r), UserLimit, Window)
            \/ At(r, "global") /\ enforce_rate_limit(r, GlobalKey, GlobalLimit, GlobalWindow)

-----------------------------------------------------------------------------
(* Accounts and tokens. *)

(* The unique index makes an insert wait for one that is not committed yet. *)
Insert(r) ==
    /\ At(r, "insert")
    /\ ~\E q \in Ids : q # r /\ At(q, "commit_user") /\ req[q].user = req[r].user
    /\ Then(r, req[r].user \notin users, 409)
    /\ UNCHANGED <<accountVars, sessionVars, limiterVars, tokenVars, jobs, docs>>

CommitUser(r) ==
    /\ At(r, "commit_user") /\ Advance(r) /\ users' = users \cup {req[r].user}
    /\ UNCHANGED <<access, sessionVars, limiterVars, tokenVars, jobs, docs>>

(* AuthenticateUser: an unknown email and a wrong password end alike. *)
Authenticate(r) ==
    /\ At(r, "authenticate") /\ Then(r, req[r].user \in users /\ req[r].arg = req[r].user, 401)
    /\ UNCHANGED <<accountVars, sessionVars, limiterVars, tokenVars, jobs, docs>>

(* The two look-ups of a refresh; the user is the token's. *)
ReadToken(r) ==
    /\ At(r, "peek") \/ At(r, "read")
    /\ LET u == get_user_id(req[r].arg, clock)
       IN IF u = None THEN End(r, 401)
          ELSE req' = [req EXCEPT ![r].user = u, ![r].pc = @ + 1]
    /\ UNCHANGED <<accountVars, sessionVars, limiterVars, tokenVars, jobs, docs>>

FindUser(r) ==
    /\ At(r, "find_user") /\ Then(r, req[r].user \in users, 401)
    /\ UNCHANGED <<accountVars, sessionVars, limiterVars, tokenVars, jobs, docs>>

DeleteToken(r) ==
    /\ At(r, "delete") /\ Advance(r) /\ delete(req[r].arg)
    /\ UNCHANGED <<accountVars, sessionVars, limiterVars, jobs, docs>>

SaveToken(r) ==
    /\ At(r, "save_token") /\ Advance(r) /\ save(r, req[r].user, req[r].chain, clock)
    /\ UNCHANGED <<accountVars, sessionVars, limiterVars, jobs, docs>>

-----------------------------------------------------------------------------
(* Chat sessions. *)

CreateSession(r) ==
    /\ At(r, "create") /\ Advance(r) /\ sessions' = [sessions EXCEPT ![r] = req[r].user]
    /\ UNCHANGED <<accountVars, budgets, answered, limiterVars, tokenVars, jobs, docs>>

find_owned(user, s) == sessions[s] = user

FindOwned(r) ==
    /\ At(r, "find_owned") /\ Then(r, find_owned(req[r].user, req[r].arg), 404)
    /\ UNCHANGED <<accountVars, sessionVars, limiterVars, tokenVars, jobs, docs>>

(* A question longer than its slice of the budget is not worked on. *)
Answer(r) ==
    /\ At(r, "answer")
    /\ \E fits \in BOOLEAN :
         /\ Then(r, fits, 422)
         /\ answered' = IF fits THEN answered \cup {<<req[r].arg, req[r].user>>} ELSE answered
    /\ UNCHANGED <<accountVars, sessions, budgets, limiterVars, tokenVars, jobs, docs>>

(* The recorder's UPDATE has to match one row of the caller. *)
RecordBudget(r) ==
    /\ At(r, "record") /\ Then(r, sessions[req[r].arg] = req[r].user, 404)
    /\ budgets' = IF sessions[req[r].arg] = req[r].user
                  THEN [budgets EXCEPT ![req[r].arg] = req[r].user] ELSE budgets
    /\ UNCHANGED <<accountVars, sessions, answered, limiterVars, tokenVars, jobs, docs>>

-----------------------------------------------------------------------------
(* Ingestion jobs. *)

SendTask(r) == /\ At(r, "send") /\ Advance(r) /\ send(r)
               /\ UNCHANGED <<accountVars, sessionVars, limiterVars, tokenVars, docs>>

OwnTask(r) == /\ At(r, "own") /\ Advance(r) /\ own(r, req[r].user, req[r].arg, clock)
              /\ UNCHANGED <<accountVars, sessionVars, limiterVars, tokenVars, docs>>

ReadOwner(r) ==
    /\ At(r, "owner")
    /\ LET stored == OwnerOf(req[r].arg, clock)
       IN Then(r, stored # None /\ owner_matches(stored, req[r].user, req[r].user), 404)
    /\ UNCHANGED <<accountVars, sessionVars, limiterVars, tokenVars, jobs, docs>>

ReadResult(r) == /\ At(r, "result") /\ Advance(r) /\ report(req[r].arg, clock)
                 /\ UNCHANGED <<accountVars, sessionVars, limiterVars, tokenVars, docs>>

Worker(j) == WorkerStep(j, clock)
             /\ UNCHANGED <<req, accountVars, sessionVars, limiterVars, tokenVars, docs>>

-----------------------------------------------------------------------------
(* Documents and search. *)

UploadStep(r) ==
    /\ LET parents == IF req[r].op = "upload_parents" THEN ParentCount ELSE 0
       IN \/ At(r, "save_file") /\ save_file(r, req[r].user, parents)
          \/ At(r, "save_document") /\ save_document(r)
          \/ At(r, "upsert") /\ upsert(r)
          \/ At(r, "save_chunks") /\ save_chunks(r)
          \/ At(r, "status") /\ update_document_status(r)
          \/ At(r, "commit") /\ commit(r)
    /\ Advance(r)
    /\ UNCHANGED <<accountVars, sessionVars, limiterVars, tokenVars, jobs>>

(* A body over the ceiling, or a type the extractor does not know. *)
Extract(r) ==
    /\ At(r, "extract") /\ \E status \in {None, 413, 422} : Then(r, status = None, status)
    /\ UNCHANGED <<accountVars, sessionVars, limiterVars, tokenVars, jobs, docs>>

Search(r) ==
    /\ At(r, "search") /\ Advance(r)
    /\ UNCHANGED <<accountVars, sessionVars, limiterVars, tokenVars, jobs, docs>>

-----------------------------------------------------------------------------
RequestStep(r) ==
    \/ Respond(r) \/ Verify(r) \/ Limit(r)
    \/ Insert(r) \/ CommitUser(r) \/ Authenticate(r)
    \/ ReadToken(r) \/ FindUser(r) \/ DeleteToken(r) \/ SaveToken(r)
    \/ CreateSession(r) \/ FindOwned(r) \/ Answer(r) \/ RecordBudget(r)
    \/ SendTask(r) \/ OwnTask(r) \/ ReadOwner(r) \/ ReadResult(r)
    \/ Extract(r) \/ UploadStep(r) \/ Search(r)

(* A call of the request raises, or its answer is lost. *)
RequestFault(r) ==
    /\ req[r] # None /\ req[r].status = None
    /\ End(r, 500) /\ rollback(r)
    /\ UNCHANGED <<accountVars, sessionVars, limiterVars, tokenVars, jobs>>

Step(r) == RequestStep(r) /\ UNCHANGED <<suite, started, clock, faults>>
Work(j) == Worker(j) /\ UNCHANGED <<suite, started, clock, faults>>

Fail == /\ faults < MaxFaults /\ faults' = faults + 1
        /\ \/ \E r \in Ids : RequestFault(r)
           \/ \E j \in Ids : WorkerFault(j)
              /\ UNCHANGED <<req, accountVars, sessionVars, limiterVars, tokenVars, docs>>
        /\ UNCHANGED <<suite, started, clock>>

Tick == /\ clock < suite.clock /\ clock' = clock + 1
        /\ UNCHANGED <<suite, req, started, faults, accountVars, sessionVars, limiterVars,
                       tokenVars, jobs, docs>>

Next ==
    \/ \E op \in suite.ops, u \in suite.users : \E a \in Arguments(op) : Start(op, u, a)
    \/ \E r \in Ids : Step(r)
    \/ \E j \in Ids : Work(j)
    \/ Fail \/ Tick

Spec == Init /\ [][Next]_vars

(* Awaited calls return or raise, and a worker takes the tasks sent to it:  *)
(* what can go on does.                                                     *)
FairSpec == Spec /\ WF_vars((\E r \in Ids : Step(r)) \/ (\E j \in Ids : Work(j)))

-----------------------------------------------------------------------------
Ended(r, op) == req[r] # None /\ req[r].op = op /\ req[r].status # None

(* Rotation ends reuse: a refresh that came in when its token was already    *)
(* rotated, revoked or expired is refused, whatever else is going on.        *)
ReplayRefused ==
    \A r \in Ids : Ended(r, "refresh") /\ req[r].dead => req[r].status # 200

LiveOf(chain) == {t \in Ids : Live(t, clock) /\ tokens[t].chain = chain}

(* One login has one refresh token at a time, and a logout leaves it none.   *)
(* Requests that overlap on one token can break this (RefreshAccessToken     *)
(* reads, then deletes), each by one token and only once a token has been    *)
(* deleted twice.                                                            *)
ChainsRotate ==
    /\ \A c \in Ids : Cardinality(LiveOf(c)) <= 1 + late[c]
    /\ \A r \in Ids :
         /\ Ended(r, "logout") /\ req[r].status = 204 /\ ~req[r].dead
         /\ late[req[r].chain] = 0
         => LiveOf(req[r].chain) = {}

(* A login lives on in one refresh token: rotated, revoked and expired ones   *)
(* are dead, and rotation makes no second one.                               *)
TokensRotate == ReplayRefused /\ ChainsRotate

LimitOf(key) == IF key = GlobalKey THEN GlobalLimit ELSE UserLimit
WindowOf(key) == IF key = GlobalKey THEN GlobalWindow ELSE Window

(* A caller is refused only if its key was let through as often as it may in *)
(* the window that ends with the refusal: refused calls do not keep it out.  *)
RefusalsJustified ==
    \A r \in Ids : req[r] # None /\ req[r].refused # None =>
       LET key == req[r].refused[1]
       IN PassedWithin(key, WindowOf(key), req[r].refused[2]) >= LimitOf(key)

(* No window lets more calls through than its limit. *)
WindowsBound ==
    \A k \in LimitKeys : counters[k] # None =>
       Cardinality({i \in DOMAIN passes[k] : passes[k][i] + WindowOf(k) >= counters[k].expires})
         <= LimitOf(k)

(* The rate limit headers of a refusal are those of the limit that refused,  *)
(* of any other answer, if it has any, those of the first limit checked.     *)
HeadersNameDecider ==
    \A r \in Ids : req[r] # None /\ req[r].status # None =>
       IF req[r].refused # None THEN req[r].shown = req[r].refused[1]
       ELSE req[r].shown # None => req[r].shown = KeyOf(r)

(* The limiter neither lets through too much nor keeps out for too long, and *)
(* says which limit it was.                                                  *)
LimitsHonest == RefusalsJustified /\ WindowsBound /\ HeadersNameDecider

(* Nothing is worked out or recorded in a session for anyone but its owner.  *)
AnswersInOwnSession ==
    /\ \A pair \in answered : sessions[pair[1]] = pair[2]
    /\ \A s \in Ids : budgets[s] # None => budgets[s] = sessions[s]

(* While its ownership record lives a job exists for its tenant and for      *)
(* nobody else, with or without a user in the record.                        *)
JobsSeenByOwners ==
    \A r \in Ids : Ended(r, "job_status") /\ ~req[r].dead =>
       LET mine == jobs[req[r].arg].owner.tenant = req[r].user
       IN /\ req[r].status = 200 => mine
          /\ req[r].status = 404 /\ OwnerOf(req[r].arg, clock) # None => ~mine

(* Sessions and jobs are their owners', while requests of others run. *)
OwnersOnly == AnswersInOwnSession /\ JobsSeenByOwners

(* A reported result is not taken back while the ownership record lives,     *)
(* except for a task that had finished before the record was written.        *)
ReportsHold ==
    [][\A j \in Ids :
         /\ jobs[j] # None /\ jobs[j].reported \in {"SUCCESS", "FAILURE"}
         /\ jobs'[j].reported = "PENDING"
         => jobs[j].finishedAt < jobs[j].ownedAt \/ OwnerOf(j, clock) = None]_vars

(* Of a document either everything is there (file, rows, points, the count   *)
(* of its children) or no row of it; an upload that failed leaves at most    *)
(* its file and points without a row.                                        *)
UploadsWholeOrAbsent ==
    \A r \in Ids : req[r] # None /\ req[r].status # None /\ docs[r] # None =>
       LET doc == docs[r]
       IN IF doc.committed
            THEN /\ doc.status = "completed" /\ doc.points = ChunkCount
                 /\ doc.chunk_count = ChunkCount /\ doc.rows = ChunkCount + doc.parents
            ELSE req[r].status = 500 /\ doc.status = None /\ doc.rows = 0

Quiet == /\ Serving = {}
         /\ \A j \in Ids : jobs[j] # None => jobs[j].pc = "done"

(* Every request is answered and every task sent is finished: nothing waits  *)
(* for ever, not on the unique index and not after a failure.                *)
Ends == []<>Quiet
=============================================================================
