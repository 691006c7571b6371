------------------------------- MODULE ApiProofs -------------------------------
(***************************************************************************)
(* Theorems about the HTTP API, for any number of users, requests, ticks,  *)
(* chunks and failures.                                                    *)
(***************************************************************************)
EXTENDS Api, TLAPS, SequenceTheorems, FiniteSetTheorems

-----------------------------------------------------------------------------
(* Routes as sequences of steps. *)

Uploads == {"upload", "upload_parents"}

\* Where each step of an upload is: the points take one step for each chunk.
LEMMA UploadSteps ==
  /\ Len(Upload) = ChunkCount + 7
  /\ Upload[1] = "verify" /\ Upload[2] = "extract"
  /\ Upload[3] = "save_file" /\ Upload[4] = "save_document"
  /\ \A i \in Nat : 5 <= i /\ i <= ChunkCount + 4 => Upload[i] = "upsert"
  /\ Upload[ChunkCount + 5] = "save_chunks" /\ Upload[ChunkCount + 6] = "status"
  /\ Upload[ChunkCount + 7] = "commit"
<1> DEFINE A == <<"verify", "extract", "save_file", "save_document">>
           B == [i \in 1..ChunkCount |-> "upsert"]
           C == <<"save_chunks", "status", "commit">>
<1> DEFINE Calls == {"verify", "extract", "save_file", "save_document", "upsert", "save_chunks",
                     "status", "commit"}
<1>0. ChunkCount \in Nat
  BY UploadsAssumption
<1>1. /\ A \in Seq(Calls) /\ Len(A) = 4
      /\ B \in Seq(Calls) /\ Len(B) = ChunkCount
      /\ C \in Seq(Calls) /\ Len(C) = 3
  <2>1. B \in Seq(Calls) /\ Len(B) = ChunkCount
    <3>1. B \in [1..ChunkCount -> Calls]
      OBVIOUS
    <3> QED
      BY <1>0, <3>1, SeqDef
  <2>2. A \in Seq(Calls) /\ C \in Seq(Calls)
    BY DEF A, C, Calls
  <2> QED
    BY <2>1, <2>2
<1>2. /\ A[1] = "verify" /\ A[2] = "extract" /\ A[3] = "save_file" /\ A[4] = "save_document"
      /\ \A i \in 1..ChunkCount : B[i] = "upsert"
      /\ C[1] = "save_chunks" /\ C[2] = "status" /\ C[3] = "commit"
  OBVIOUS
<1>3. Upload = (A \o B) \o C
  BY DEF Upload
<1> HIDE DEF A, B, C
<1> DEFINE D == A \o B
<1>4. /\ D \in Seq(Calls) /\ Len(D) = ChunkCount + 4
      /\ \A i \in 1..(ChunkCount + 4) : D[i] = IF i <= 4 THEN A[i] ELSE B[i - 4]
  <2>1. /\ D \in Seq(Calls) /\ Len(D) = Len(A) + Len(B)
        /\ \A i \in 1..(Len(A) + Len(B)) : D[i] = IF i <= Len(A) THEN A[i] ELSE B[i - Len(A)]
    BY <1>1, ConcatProperties
  <2> HIDE DEF D
  <2>2. Len(A) + Len(B) = ChunkCount + 4
    BY <1>0, <1>1
  <2> QED
    BY <1>1, <2>1, <2>2
<1>5. Upload = D \o C
  BY <1>3
<1> HIDE DEF D
<1>6. /\ Len(Upload) = ChunkCount + 7
      /\ \A i \in 1..(ChunkCount + 4) : Upload[i] = D[i]
      /\ \A i \in 1..3 : Upload[ChunkCount + 4 + i] = C[i]
  <2>1. /\ Len(Upload) = Len(D) + Len(C)
        /\ \A i \in 1..(Len(D) + Len(C)) : Upload[i] = IF i <= Len(D) THEN D[i] ELSE C[i - Len(D)]
    BY <1>1, <1>4, <1>5, ConcatProperties
  <2>2. Len(D) + Len(C) = ChunkCount + 7
    BY <1>0, <1>1, <1>4
  <2>3. \A i \in 1..(ChunkCount + 7) : Upload[i] = IF i <= ChunkCount + 4 THEN D[i]
                                                 ELSE C[i - (ChunkCount + 4)]
    BY <1>4, <2>1, <2>2
  <2>4. ASSUME NEW i \in 1..3 PROVE Upload[ChunkCount + 4 + i] = C[i]
    <3>1. /\ ChunkCount + 4 + i \in 1..(ChunkCount + 7) /\ ~(ChunkCount + 4 + i <= ChunkCount + 4)
          /\ (ChunkCount + 4 + i) - (ChunkCount + 4) = i
      BY <1>0
    <3> QED
      BY <2>3, <3>1
  <2>5. \A i \in 1..(ChunkCount + 4) : i \in 1..(ChunkCount + 7) /\ i <= ChunkCount + 4
    BY <1>0
  <2> QED
    BY <2>1, <2>2, <2>3, <2>4, <2>5
<1>7. ASSUME NEW i \in Nat, 5 <= i, i <= ChunkCount + 4 PROVE Upload[i] = "upsert"
  <2>1. i \in 1..(ChunkCount + 4) /\ i \in 5..(ChunkCount + 4) /\ i - 4 \in 1..ChunkCount
    BY <1>0, <1>7
  <2> QED
    BY <1>2, <1>4, <1>6, <2>1
<1>8. /\ Upload[1] = "verify" /\ Upload[2] = "extract"
      /\ Upload[3] = "save_file" /\ Upload[4] = "save_document"
  BY <1>0, <1>2, <1>4, <1>6
<1>9. /\ Upload[ChunkCount + 5] = "save_chunks" /\ Upload[ChunkCount + 6] = "status"
      /\ Upload[ChunkCount + 7] = "commit"
  BY <1>0, <1>2, <1>6
<1> QED
  BY <1>6, <1>7, <1>8, <1>9

\* The programs of the other routes whose steps the invariants speak of.
LEMMA Programs ==
  /\ Program["login"] = <<"limit", "authenticate", "save_token">>
  /\ Program["refresh"] = <<"peek", "find_user", "read", "delete", "save_token">>
  /\ Program["logout"] = <<"delete">>
  /\ Program["create_session"] = <<"verify", "limit", "create">>
  /\ Program["answer"] = <<"verify", "limit", "global", "find_owned", "answer", "record">>
  /\ Program["ingest"] = <<"verify", "limit", "send", "own">>
  /\ Program["job_status"] = <<"verify", "owner", "result">>
  /\ Program["chat"] = <<"verify", "limit", "global", "search">>
  /\ Program["search"] = <<"verify", "search">>
  /\ Program["register"] = <<"limit", "insert", "commit_user">>
  /\ Program["upload"] = Upload /\ Program["upload_parents"] = Upload
  BY DEF Program, RefreshProgram, UploadWithParents

\* The step a route is at, by its place in the route's program.
StepTable(op, pc, s) ==
  \/ op = "login" /\ ((pc = 1 /\ s = "limit") \/ (pc = 2 /\ s = "authenticate") \/ (pc = 3 /\ s = "save_token"))
  \/ op = "refresh" /\ (\/ (pc = 1 /\ s = "peek") \/ (pc = 2 /\ s = "find_user") \/ (pc = 3 /\ s = "read")
                        \/ (pc = 4 /\ s = "delete") \/ (pc = 5 /\ s = "save_token"))
  \/ op = "logout" /\ pc = 1 /\ s = "delete"
  \/ op = "create_session" /\ ((pc = 1 /\ s = "verify") \/ (pc = 2 /\ s = "limit") \/ (pc = 3 /\ s = "create"))
  \/ op = "answer" /\ (\/ (pc = 1 /\ s = "verify") \/ (pc = 2 /\ s = "limit") \/ (pc = 3 /\ s = "global")
                       \/ (pc = 4 /\ s = "find_owned") \/ (pc = 5 /\ s = "answer") \/ (pc = 6 /\ s = "record"))
  \/ op = "ingest" /\ (\/ (pc = 1 /\ s = "verify") \/ (pc = 2 /\ s = "limit")
                       \/ (pc = 3 /\ s = "send") \/ (pc = 4 /\ s = "own"))
  \/ op = "job_status" /\ ((pc = 1 /\ s = "verify") \/ (pc = 2 /\ s = "owner") \/ (pc = 3 /\ s = "result"))
  \/ op = "chat" /\ (\/ (pc = 1 /\ s = "verify") \/ (pc = 2 /\ s = "limit")
                     \/ (pc = 3 /\ s = "global") \/ (pc = 4 /\ s = "search"))
  \/ op = "search" /\ ((pc = 1 /\ s = "verify") \/ (pc = 2 /\ s = "search"))
  \/ op = "register" /\ ((pc = 1 /\ s = "limit") \/ (pc = 2 /\ s = "insert") \/ (pc = 3 /\ s = "commit_user"))
  \/ op \in Uploads /\ (\/ (pc = 1 /\ s = "verify") \/ (pc = 2 /\ s = "extract")
                        \/ (pc = 3 /\ s = "save_file") \/ (pc = 4 /\ s = "save_document")
                        \/ (pc >= 5 /\ pc <= ChunkCount + 4 /\ s = "upsert")
                        \/ (pc = ChunkCount + 5 /\ s = "save_chunks")
                        \/ (pc = ChunkCount + 6 /\ s = "status") \/ (pc = ChunkCount + 7 /\ s = "commit"))

\* How many steps a route has.
LEMMA Lengths ==
  /\ Len(Program["login"]) = 3 /\ Len(Program["refresh"]) = 5 /\ Len(Program["logout"]) = 1
  /\ Len(Program["create_session"]) = 3 /\ Len(Program["answer"]) = 6 /\ Len(Program["ingest"]) = 4
  /\ Len(Program["job_status"]) = 3 /\ Len(Program["chat"]) = 4 /\ Len(Program["search"]) = 2
  /\ Len(Program["register"]) = 3
  /\ \A op \in Uploads : Len(Program[op]) = ChunkCount + 7
  BY Programs, UploadSteps DEF Uploads

\* StepTable is what the programs say.
LEMMA StepOf ==
  ASSUME NEW op \in Routes, NEW pc \in Nat \ {0}, pc <= Len(Program[op])
  PROVE  StepTable(op, pc, Program[op][pc])
<1> DEFINE s == Program[op][pc]
<1>1. CASE op \in Uploads
  <2>1. Program[op] = Upload
    BY <1>1, Programs DEF Uploads
  <2>2. pc <= ChunkCount + 7 /\ ChunkCount \in Nat
    BY <2>1, UploadSteps, UploadsAssumption
  <2>3. \/ pc = 1 \/ pc = 2 \/ pc = 3 \/ pc = 4 \/ (5 <= pc /\ pc <= ChunkCount + 4)
        \/ pc = ChunkCount + 5 \/ pc = ChunkCount + 6 \/ pc = ChunkCount + 7
    BY <2>2
  <2>4. \/ (pc = 1 /\ s = "verify") \/ (pc = 2 /\ s = "extract")
        \/ (pc = 3 /\ s = "save_file") \/ (pc = 4 /\ s = "save_document")
        \/ (pc >= 5 /\ pc <= ChunkCount + 4 /\ s = "upsert")
        \/ (pc = ChunkCount + 5 /\ s = "save_chunks")
        \/ (pc = ChunkCount + 6 /\ s = "status") \/ (pc = ChunkCount + 7 /\ s = "commit")
    BY <2>1, <2>2, <2>3, UploadSteps
  <2> QED
    BY <1>1, <2>4 DEF StepTable
<1>2. CASE op = "login"
  <2>1. pc = 1 \/ pc = 2 \/ pc = 3
    BY <1>2, Lengths
  <2>2. Program[op] = <<"limit", "authenticate", "save_token">>
    BY <1>2, Programs
  <2> QED
    BY <1>2, <2>1, <2>2 DEF StepTable
<1>3. CASE op = "refresh"
  <2>1. pc = 1 \/ pc = 2 \/ pc = 3 \/ pc = 4 \/ pc = 5
    BY <1>3, Lengths
  <2>2. Program[op] = <<"peek", "find_user", "read", "delete", "save_token">>
    BY <1>3, Programs
  <2> QED
    BY <1>3, <2>1, <2>2 DEF StepTable
<1>4. CASE op = "logout"
  <2>1. pc = 1
    BY <1>4, Lengths
  <2>2. Program[op] = <<"delete">>
    BY <1>4, Programs
  <2> QED
    BY <1>4, <2>1, <2>2 DEF StepTable
<1>5. CASE op = "create_session"
  <2>1. pc = 1 \/ pc = 2 \/ pc = 3
    BY <1>5, Lengths
  <2>2. Program[op] = <<"verify", "limit", "create">>
    BY <1>5, Programs
  <2> QED
    BY <1>5, <2>1, <2>2 DEF StepTable
<1>6. CASE op = "answer"
  <2>1. pc = 1 \/ pc = 2 \/ pc = 3 \/ pc = 4 \/ pc = 5 \/ pc = 6
    BY <1>6, Lengths
  <2>2. Program[op] = <<"verify", "limit", "global", "find_owned", "answer", "record">>
    BY <1>6, Programs
  <2> QED
    BY <1>6, <2>1, <2>2 DEF StepTable
<1>7. CASE op = "ingest"
  <2>1. pc = 1 \/ pc = 2 \/ pc = 3 \/ pc = 4
    BY <1>7, Lengths
  <2>2. Program[op] = <<"verify", "limit", "send", "own">>
    BY <1>7, Programs
  <2> QED
    BY <1>7, <2>1, <2>2 DEF StepTable
<1>8. CASE op = "job_status"
  <2>1. pc = 1 \/ pc = 2 \/ pc = 3
    BY <1>8, Lengths
  <2>2. Program[op] = <<"verify", "owner", "result">>
    BY <1>8, Programs
  <2> QED
    BY <1>8, <2>1, <2>2 DEF StepTable
<1>9. CASE op = "chat"
  <2>1. pc = 1 \/ pc = 2 \/ pc = 3 \/ pc = 4
    BY <1>9, Lengths
  <2>2. Program[op] = <<"verify", "limit", "global", "search">>
    BY <1>9, Programs
  <2> QED
    BY <1>9, <2>1, <2>2 DEF StepTable
<1>10. CASE op = "search"
  <2>1. pc = 1 \/ pc = 2
    BY <1>10, Lengths
  <2>2. Program[op] = <<"verify", "search">>
    BY <1>10, Programs
  <2> QED
    BY <1>10, <2>1, <2>2 DEF StepTable
<1>11. CASE op = "register"
  <2>1. pc = 1 \/ pc = 2 \/ pc = 3
    BY <1>11, Lengths
  <2>2. Program[op] = <<"limit", "insert", "commit_user">>
    BY <1>11, Programs
  <2> QED
    BY <1>11, <2>1, <2>2 DEF StepTable
<1> QED
  BY <1>1, <1>2, <1>3, <1>4, <1>5, <1>6, <1>7, <1>8, <1>9, <1>10, <1>11 DEF Routes, Uploads

-----------------------------------------------------------------------------
(* What every step does to the requests. *)

RequestsType == req \in [Ids -> Request \cup {None}]

TokensType == /\ tokens \in [Ids -> Token \cup {None}] /\ deletes \in [Ids -> Nat]
              /\ late \in [Ids -> Nat]

\* Requests are numbered from 1 on as they come in.
Numbered == \A r \in Ids : req[r] # None => r >= 1 /\ r <= started

\* A token that a request names was issued, and stays known.
TokensKnown ==
  \A r \in Ids : req[r] # None /\ req[r].op \in {"refresh", "logout"} =>
     req[r].arg \in Ids /\ tokens[req[r].arg] # None

BaseInv ==
  /\ suite \in Suites /\ started \in Nat /\ started <= MaxStarted /\ clock \in Nat
  /\ access \in [Users -> Nat]
  /\ RequestsType /\ TokensType /\ Numbered /\ TokensKnown

\* The constants' types.
LEMMA Constants ==
  /\ MaxStarted \in Nat /\ None \notin Users /\ None \notin Nat /\ RefreshLife \in Nat
  /\ JobTtl \in Nat /\ ChunkCount \in Nat /\ ParentCount \in Nat /\ AccessLife \in Nat
  /\ None \notin Request /\ None \notin LimitKeys /\ None \notin LimitKeys \X Nat
  /\ None \notin Token /\ None \notin Job /\ None \notin Owner /\ None \notin Document
  /\ None \notin {"SUCCESS", "FAILURE", "PENDING"}
  BY ApiBaseAssumption, TokensAssumption, JobsAssumption, UploadsAssumption, ApiAssumption,
     NoneAssumption

\* A request at a step: where that is in the program of its route.
LEMMA AtTable ==
  ASSUME RequestsType, NEW r \in Ids, NEW s, At(r, s)
  PROVE  /\ req[r] \in Request /\ req[r] # None /\ req[r].status = None
         /\ req[r].pc <= Len(Program[req[r].op])
         /\ StepTable(req[r].op, req[r].pc, s)
<1>1. req[r] \in Request /\ req[r].status = None /\ req[r].pc <= Len(Program[req[r].op])
      /\ Program[req[r].op][req[r].pc] = s /\ req[r] # None
  BY DEF At, RequestsType
<1>2. req[r].op \in Routes /\ req[r].pc \in Nat \ {0}
  BY <1>1 DEF Request
<1> QED
  BY <1>1, <1>2, StepOf

\* The answers of a request that is refused somewhere on its way.
Refusals == {401, 404, 409, 413, 422}

\* The limit a step asks: the route's own, or the one for all callers.
LimitAt(r, key) == \/ At(r, "limit") /\ key = KeyOf(r)
                   \/ At(r, "global") /\ key = GlobalKey

Ask(r, key) == req' = [req EXCEPT ![r].pc = @ + 1, ![r].stash = IF @ = None THEN key ELSE @]

TakeUser(r, u) == req' = [req EXCEPT ![r].user = u, ![r].pc = @ + 1]

Midway(r) == req[r].pc <= Len(Program[req[r].op])

Through(r) == req[r].pc > Len(Program[req[r].op])

\* The ways in which a step changes its request.
Forms(r) ==
  \/ Midway(r) /\ Advance(r)
  \/ Midway(r) /\ \E status \in Refusals : End(r, status)
  \/ Midway(r) /\ (At(r, "peek") \/ At(r, "read"))
       /\ Live(req[r].arg, clock) /\ TakeUser(r, tokens[req[r].arg].user)
  \/ \E key : LimitAt(r, key) /\ Ask(r, key)
  \/ \E key : LimitAt(r, key) /\ Refuse(r, key)
  \/ Through(r) /\ End(r, SuccessOf(req[r].op))

\* Every step of a request has one of these forms.
LEMMA StepForms ==
  ASSUME NEW r \in Ids, RequestStep(r)
  PROVE  req[r] # None /\ req[r].status = None /\ Forms(r)
<1> USE DEF Forms, Midway, Through
<1>1. CASE Respond(r)
  BY <1>1 DEF Respond
<1>a. ASSUME NEW s, At(r, s) PROVE req[r] # None /\ req[r].status = None /\ Midway(r)
  BY <1>a DEF At
<1>b. ASSUME NEW s, At(r, s), NEW ok, NEW status \in Refusals, Then(r, ok, status)
      PROVE  req[r] # None /\ req[r].status = None /\ Forms(r)
  <2>1. Advance(r) \/ End(r, status)
    BY <1>b DEF Then
  <2> QED
    BY <1>a, <1>b, <2>1
<1>c. ASSUME NEW s, At(r, s), Advance(r)
      PROVE  req[r] # None /\ req[r].status = None /\ Forms(r)
  BY <1>a, <1>c
<1> HIDE DEF Forms, Midway, Through
<1>2. CASE Verify(r) \/ Insert(r) \/ Authenticate(r) \/ FindUser(r) \/ FindOwned(r)
           \/ RecordBudget(r) \/ ReadOwner(r)
  <2>1. \E s, ok : \E status \in {401, 404, 409} : At(r, s) /\ Then(r, ok, status)
    BY <1>2 DEF Verify, Insert, Authenticate, FindUser, FindOwned, RecordBudget, ReadOwner
  <2> QED
    BY <1>b, <2>1 DEF Refusals
<1>3. CASE Extract(r)
  <2>1. PICK status \in {None, 413, 422} : At(r, "extract") /\ Then(r, status = None, status)
    BY <1>3 DEF Extract
  <2>2. CASE status = None
    <3>1. Advance(r)
      BY <2>1, <2>2 DEF Then
    <3> QED
      BY <1>c, <2>1, <3>1
  <2> QED
    BY <1>b, <2>1, <2>2 DEF Refusals
<1>7. CASE Answer(r)
  <2>1. \E ok : At(r, "answer") /\ Then(r, ok, 422)
    BY <1>7 DEF Answer
  <2> QED
    BY <1>b, <2>1 DEF Refusals
<1>4. CASE CommitUser(r) \/ DeleteToken(r) \/ SaveToken(r) \/ CreateSession(r)
           \/ SendTask(r) \/ OwnTask(r) \/ ReadResult(r) \/ UploadStep(r) \/ Search(r)
  <2>1. \E s : At(r, s) /\ Advance(r)
    BY <1>4 DEF CommitUser, DeleteToken, SaveToken, CreateSession, SendTask, OwnTask,
                ReadResult, UploadStep, Search
  <2> QED
    BY <1>c, <2>1
<1>5. CASE ReadToken(r)
  <2>1. At(r, "peek") \/ At(r, "read")
    BY <1>5 DEF ReadToken
  <2>2. req[r] # None /\ req[r].status = None /\ Midway(r)
    BY <1>a, <2>1
  <2>3. End(r, 401) \/ (Live(req[r].arg, clock) /\ TakeUser(r, tokens[req[r].arg].user))
    BY <1>5 DEF ReadToken, get_user_id, TakeUser
  <2> QED
    BY <2>1, <2>2, <2>3 DEF Forms, Refusals
<1>6. CASE Limit(r)
  <2>1. PICK key : LimitAt(r, key) /\ (Ask(r, key) \/ Refuse(r, key))
    BY <1>6 DEF Limit, LimitAt, enforce_rate_limit, Ask
  <2>2. req[r] # None /\ req[r].status = None
    BY <1>a, <2>1 DEF LimitAt
  <2> QED
    BY <2>1, <2>2 DEF Forms
<1> QED
  BY <1>1, <1>2, <1>3, <1>4, <1>5, <1>6, <1>7 DEF RequestStep, Forms

\* What a step leaves of its request, and how far the request gets by it.
Moved(r) ==
  /\ req[r] \in Request /\ req'[r] \in Request /\ req[r].status = None
  /\ \A q \in Ids : q # r => req'[q] = req[q]
  /\ RequestsType'
  /\ req'[r].op = req[r].op /\ req'[r].arg = req[r].arg /\ req'[r].dead = req[r].dead
  /\ req'[r].chain = req[r].chain /\ (req[r].op # "refresh" => req'[r].user = req[r].user)
  /\ \/ Midway(r) /\ req'[r].pc = req[r].pc + 1 /\ req'[r].status = None
     \/ Midway(r) /\ req'[r].pc = req[r].pc /\ req'[r].status \in Refusals \cup {429}
     \/ /\ Through(r) /\ req'[r].pc = req[r].pc /\ req'[r].status = SuccessOf(req[r].op)

\* A key that a step asks the limiter about is one of its keys.
LEMMA KeysType ==
  ASSUME RequestsType, NEW r \in Ids, NEW key, LimitAt(r, key)
  PROVE  key \in LimitKeys
<1>1. CASE At(r, "limit") /\ key = KeyOf(r)
  <2>1. req[r] \in Request /\ StepTable(req[r].op, req[r].pc, "limit")
    BY <1>1, AtTable
  <2>2. req[r].op \in {"login", "create_session", "answer", "ingest", "chat", "register"}
    BY <2>1 DEF StepTable
  <2>3. req[r].user \in Users
    BY <2>1 DEF Request
  <2>4. LimitName[req[r].op] \in {"register", "login", "chat", "sessions", "data-sources", "global"}
    BY <2>2 DEF LimitName
  <2> QED
    BY <1>1, <2>3, <2>4 DEF KeyOf, LimitKeys
<1>2. CASE At(r, "global") /\ key = GlobalKey
  BY <1>2 DEF GlobalKey, LimitKeys
<1> QED
  BY <1>1, <1>2 DEF LimitAt

\* The record that one update of a request leaves.
LEMMA Updated ==
  ASSUME RequestsType, NEW r \in Ids, NEW v \in Request, req' = [req EXCEPT ![r] = v]
  PROVE  req'[r] = v /\ RequestsType' /\ \A q \in Ids : q # r => req'[q] = req[q]
  BY DEF RequestsType

\* The request r has ended with `status`, and is otherwise as it was.
EndedAs(r, status) ==
  /\ req'[r] \in Request /\ RequestsType' /\ \A q \in Ids : q # r => req'[q] = req[q]
  /\ req'[r].op = req[r].op /\ req'[r].arg = req[r].arg /\ req'[r].dead = req[r].dead
  /\ req'[r].chain = req[r].chain /\ req'[r].user = req[r].user
  /\ req'[r].pc = req[r].pc /\ req'[r].status = status

\* End answers a request.
LEMMA EndKeeps ==
  ASSUME RequestsType, NEW r \in Ids, req[r] \in Request, NEW status \in Nat, End(r, status)
  PROVE  EndedAs(r, status)
<1> DEFINE k == IF status = 500 THEN None ELSE Shown(req[r].stash, None)
           v == [req[r] EXCEPT !.status = status, !.shown = k]
<1>0. k \in LimitKeys \cup {None}
  BY DEF Shown, Request
<1>2. req' = [req EXCEPT ![r] = v]
  BY DEF End
<1> HIDE DEF k
<1>1. v \in Request /\ v.op = req[r].op /\ v.arg = req[r].arg /\ v.dead = req[r].dead
      /\ v.chain = req[r].chain /\ v.user = req[r].user /\ v.status = status
      /\ v.pc = req[r].pc
  BY <1>0 DEF Request
<1> HIDE DEF v
<1>3. req'[r] = v /\ RequestsType' /\ \A q \in Ids : q # r => req'[q] = req[q]
  BY <1>1, <1>2, Updated
<1> QED
  BY <1>1, <1>3 DEF EndedAs

\* Every step of a request moves that request and no other.
LEMMA Moves ==
  ASSUME RequestsType, TokensType, TokensKnown, clock \in Nat, NEW r \in Ids, RequestStep(r)
  PROVE  Moved(r)
<1>0. req[r] # None /\ req[r].status = None /\ Forms(r) /\ req[r] \in Request
  BY StepForms DEF RequestsType
<1>1. CASE Midway(r) /\ Advance(r)
  <2> DEFINE v == [req[r] EXCEPT !.pc = @ + 1]
  <2>1. v \in Request /\ v.op = req[r].op /\ v.arg = req[r].arg /\ v.dead = req[r].dead
        /\ v.chain = req[r].chain /\ v.user = req[r].user /\ v.status = req[r].status
        /\ v.pc = req[r].pc + 1
    BY <1>0 DEF Request
  <2>2. req' = [req EXCEPT ![r] = v]
    BY <1>1 DEF Advance
  <2> HIDE DEF v
  <2>3. req'[r] = v /\ RequestsType' /\ \A q \in Ids : q # r => req'[q] = req[q]
    BY <2>1, <2>2, Updated
  <2> QED
    BY <1>0, <1>1, <2>1, <2>3 DEF Moved
<1>e. ASSUME NEW status \in Nat, End(r, status) PROVE EndedAs(r, status)
  BY <1>0, <1>e, EndKeeps
<1>2. CASE Midway(r) /\ \E status \in Refusals : End(r, status)
  BY <1>0, <1>2, <1>e DEF Moved, Refusals, EndedAs
<1>3. CASE Through(r) /\ End(r, SuccessOf(req[r].op))
  <2>1. SuccessOf(req[r].op) \in Nat
    BY DEF SuccessOf
  <2> QED
    BY <1>0, <1>3, <1>e, <2>1 DEF Moved, EndedAs
<1>4. CASE Midway(r) /\ (At(r, "peek") \/ At(r, "read"))
              /\ Live(req[r].arg, clock) /\ TakeUser(r, tokens[req[r].arg].user)
  <2> DEFINE u == tokens[req[r].arg].user
             w == [req[r] EXCEPT !.user = u]
             v == [w EXCEPT !.pc = req[r].pc + 1]
  <2>1. StepTable(req[r].op, req[r].pc, "peek") \/ StepTable(req[r].op, req[r].pc, "read")
    BY <1>4, AtTable
  <2>2. req[r].op = "refresh"
    BY <2>1 DEF StepTable
  <2>3. u \in Users
    BY <1>0, <1>4, <2>2 DEF TokensKnown, TokensType, Token
  <2>4. req' = [req EXCEPT ![r] = v]
    BY <1>0, <1>4 DEF TakeUser, Request
  <2> HIDE DEF u
  <2>w. w \in Request /\ w.op = req[r].op /\ w.arg = req[r].arg /\ w.dead = req[r].dead
        /\ w.chain = req[r].chain /\ w.status = req[r].status /\ w.pc = req[r].pc
    BY <1>0, <2>3 DEF Request
  <2> HIDE DEF w
  <2>5. v \in Request /\ v.op = req[r].op /\ v.arg = req[r].arg /\ v.dead = req[r].dead
        /\ v.chain = req[r].chain /\ v.status = req[r].status /\ v.pc = req[r].pc + 1
    BY <1>0, <2>w DEF Request
  <2> HIDE DEF v
  <2>6. req'[r] = v /\ RequestsType' /\ \A q \in Ids : q # r => req'[q] = req[q]
    BY <2>4, <2>5, Updated
  <2> QED
    BY <1>0, <1>4, <2>2, <2>5, <2>6 DEF Moved
<1>5. ASSUME NEW key, LimitAt(r, key), Ask(r, key) PROVE Moved(r)
  <2> DEFINE k == IF req[r].stash = None THEN key ELSE req[r].stash
             w == [req[r] EXCEPT !.pc = @ + 1]
             v == [w EXCEPT !.stash = k]
  <2>0. k \in LimitKeys \cup {None} /\ Midway(r)
    BY <1>0, <1>5, KeysType DEF Request, LimitAt, At, Midway
  <2>2. req' = [req EXCEPT ![r] = v]
    BY <1>0, <1>5 DEF Ask, Request
  <2> HIDE DEF k
  <2>w. w \in Request /\ w.op = req[r].op /\ w.arg = req[r].arg /\ w.dead = req[r].dead
        /\ w.chain = req[r].chain /\ w.user = req[r].user /\ w.status = req[r].status
        /\ w.pc = req[r].pc + 1
    BY <1>0 DEF Request
  <2> HIDE DEF w
  <2>1. v \in Request /\ v.op = req[r].op /\ v.arg = req[r].arg /\ v.dead = req[r].dead
        /\ v.chain = req[r].chain /\ v.user = req[r].user /\ v.status = req[r].status
        /\ v.pc = req[r].pc + 1
    BY <2>0, <2>w DEF Request
  <2> HIDE DEF v
  <2>3. req'[r] = v /\ RequestsType' /\ \A q \in Ids : q # r => req'[q] = req[q]
    BY <2>1, <2>2, Updated
  <2> QED
    BY <1>0, <2>0, <2>1, <2>3 DEF Moved
<1>6. ASSUME NEW key, LimitAt(r, key), Refuse(r, key) PROVE Moved(r)
  <2> DEFINE k == Shown(None, key)
             p == <<key, clock>>
             st == 429
             w == [req[r] EXCEPT !.status = st, !.refused = p]
             v == [w EXCEPT !.stash = None, !.shown = k]
  <2>0. k \in LimitKeys /\ key \in LimitKeys /\ Midway(r)
    BY <1>0, <1>6, KeysType DEF Shown, LimitAt, At, Midway
  <2>2. req' = [req EXCEPT ![r] = v]
    <3> DEFINE once == [req EXCEPT ![r].status = st, ![r].refused = p]
    <3>1. req' = [once EXCEPT ![r].stash = None, ![r].shown = k]
      BY <1>6 DEF Refuse
    <3>2. once = [req EXCEPT ![r] = w] /\ once[r] = w
      BY <1>0 DEF RequestsType
    <3> HIDE DEF once, w, k
    <3>3. req' = [once EXCEPT ![r] = [once[r] EXCEPT !.stash = None, !.shown = k]]
      BY <3>1
    <3> QED
      BY <3>2, <3>3 DEF RequestsType
  <2>c. p \in LimitKeys \X Nat /\ st \in Nat
    BY <2>0
  <2> HIDE DEF k, p, st
  <2>w. w \in Request /\ w.op = req[r].op /\ w.arg = req[r].arg /\ w.dead = req[r].dead
        /\ w.chain = req[r].chain /\ w.user = req[r].user /\ w.status = st
        /\ w.pc = req[r].pc
    BY <1>0, <2>c DEF Request
  <2> HIDE DEF w
  <2>1. v \in Request /\ v.op = req[r].op /\ v.arg = req[r].arg /\ v.dead = req[r].dead
        /\ v.chain = req[r].chain /\ v.user = req[r].user /\ v.status = st
        /\ v.pc = req[r].pc
    BY <2>0, <2>w DEF Request
  <2> HIDE DEF v
  <2>3. req'[r] = v /\ RequestsType' /\ \A q \in Ids : q # r => req'[q] = req[q]
    BY <2>1, <2>2, Updated
  <2> QED
    BY <1>0, <2>0, <2>1, <2>3 DEF Moved, st
<1> QED
  BY <1>0, <1>1, <1>2, <1>3, <1>4, <1>5, <1>6 DEF Forms

\* Which steps change what.
LEMMA Touches ==
  ASSUME NEW r \in Ids, RequestStep(r)
  PROVE  /\ UNCHANGED sessionVars \/ CreateSession(r) \/ Answer(r) \/ RecordBudget(r)
         /\ UNCHANGED jobs \/ SendTask(r) \/ OwnTask(r) \/ ReadResult(r)
         /\ UNCHANGED docs \/ UploadStep(r)
         /\ UNCHANGED tokenVars \/ DeleteToken(r) \/ SaveToken(r)
         /\ UNCHANGED access \/ Respond(r)
         /\ UNCHANGED limiterVars \/ Limit(r)
<1> USE DEF accountVars
<1>1. CASE Respond(r) \/ Verify(r) \/ Insert(r) \/ CommitUser(r) \/ Authenticate(r)
           \/ ReadToken(r) \/ FindUser(r) \/ FindOwned(r) \/ ReadOwner(r) \/ Extract(r) \/ Search(r)
  BY <1>1 DEF Respond, Verify, Insert, CommitUser, Authenticate, ReadToken, FindUser, FindOwned,
              ReadOwner, Extract, Search
<1>2. CASE Limit(r)
  BY <1>2 DEF Limit, enforce_rate_limit
<1>3. CASE DeleteToken(r) \/ SaveToken(r)
  BY <1>3 DEF DeleteToken, SaveToken
<1>4. CASE CreateSession(r) \/ Answer(r) \/ RecordBudget(r)
  BY <1>4 DEF CreateSession, Answer, RecordBudget
<1>5. CASE SendTask(r) \/ OwnTask(r) \/ ReadResult(r)
  BY <1>5 DEF SendTask, OwnTask, ReadResult
<1>6. CASE UploadStep(r)
  BY <1>6 DEF UploadStep
<1> QED
  BY <1>1, <1>2, <1>3, <1>4, <1>5, <1>6 DEF RequestStep

\* A new request: what it looks like, and that its number was free.
LEMMA Starts ==
  ASSUME BaseInv, NEW op \in suite.ops, NEW u \in suite.users, NEW a \in Arguments(op),
         Start(op, u, a)
  PROVE  LET r == started + 1
         IN  /\ r \in Ids /\ req[r] = None /\ started' = r
             /\ req'[r] \in Request /\ RequestsType'
             /\ \A q \in Ids : q # r => req'[q] = req[q]
             /\ req'[r].op = op /\ req'[r].user = u /\ req'[r].arg = a /\ req'[r].pc = 1
             /\ req'[r].status = None /\ req'[r].stash = None /\ req'[r].shown = None
             /\ req'[r].refused = None
             /\ req'[r].dead = (\/ op \in {"refresh", "logout"} /\ (deletes[a] > 0 \/ ~Live(a, clock))
                                \/ op = "job_status" /\ OwnerOf(a, clock) = None)
             /\ req'[r].chain = (IF op \in {"refresh", "logout"} THEN tokens[a].chain ELSE r)
             /\ op \in {"refresh", "logout"} => a \in Ids /\ tokens[a] # None
             /\ op = "answer" => a \in Ids /\ sessions[a] # None
             /\ op = "job_status" => a \in Ids /\ jobs[a] # None
             /\ op = "ingest" => a \in {None, u}
             /\ op \in Routes /\ u \in Users
             /\ UNCHANGED <<suite, clock, accountVars, sessionVars, limiterVars, tokenVars, jobs, docs>>
<1> DEFINE r == started + 1
<1>0. /\ suite.ops \subseteq Routes /\ suite.users \subseteq Users
      /\ suite.started \in Nat /\ suite.started <= MaxStarted /\ started \in Nat /\ MaxStarted \in Nat
  BY ApiAssumption, ApiBaseAssumption DEF BaseInv
<1>1. op \in Routes /\ u \in Users
  BY <1>0
<1>2. started < suite.started /\ started' = r
  BY DEF Start
<1>3. r \in Ids /\ r > started /\ r >= 1
  BY <1>0, <1>2 DEF Ids
<1>4. req[r] = None
  BY <1>0, <1>3 DEF BaseInv, Numbered
<1>5. /\ op \in {"refresh", "logout"} => a \in Ids /\ tokens[a] # None
      /\ op = "answer" => a \in Ids /\ sessions[a] # None
      /\ op = "job_status" => a \in Ids /\ jobs[a] # None
  BY DEF Arguments
<1>6. a \in Ids \cup Users \cup {None}
  <2>1. CASE op \in {"refresh", "logout", "answer", "job_status"}
    BY <1>5, <2>1
  <2>2. CASE op \notin {"refresh", "logout", "answer", "job_status"}
    BY <2>2 DEF Arguments
  <2> QED
    BY <2>1, <2>2
<1>7. op = "ingest" => a \in {None, u}
  BY DEF Start
<1> DEFINE dead == \/ op \in {"refresh", "logout"} /\ (deletes[a] > 0 \/ ~Live(a, clock))
                   \/ op = "job_status" /\ OwnerOf(a, clock) = None
           chain == IF op \in {"refresh", "logout"} THEN tokens[a].chain ELSE r
           exp == access[u]
           v == [op |-> op, user |-> u, arg |-> a, pc |-> 1, status |-> None, exp |-> exp,
                 dead |-> dead, chain |-> chain, stash |-> None, shown |-> None, refused |-> None]
<1>8. req' = [req EXCEPT ![r] = v]
  BY DEF Start
<1>9. dead \in BOOLEAN
  BY DEF Live
<1>10. chain \in Ids
  BY <1>3, <1>5 DEF BaseInv, TokensType, Token
<1>11. exp \in Nat
  BY <1>1 DEF BaseInv
<1> HIDE DEF dead, chain, exp
<1>12. v \in Request
  BY <1>1, <1>6, <1>9, <1>10, <1>11 DEF Request
<1>13. /\ v.op = op /\ v.user = u /\ v.arg = a /\ v.pc = 1 /\ v.status = None /\ v.stash = None
       /\ v.shown = None /\ v.refused = None /\ v.dead = dead /\ v.chain = chain
  OBVIOUS
<1> HIDE DEF v
<1>14. req'[r] = v /\ RequestsType' /\ \A q \in Ids : q # r => req'[q] = req[q]
  BY <1>3, <1>8, <1>12, Updated DEF BaseInv
<1>15. UNCHANGED <<suite, clock, accountVars, sessionVars, limiterVars, tokenVars, jobs, docs>>
  BY DEF Start
<1> QED
  BY <1>1, <1>2, <1>3, <1>4, <1>5, <1>7, <1>12, <1>13, <1>14, <1>15 DEF dead, chain

\* A request that fails ends with 500.
LEMMA FaultEnds ==
  ASSUME RequestsType, NEW r \in Ids, RequestFault(r)
  PROVE  req[r] \in Request /\ req[r].status = None /\ EndedAs(r, 500)
<1>1. req[r] \in Request /\ req[r].status = None /\ End(r, 500)
  BY DEF RequestFault, RequestsType
<1> QED
  BY <1>1, EndKeeps

\* Tokens keep their types, and none that was issued becomes unknown.
LEMMA TokensStep ==
  ASSUME BaseInv, NEW r \in Ids, RequestStep(r)
  PROVE  TokensType' /\ \A t \in Ids : tokens[t] # None => tokens'[t] # None
<1>0. RequestsType /\ TokensType /\ clock \in Nat /\ TokensKnown
  BY DEF BaseInv
<1>1. CASE UNCHANGED tokenVars
  BY <1>0, <1>1 DEF TokensType, tokenVars
<1>2. CASE DeleteToken(r)
  <2>1. At(r, "delete") /\ delete(req[r].arg)
    BY <1>2 DEF DeleteToken
  <2>2. req[r].op \in {"refresh", "logout"} /\ req[r] # None
    BY <1>0, <2>1, AtTable DEF StepTable
  <2> DEFINE a == req[r].arg
  <2>3. a \in Ids /\ tokens[a] \in Token
    BY <1>0, <2>2 DEF TokensKnown, TokensType
  <2>4. tokens' = [tokens EXCEPT ![a] = [tokens[a] EXCEPT !.expires = 0]]
        /\ deletes' = [deletes EXCEPT ![a] = @ + 1]
        /\ (late' = late \/ late' = [late EXCEPT ![tokens[a].chain] = @ + 1])
    BY <2>1 DEF delete, Without
  <2>5. [tokens[a] EXCEPT !.expires = 0] \in Token
    BY <2>3 DEF Token
  <2>6. tokens[a].chain \in Ids
    BY <2>3 DEF Token
  <2> HIDE DEF a
  <2>7. late' \in [Ids -> Nat]
    BY <1>0, <2>4, <2>6 DEF TokensType
  <2>8. tokens' = [tokens EXCEPT ![a] = [tokens[a] EXCEPT !.expires = 0]]
        /\ deletes' = [deletes EXCEPT ![a] = @ + 1]
    BY <2>4
  <2> QED
    BY <1>0, <2>3, <2>5, <2>7, <2>8, Constants DEF TokensType
<1>3. CASE SaveToken(r)
  <2> DEFINE v == [user |-> req[r].user, expires |-> clock + RefreshLife, chain |-> req[r].chain]
  <2>1. At(r, "save_token") /\ tokens' = [tokens EXCEPT ![r] = v] /\ UNCHANGED <<deletes, late>>
    BY <1>3 DEF SaveToken, save
  <2>2. req[r] \in Request
    BY <1>0, <2>1, AtTable
  <2>3. v \in Token
    BY <1>0, <2>2, Constants DEF Token, Request
  <2> HIDE DEF v
  <2> QED
    BY <1>0, <2>1, <2>3, Constants DEF TokensType
<1> QED
  BY <1>1, <1>2, <1>3, Touches

\* BaseInv is inductive.
LEMMA BaseStep == BaseInv /\ [Next]_vars => BaseInv'
<1> SUFFICES ASSUME BaseInv, [Next]_vars PROVE BaseInv'
  OBVIOUS
<1>0. /\ suite \in Suites /\ started \in Nat /\ started <= MaxStarted /\ clock \in Nat
      /\ access \in [Users -> Nat] /\ RequestsType /\ TokensType /\ Numbered /\ TokensKnown
  BY DEF BaseInv
<1>1. ASSUME NEW op \in suite.ops, NEW u \in suite.users, NEW a \in Arguments(op), Start(op, u, a)
      PROVE  BaseInv'
  <2> DEFINE r == started + 1
  <2>1. /\ r \in Ids /\ started' = r /\ req'[r] \in Request /\ RequestsType'
        /\ \A q \in Ids : q # r => req'[q] = req[q]
        /\ req'[r].op = op /\ req'[r].arg = a
        /\ op \in {"refresh", "logout"} => a \in Ids /\ tokens[a] # None
        /\ UNCHANGED <<suite, clock, accountVars, tokenVars>>
    BY <1>1, Starts
  <2>2. UNCHANGED <<suite, clock, access, tokens, deletes, late>>
    BY <2>1 DEF accountVars, tokenVars
  <2>3. r <= MaxStarted /\ r \in Nat /\ r >= 1
    BY <1>0, <2>1, Constants DEF Ids
  <2>4. Numbered'
    <3>1. \A q \in Ids : q \in Nat /\ (q <= started => q <= r)
      BY <1>0, Constants DEF Ids
    <3> HIDE DEF r
    <3>2. \A q \in Ids : req'[q] # None => q >= 1 /\ q <= r
      BY <1>0, <2>1, <2>3, <3>1 DEF Numbered
    <3> QED
      BY <2>1, <3>2 DEF Numbered
  <2>5. TokensKnown'
    BY <1>0, <2>1, <2>2 DEF TokensKnown
  <2> QED
    BY <1>0, <2>1, <2>2, <2>3, <2>4, <2>5 DEF BaseInv, TokensType
<1>a. ASSUME NEW r \in Ids, req[r] # None, RequestsType', TokensType', access' \in [Users -> Nat],
             \A q \in Ids : q # r => req'[q] = req[q],
             req'[r].op = req[r].op, req'[r].arg = req[r].arg,
             \A t \in Ids : tokens[t] # None => tokens'[t] # None,
             UNCHANGED <<suite, started, clock>>
      PROVE  BaseInv'
  <2>1. Numbered'
    BY <1>0, <1>a DEF Numbered
  <2>2. TokensKnown'
    BY <1>0, <1>a DEF TokensKnown
  <2> QED
    BY <1>0, <1>a, <2>1, <2>2 DEF BaseInv
<1>2. ASSUME NEW r \in Ids, Step(r) PROVE BaseInv'
  <2>1. RequestStep(r) /\ UNCHANGED <<suite, started, clock>>
    BY <1>2 DEF Step
  <2>2. Moved(r)
    BY <1>0, <2>1, Moves
  <2>3. TokensType' /\ \A t \in Ids : tokens[t] # None => tokens'[t] # None
    BY <2>1, TokensStep
  <2>4. access' \in [Users -> Nat]
    <3>1. CASE UNCHANGED access
      BY <1>0, <3>1
    <3>2. CASE Respond(r)
      <4>1. clock + AccessLife \in Nat
        BY <1>0, Constants
      <4>2. access' = access \/ access' = [access EXCEPT ![req[r].user] = clock + AccessLife]
        BY <3>2 DEF Respond
      <4> QED
        BY <1>0, <4>1, <4>2
    <3> QED
      BY <2>1, <3>1, <3>2, Touches
  <2>5. req[r] # None
    BY <2>2, Constants DEF Moved
  <2> QED
    BY <1>a, <2>1, <2>2, <2>3, <2>4, <2>5 DEF Moved
<1>3. ASSUME NEW r \in Ids, RequestFault(r), UNCHANGED <<suite, started, clock>> PROVE BaseInv'
  <2>1. req[r] \in Request /\ EndedAs(r, 500)
    BY <1>0, <1>3, FaultEnds
  <2>2. UNCHANGED <<access, tokens, deletes, late>>
    BY <1>3 DEF RequestFault, accountVars, tokenVars
  <2> QED
    BY <1>0, <1>3, <1>a, <2>1, <2>2, Constants DEF EndedAs, TokensType
<1>4. ASSUME UNCHANGED <<suite, started, req, accountVars, tokenVars>>, clock' = clock \/ clock' = clock + 1
      PROVE  BaseInv'
  BY <1>0, <1>4 DEF BaseInv, RequestsType, TokensType, Numbered, TokensKnown, accountVars, tokenVars
<1>5. CASE Fail
  BY <1>3, <1>4, <1>5 DEF Fail
<1>6. CASE \E j \in Ids : Work(j)
  BY <1>4, <1>6 DEF Work, Worker
<1>7. CASE Tick
  BY <1>4, <1>7 DEF Tick
<1>8. CASE UNCHANGED vars
  BY <1>4, <1>8 DEF vars, accountVars, tokenVars
<1> QED
  BY <1>1, <1>2, <1>5, <1>6, <1>7, <1>8 DEF Next

\* The kinds of steps there are.
LEMMA Kinds ==
  ASSUME [Next]_vars
  PROVE  \/ \E op \in suite.ops, u \in suite.users : \E a \in Arguments(op) : Start(op, u, a)
         \/ \E r \in Ids : RequestStep(r) /\ UNCHANGED <<suite, started, clock>>
         \/ \E r \in Ids : RequestFault(r) /\ UNCHANGED <<suite, started, clock>>
         \/ \E j \in Ids : /\ WorkerStep(j, clock) \/ WorkerFault(j)
                           /\ UNCHANGED <<clock, req, sessionVars, limiterVars, tokenVars, docs>>
         \/ /\ clock' = clock \/ clock' = clock + 1
            /\ UNCHANGED <<req, sessionVars, limiterVars, tokenVars, jobs, docs>>
<1>1. CASE Fail
  BY <1>1 DEF Fail
<1>2. CASE Tick
  BY <1>2 DEF Tick
<1>3. CASE UNCHANGED vars
  BY <1>3 DEF vars, sessionVars, limiterVars, tokenVars
<1>4. CASE \E j \in Ids : Work(j)
  BY <1>4 DEF Work, Worker
<1>5. CASE \E r \in Ids : Step(r)
  BY <1>5 DEF Step
<1> QED
  BY <1>1, <1>2, <1>3, <1>4, <1>5 DEF Next

\* The step a request is at is the step it takes.
LEMMA StepTaken ==
  ASSUME RequestsType, NEW r \in Ids, RequestStep(r), Midway(r), req[r] \in Request
  PROVE  \E s : /\ StepTable(req[r].op, req[r].pc, s) /\ At(r, s)
                /\ s = "verify" => Verify(r)
                /\ s = "find_owned" => FindOwned(r)
                /\ s = "create" => CreateSession(r)
                /\ s = "answer" => Answer(r)
                /\ s = "record" => RecordBudget(r)
                /\ s = "send" => SendTask(r)
                /\ s = "own" => OwnTask(r)
                /\ s = "owner" => ReadOwner(r)
                /\ s = "result" => ReadResult(r)
                /\ s \in {"peek", "read"} => ReadToken(r)
                /\ s = "delete" => DeleteToken(r)
                /\ s = "save_token" => SaveToken(r)
                /\ s \in {"limit", "global"} => Limit(r)
                /\ s \in {"save_file", "save_document", "upsert", "save_chunks", "status", "commit"}
                      => UploadStep(r)
<1> DEFINE s == Program[req[r].op][req[r].pc]
<1>0. req[r] # None /\ req[r].status = None
  BY StepForms
<1>1. At(r, s)
  BY <1>0 DEF At, Midway
<1>2. StepTable(req[r].op, req[r].pc, s)
  BY <1>1, AtTable
<1>3. \A x : At(r, x) => x = s
  BY DEF At
<1>4. ~Respond(r)
  <2>1. Len(Program[req[r].op]) \in Nat
    BY Lengths, Constants DEF Request, Routes, Uploads
  <2> QED
    BY <2>1 DEF Respond, Midway, Request
<1>5. Verify(r) => s = "verify"
  BY <1>3 DEF Verify
<1>6. Limit(r) => s \in {"limit", "global"}
  BY <1>3 DEF Limit
<1>7. Insert(r) => s = "insert"
  BY <1>3 DEF Insert
<1>8. CommitUser(r) => s = "commit_user"
  BY <1>3 DEF CommitUser
<1>9. Authenticate(r) => s = "authenticate"
  BY <1>3 DEF Authenticate
<1>10. ReadToken(r) => s \in {"peek", "read"}
  BY <1>3 DEF ReadToken
<1>11. FindUser(r) => s = "find_user"
  BY <1>3 DEF FindUser
<1>12. DeleteToken(r) => s = "delete"
  BY <1>3 DEF DeleteToken
<1>13. SaveToken(r) => s = "save_token"
  BY <1>3 DEF SaveToken
<1>14. CreateSession(r) => s = "create"
  BY <1>3 DEF CreateSession
<1>15. FindOwned(r) => s = "find_owned"
  BY <1>3 DEF FindOwned
<1>16. Answer(r) => s = "answer"
  BY <1>3 DEF Answer
<1>17. RecordBudget(r) => s = "record"
  BY <1>3 DEF RecordBudget
<1>18. SendTask(r) => s = "send"
  BY <1>3 DEF SendTask
<1>19. OwnTask(r) => s = "own"
  BY <1>3 DEF OwnTask
<1>20. ReadOwner(r) => s = "owner"
  BY <1>3 DEF ReadOwner
<1>21. ReadResult(r) => s = "result"
  BY <1>3 DEF ReadResult
<1>22. Extract(r) => s = "extract"
  BY <1>3 DEF Extract
<1>23. UploadStep(r) => s \in {"save_file", "save_document", "upsert", "save_chunks", "status", "commit"}
  BY <1>3 DEF UploadStep
<1>24. Search(r) => s = "search"
  BY <1>3 DEF Search
<1> HIDE DEF s
<1>25. /\ s = "verify" => Verify(r)
       /\ s = "find_owned" => FindOwned(r)
       /\ s = "create" => CreateSession(r)
       /\ s = "answer" => Answer(r)
       /\ s = "record" => RecordBudget(r)
       /\ s = "send" => SendTask(r)
       /\ s = "own" => OwnTask(r)
       /\ s = "owner" => ReadOwner(r)
       /\ s = "result" => ReadResult(r)
       /\ s \in {"peek", "read"} => ReadToken(r)
       /\ s = "delete" => DeleteToken(r)
       /\ s = "save_token" => SaveToken(r)
       /\ s \in {"limit", "global"} => Limit(r)
       /\ s \in {"save_file", "save_document", "upsert", "save_chunks", "status", "commit"}
             => UploadStep(r)
  BY <1>4, <1>5, <1>6, <1>7, <1>8, <1>9, <1>10, <1>11, <1>12, <1>13, <1>14, <1>15, <1>16, <1>17,
     <1>18, <1>19, <1>20, <1>21, <1>22, <1>23, <1>24 DEF RequestStep
<1> QED
  BY <1>1, <1>2, <1>25

-----------------------------------------------------------------------------
(* Sessions. *)

Is(r, op) == req[r] # None /\ req[r].op = op

SessionsType ==
  /\ sessions \in [Ids -> Users \cup {None}] /\ budgets \in [Ids -> Users \cup {None}]
  /\ answered \subseteq Ids \X Users

\* A session was there before, or its request has created it.
SessionsCreated ==
  \A s \in Ids : sessions[s] # None => s = 0 \/ (Is(s, "create_session") /\ req[s].pc >= 4)

\* A request for an answer names a session, and past find_owned one of its own.
AnswersOwned ==
  \A r \in Ids : Is(r, "answer") =>
     /\ req[r].arg \in Ids /\ sessions[req[r].arg] # None
     /\ req[r].pc >= 5 => sessions[req[r].arg] = req[r].user

SessionsInv == SessionsType /\ SessionsCreated /\ AnswersOwned /\ AnswersInOwnSession

\* No session changes hands, so that what was in order for its owner stays so.
LEMMA SessionsStep == BaseInv /\ SessionsInv /\ [Next]_vars => SessionsInv'
<1> SUFFICES ASSUME BaseInv, SessionsInv, [Next]_vars PROVE SessionsInv'
  OBVIOUS
<1>0. /\ RequestsType /\ TokensType /\ TokensKnown /\ clock \in Nat /\ Numbered
      /\ SessionsType /\ SessionsCreated /\ AnswersOwned /\ AnswersInOwnSession
  BY DEF BaseInv, SessionsInv
<1>n. None \notin Request /\ None \notin Users
  BY Constants
<1>a. ASSUME UNCHANGED sessionVars,
             \A s \in Ids : Is(s, "create_session") /\ req[s].pc >= 4 =>
                               Is(s, "create_session")' /\ req'[s].pc >= 4,
             AnswersOwned'
      PROVE  SessionsInv'
  BY <1>0, <1>a DEF SessionsInv, SessionsType, SessionsCreated, AnswersInOwnSession, sessionVars
<1>1. ASSUME NEW op \in suite.ops, NEW u \in suite.users, NEW a \in Arguments(op), Start(op, u, a)
      PROVE  SessionsInv'
  <2> DEFINE r == started + 1
  <2>1. /\ r \in Ids /\ req[r] = None
        /\ \A q \in Ids : q # r => req'[q] = req[q]
        /\ req'[r].op = op /\ req'[r].arg = a /\ req'[r].pc = 1
        /\ op = "answer" => a \in Ids /\ sessions[a] # None
        /\ UNCHANGED sessionVars
    BY <1>1, Starts
  <2> HIDE DEF r
  <2>2. UNCHANGED sessions
    BY <2>1 DEF sessionVars
  <2>3. AnswersOwned'
    BY <1>0, <2>1, <2>2 DEF AnswersOwned, Is
  <2> QED
    BY <1>a, <2>1, <2>3 DEF Is
<1>2. ASSUME NEW r \in Ids, RequestStep(r) PROVE SessionsInv'
  <2>1. Moved(r)
    BY <1>0, <1>2, Moves
  <2>2. /\ req[r] \in Request /\ req'[r] \in Request /\ req'[r].op = req[r].op
        /\ req'[r].arg = req[r].arg /\ (req[r].op # "refresh" => req'[r].user = req[r].user)
        /\ \A q \in Ids : q # r => req'[q] = req[q]
    BY <2>1 DEF Moved
  <2>3. req'[r].pc = req[r].pc \/ (Midway(r) /\ req'[r].pc = req[r].pc + 1 /\ req'[r].status = None)
    BY <2>1 DEF Moved
  <2>4. req[r].pc \in Nat /\ req'[r].pc \in Nat
    BY <2>2 DEF Request
  <2>5. \A s \in Ids : Is(s, "create_session") /\ req[s].pc >= 4 =>
                          Is(s, "create_session")' /\ req'[s].pc >= 4
    BY <1>n, <2>2, <2>3, <2>4 DEF Is
  \* Past find_owned only if the session is the caller's.
  <2>6. Is(r, "answer") /\ req'[r].pc >= 5 => sessions[req[r].arg] = req[r].user
    <3>1. CASE req[r].pc >= 5 \/ ~Is(r, "answer") \/ ~(req'[r].pc >= 5)
      BY <1>0, <3>1 DEF AnswersOwned
    <3>2. CASE Is(r, "answer") /\ ~(req[r].pc >= 5) /\ req'[r].pc >= 5
      <4>1. req[r].pc = 4 /\ Midway(r) /\ req'[r].status = None
        BY <2>3, <2>4, <3>2
      <4>2. FindOwned(r)
        BY <1>0, <1>2, <2>2, <3>2, <4>1, StepTaken DEF StepTable, Is, Uploads
      <4>3. Then(r, find_owned(req[r].user, req[r].arg), 404)
        BY <4>2 DEF FindOwned
      <4>4. CASE ~find_owned(req[r].user, req[r].arg)
        <5>1. End(r, 404)
          BY <4>3, <4>4 DEF Then
        <5>2. req'[r].status = 404
          BY <1>0, <2>2, <5>1, EndKeeps DEF EndedAs
        <5> QED
          BY <4>1, <5>2, Constants
      <4>5. CASE find_owned(req[r].user, req[r].arg)
        BY <4>5 DEF find_owned
      <4> QED
        BY <4>4, <4>5
    <3> QED
      BY <3>1, <3>2
  <2>7. ASSUME \A s \in Ids : sessions[s] # None => sessions'[s] = sessions[s] PROVE AnswersOwned'
    <3> SUFFICES ASSUME NEW q \in Ids, Is(q, "answer")'
                 PROVE  /\ req'[q].arg \in Ids /\ sessions'[req'[q].arg] # None
                        /\ req'[q].pc >= 5 => sessions'[req'[q].arg] = req'[q].user
      BY DEF AnswersOwned
    <3>1. CASE q = r
      BY <1>0, <1>n, <2>2, <2>6, <2>7, <3>1 DEF AnswersOwned, Is
    <3>2. CASE q # r
      BY <1>0, <2>2, <2>7, <3>2 DEF AnswersOwned, Is
    <3> QED
      BY <3>1, <3>2
  <2>8. CASE UNCHANGED sessionVars
    <3>1. UNCHANGED sessions
      BY <2>8 DEF sessionVars
    <3> QED
      BY <1>a, <2>5, <2>7, <2>8, <3>1
  <2>9. CASE CreateSession(r)
    <3>1. At(r, "create") /\ Advance(r) /\ sessions' = [sessions EXCEPT ![r] = req[r].user]
          /\ UNCHANGED <<budgets, answered>>
      BY <2>9 DEF CreateSession
    <3>2. req[r].op = "create_session" /\ req[r].pc = 3 /\ req[r] # None
      BY <1>0, <3>1, AtTable DEF StepTable, Uploads
    <3>3. sessions[r] = None
      <4>1. r # 0
        BY <1>0, <3>2, Constants DEF Numbered, Ids
      <4> QED
        BY <1>0, <3>2, <4>1 DEF SessionsCreated
    <3>4. req'[r].pc = 4
      BY <1>0, <3>1, <3>2 DEF Advance, RequestsType, Request
    <3>5. /\ \A s \in Ids : s # r => sessions'[s] = sessions[s]
          /\ sessions'[r] = req[r].user /\ req[r].user \in Users
      BY <1>0, <2>2, <3>1 DEF SessionsType, Request
    <3>6. \A s \in Ids : sessions[s] # None => sessions'[s] = sessions[s]
      BY <3>3, <3>5
    <3>7. SessionsType'
      BY <1>0, <3>1, <3>5 DEF SessionsType
    <3>8. SessionsCreated'
      BY <1>0, <1>n, <2>2, <2>5, <3>2, <3>4, <3>5 DEF SessionsCreated, Is
    <3>9. AnswersInOwnSession'
      BY <1>0, <1>n, <3>1, <3>6 DEF AnswersInOwnSession, SessionsType
    <3> QED
      BY <2>7, <3>6, <3>7, <3>8, <3>9 DEF SessionsInv
  <2>10. CASE Answer(r)
    <3>1. /\ At(r, "answer") /\ UNCHANGED <<sessions, budgets>>
          /\ answered' \in {answered, answered \cup {<<req[r].arg, req[r].user>>}}
      BY <2>10 DEF Answer
    <3>2. req[r].op = "answer" /\ req[r].pc = 5 /\ req[r] # None
      BY <1>0, <3>1, AtTable DEF StepTable, Uploads
    <3>3. req[r].arg \in Ids /\ sessions[req[r].arg] = req[r].user /\ req[r].user \in Users
      BY <1>0, <2>2, <3>2 DEF AnswersOwned, Is, Request
    <3>4. AnswersInOwnSession'
      BY <1>0, <3>1, <3>3 DEF AnswersInOwnSession
    <3>5. SessionsType'
      BY <1>0, <3>1, <3>3 DEF SessionsType
    <3>6. SessionsCreated'
      BY <1>0, <2>5, <3>1 DEF SessionsCreated
    <3> QED
      BY <2>7, <3>1, <3>4, <3>5, <3>6 DEF SessionsInv
  <2>11. CASE RecordBudget(r)
    <3>1. /\ budgets' = IF sessions[req[r].arg] = req[r].user
                        THEN [budgets EXCEPT ![req[r].arg] = req[r].user] ELSE budgets
          /\ UNCHANGED <<sessions, answered>> /\ req[r].user \in Users
      BY <2>2, <2>11 DEF RecordBudget, Request
    <3>2. SessionsType'
      BY <1>0, <3>1 DEF SessionsType
    <3>3. AnswersInOwnSession'
      BY <1>0, <3>1 DEF AnswersInOwnSession, SessionsType
    <3>4. SessionsCreated'
      BY <1>0, <2>5, <3>1 DEF SessionsCreated
    <3> QED
      BY <2>7, <3>1, <3>2, <3>3, <3>4 DEF SessionsInv
  <2> QED
    BY <1>2, <2>8, <2>9, <2>10, <2>11, Touches
<1>3. ASSUME NEW r \in Ids, RequestFault(r) PROVE SessionsInv'
  <2>1. EndedAs(r, 500) /\ req[r] \in Request
    BY <1>0, <1>3, FaultEnds
  <2>2. UNCHANGED sessionVars /\ UNCHANGED sessions
    BY <1>3 DEF RequestFault, sessionVars
  <2>3. AnswersOwned'
    BY <1>0, <1>n, <2>1, <2>2 DEF AnswersOwned, Is, EndedAs
  <2> QED
    BY <1>a, <1>n, <2>1, <2>2, <2>3 DEF EndedAs, Is
<1>4. ASSUME UNCHANGED <<req, sessionVars>> PROVE SessionsInv'
  BY <1>0, <1>a, <1>4 DEF AnswersOwned, Is, sessionVars
<1> QED
  BY <1>1, <1>2, <1>3, <1>4, Kinds

-----------------------------------------------------------------------------
(* Ingestion jobs. *)

JobsType == jobs \in [Ids -> Job \cup {None}]

\* What a job may still hold open once its worker reports it.
Released(d) ==
  /\ "graph" \in d.open => d.broke = "close"
  /\ "engine" \in d.open => d.broke \in {"connect", "close", "dispose"}

\* What is open, decided and reported of a job, by how far its worker is.
JobFits(d) ==
  /\ d.pc = "queued" => d.open = {}
  /\ d.pc \in {"connect", "dispose"} => d.open \subseteq {"engine"}
  /\ d.pc \in {"report", "done"} => Released(d)
  /\ d.pc \in {"close", "dispose", "report", "done"} => d.outcome \in {"SUCCESS", "FAILURE"}
  /\ d.finishedAt # None => d.pc = "done"
  /\ d.reported \in {"SUCCESS", "FAILURE"} => d.finishedAt # None
  /\ d.owner # None <=> d.ownedAt # None
  /\ d.owner # None => d.owner.user \in {None, d.owner.tenant}

JobsFit == \A j \in Ids : jobs[j] # None => JobFits(jobs[j]) /\ Is(j, "ingest")

\* A job is there from `send` on, its ownership record from `own` on.
JobsOrdered ==
  \A r \in Ids : Is(r, "ingest") =>
     /\ req[r].arg \in {None, req[r].user}
     /\ jobs[r] # None <=> req[r].pc >= 4
     /\ jobs[r] # None => (jobs[r].owner # None <=> req[r].pc >= 5)

\* What a request for the status of a job has seen of its ownership record.
Seen(r) ==
  Is(r, "job_status") =>
     /\ req[r].arg \in Ids /\ jobs[req[r].arg] # None
     /\ ~req[r].dead => jobs[req[r].arg].owner # None
     /\ req[r].pc >= 3 => /\ jobs[req[r].arg].owner # None
                          /\ jobs[req[r].arg].owner.tenant = req[r].user
     /\ req[r].status = 200 => req[r].pc >= 3
     /\ ~req[r].dead /\ req[r].status = 404 /\ OwnerOf(req[r].arg, clock) # None
           => jobs[req[r].arg].owner.tenant # req[r].user

JobsInv == JobsType /\ JobsFit /\ JobsOrdered /\ \A r \in Ids : Seen(r)

\* Jobs stay, and with them the ownership records they have.
JobsKept ==
  \A j \in Ids : jobs[j] # None =>
     /\ jobs'[j] # None
     /\ jobs[j].owner # None => jobs'[j].owner = jobs[j].owner /\ jobs'[j].ownedAt = jobs[j].ownedAt

\* What has been seen stays true.
LEMMA SeenKept ==
  ASSUME JobsType, JobsFit, JobsKept, clock \in Nat, clock' = clock \/ clock' = clock + 1,
         NEW r \in Ids, Seen(r), req'[r] = req[r]
  PROVE  Seen(r)'
<1> SUFFICES ASSUME Is(r, "job_status") PROVE Seen(r)'
  BY DEF Seen, Is
<1> DEFINE a == req[r].arg
<1>1. a \in Ids /\ jobs[a] # None /\ jobs[a] \in Job
  BY DEF Seen, JobsType
<1>2. jobs'[a] # None /\ (jobs[a].owner # None =>
         jobs'[a].owner = jobs[a].owner /\ jobs'[a].ownedAt = jobs[a].ownedAt)
  BY <1>1 DEF JobsKept
<1>3. jobs[a].owner # None => jobs[a].ownedAt \in Nat
  BY <1>1, Constants DEF Job, JobsFit, JobFits
<1>4. jobs[a].owner # None /\ OwnerOf(a, clock)' # None => OwnerOf(a, clock) # None
  BY <1>1, <1>2, <1>3, Constants DEF OwnerOf
<1>5. /\ ~req[r].dead => jobs[a].owner # None
      /\ req[r].pc >= 3 => jobs[a].owner # None /\ jobs[a].owner.tenant = req[r].user
      /\ req[r].status = 200 => req[r].pc >= 3
      /\ ~req[r].dead /\ req[r].status = 404 /\ OwnerOf(a, clock) # None
            => jobs[a].owner.tenant # req[r].user
  BY DEF Seen
<1>6. OwnerOf(a, clock)' = OwnerOf(req[r].arg, clock)' /\ req'[r].arg = a
  OBVIOUS
<1> HIDE DEF a
<1> QED
  BY <1>1, <1>2, <1>4, <1>5, <1>6 DEF Seen

\* The worker changes one job, and neither its ownership record nor what was reported of it.
LEMMA WorkerKeeps ==
  ASSUME JobsType, JobsFit, clock \in Nat, NEW j \in Ids, WorkerStep(j, clock) \/ WorkerFault(j)
  PROVE  \E v \in Job : /\ jobs[j] # None /\ jobs' = [jobs EXCEPT ![j] = v] /\ JobFits(v)
                        /\ v.owner = jobs[j].owner /\ v.ownedAt = jobs[j].ownedAt
                        /\ v.reported = jobs[j].reported
<1>0. ASSUME jobs[j] # None PROVE jobs[j] \in Job /\ JobFits(jobs[j])
  BY <1>0 DEF JobsType, JobsFit
<1>1. CASE OpenEngine(j)
  <2> DEFINE v == [jobs[j] EXCEPT !.pc = "connect", !.open = {"engine"}]
  <2>1. jobs[j] # None /\ jobs[j].pc = "queued" /\ jobs' = [jobs EXCEPT ![j] = v]
    BY <1>1 DEF OpenEngine
  <2>2. v \in Job /\ v.owner = jobs[j].owner /\ v.ownedAt = jobs[j].ownedAt
        /\ v.reported = jobs[j].reported
    BY <1>0, <2>1 DEF Job
  <2>3. JobFits(v)
    BY <1>0, <2>1 DEF Job, JobFits, Released
  <2> QED
    BY <2>1, <2>2, <2>3
<1>2. CASE OpenEngineFails(j)
  <2> DEFINE v == [jobs[j] EXCEPT !.pc = "report", !.outcome = "FAILURE"]
  <2>1. jobs[j] # None /\ jobs[j].pc = "queued" /\ jobs' = [jobs EXCEPT ![j] = v]
    BY <1>2 DEF OpenEngineFails
  <2>2. v \in Job /\ v.owner = jobs[j].owner /\ v.ownedAt = jobs[j].ownedAt
        /\ v.reported = jobs[j].reported
    BY <1>0, <2>1 DEF Job
  <2>3. JobFits(v)
    BY <1>0, <2>1 DEF Job, JobFits, Released
  <2> QED
    BY <2>1, <2>2, <2>3
<1>8. CASE OpenGraph(j)
  <2> DEFINE v == [jobs[j] EXCEPT !.pc = "provision", !.open = {"engine", "graph"}]
  <2>1. jobs[j] # None /\ jobs[j].pc = "connect" /\ jobs' = [jobs EXCEPT ![j] = v]
    BY <1>8 DEF OpenGraph
  <2>2. v \in Job /\ v.owner = jobs[j].owner /\ v.ownedAt = jobs[j].ownedAt
        /\ v.reported = jobs[j].reported
    BY <1>0, <2>1 DEF Job
  <2>3. JobFits(v)
    BY <1>0, <2>1 DEF Job, JobFits, Released
  <2> QED
    BY <2>1, <2>2, <2>3
<1>9. CASE OpenGraphFails(j)
  <2> DEFINE v == [jobs[j] EXCEPT !.pc = "report", !.outcome = "FAILURE", !.broke = "connect"]
  <2>1. jobs[j] # None /\ jobs[j].pc = "connect" /\ jobs' = [jobs EXCEPT ![j] = v]
    BY <1>9 DEF OpenGraphFails
  <2>2. v \in Job /\ v.owner = jobs[j].owner /\ v.ownedAt = jobs[j].ownedAt
        /\ v.reported = jobs[j].reported
    BY <1>0, <2>1 DEF Job
  <2>3. JobFits(v)
    BY <1>0, <2>1 DEF Job, JobFits, Released
  <2> QED
    BY <2>1, <2>2, <2>3
<1>10. CASE Provision(j)
  <2> DEFINE v == [jobs[j] EXCEPT !.pc = "run"]
  <2>1. jobs[j] # None /\ jobs[j].pc = "provision" /\ jobs' = [jobs EXCEPT ![j] = v]
    BY <1>10 DEF Provision
  <2>2. v \in Job /\ v.owner = jobs[j].owner /\ v.ownedAt = jobs[j].ownedAt
        /\ v.reported = jobs[j].reported
    BY <1>0, <2>1 DEF Job
  <2>3. JobFits(v)
    BY <1>0, <2>1 DEF Job, JobFits, Released
  <2> QED
    BY <2>1, <2>2, <2>3
<1>11. CASE ProvisionFails(j)
  <2> DEFINE v == [jobs[j] EXCEPT !.pc = "close", !.outcome = "FAILURE"]
  <2>1. jobs[j] # None /\ jobs[j].pc = "provision" /\ jobs' = [jobs EXCEPT ![j] = v]
    BY <1>11 DEF ProvisionFails
  <2>2. v \in Job /\ v.owner = jobs[j].owner /\ v.ownedAt = jobs[j].ownedAt
        /\ v.reported = jobs[j].reported
    BY <1>0, <2>1 DEF Job
  <2>3. JobFits(v)
    BY <1>0, <2>1 DEF Job, JobFits, Released
  <2> QED
    BY <2>1, <2>2, <2>3
<1>12. CASE DisposeFails(j)
  <2> DEFINE v == [jobs[j] EXCEPT !.pc = "report", !.outcome = "FAILURE", !.broke = "dispose"]
  <2>1. jobs[j] # None /\ jobs[j].pc = "dispose" /\ jobs' = [jobs EXCEPT ![j] = v]
    BY <1>12 DEF DisposeFails
  <2>2. v \in Job /\ v.owner = jobs[j].owner /\ v.ownedAt = jobs[j].ownedAt
        /\ v.reported = jobs[j].reported
    BY <1>0, <2>1 DEF Job
  <2>3. JobFits(v)
    BY <1>0, <2>1 DEF Job, JobFits, Released
  <2> QED
    BY <2>1, <2>2, <2>3
<1>3. ASSUME NEW o \in {"SUCCESS", "FAILURE"}, Ingest(j, o)
      PROVE \E v \in Job : /\ jobs[j] # None /\ jobs' = [jobs EXCEPT ![j] = v] /\ JobFits(v)
                           /\ v.owner = jobs[j].owner /\ v.ownedAt = jobs[j].ownedAt
                           /\ v.reported = jobs[j].reported
  <2> DEFINE v == [jobs[j] EXCEPT !.pc = "close", !.outcome = o]
  <2>1. jobs[j] # None /\ jobs[j].pc = "run" /\ jobs' = [jobs EXCEPT ![j] = v]
    BY <1>3 DEF Ingest
  <2>2. v \in Job /\ v.owner = jobs[j].owner /\ v.ownedAt = jobs[j].ownedAt
        /\ v.reported = jobs[j].reported
    BY <1>0, <2>1 DEF Job
  <2>3. JobFits(v)
    BY <1>0, <2>1 DEF Job, JobFits, Released
  <2> QED
    BY <2>1, <2>2, <2>3
<1>4. CASE CloseGraph(j)
  <2> DEFINE left == jobs[j].open \ {"graph"}
             v == [jobs[j] EXCEPT !.pc = "dispose", !.open = left]
  <2>1. jobs[j] # None /\ jobs[j].pc = "close" /\ jobs' = [jobs EXCEPT ![j] = v]
    BY <1>0, <1>4 DEF CloseGraph, Job
  <2>a. left \subseteq {"engine"}
    BY <1>0, <2>1 DEF Job
  <2> HIDE DEF left
  <2>2. v \in Job /\ v.owner = jobs[j].owner /\ v.ownedAt = jobs[j].ownedAt
        /\ v.reported = jobs[j].reported
    BY <1>0, <2>1, <2>a DEF Job
  <2>3. JobFits(v)
    BY <1>0, <2>1, <2>a DEF Job, JobFits, Released
  <2> QED
    BY <2>1, <2>2, <2>3
<1>5. CASE CloseGraphFails(j)
  <2> DEFINE v == [jobs[j] EXCEPT !.pc = "report", !.outcome = "FAILURE", !.broke = "close"]
  <2>1. jobs[j] # None /\ jobs[j].pc = "close" /\ jobs' = [jobs EXCEPT ![j] = v]
    BY <1>5 DEF CloseGraphFails
  <2>2. v \in Job /\ v.owner = jobs[j].owner /\ v.ownedAt = jobs[j].ownedAt
        /\ v.reported = jobs[j].reported
    BY <1>0, <2>1 DEF Job
  <2>3. JobFits(v)
    BY <1>0, <2>1 DEF Job, JobFits, Released
  <2> QED
    BY <2>1, <2>2, <2>3
<1>6. CASE Dispose(j)
  <2> DEFINE left == jobs[j].open \ {"engine"}
             v == [jobs[j] EXCEPT !.pc = "report", !.open = left]
  <2>1. jobs[j] # None /\ jobs[j].pc = "dispose" /\ jobs' = [jobs EXCEPT ![j] = v]
    BY <1>0, <1>6 DEF Dispose, Job
  <2>a. left = {}
    BY <1>0, <2>1 DEF JobFits
  <2> HIDE DEF left
  <2>2. v \in Job /\ v.owner = jobs[j].owner /\ v.ownedAt = jobs[j].ownedAt
        /\ v.reported = jobs[j].reported
    BY <1>0, <2>1, <2>a DEF Job
  <2>3. JobFits(v)
    BY <1>0, <2>1, <2>a DEF Job, JobFits, Released
  <2> QED
    BY <2>1, <2>2, <2>3
<1>7. CASE Finish(j, clock)
  <2> DEFINE v == [jobs[j] EXCEPT !.pc = "done", !.finishedAt = clock]
  <2>1. jobs[j] # None /\ jobs[j].pc = "report" /\ jobs' = [jobs EXCEPT ![j] = v]
    BY <1>7 DEF Finish
  <2>2. v \in Job /\ v.owner = jobs[j].owner /\ v.ownedAt = jobs[j].ownedAt
        /\ v.reported = jobs[j].reported
    BY <1>0, <2>1 DEF Job
  <2>3. JobFits(v)
    BY <1>0, <2>1, Constants DEF Job, JobFits, Released
  <2> QED
    BY <2>1, <2>2, <2>3
<1> QED
  BY <1>1, <1>2, <1>3, <1>4, <1>5, <1>6, <1>7, <1>8, <1>9, <1>10, <1>11, <1>12
     DEF WorkerStep, WorkerFault

\* The requests' own steps on the jobs.
LEMMA RequestJobs ==
  ASSUME BaseInv, JobsInv, NEW r \in Ids, RequestStep(r)
  PROVE  /\ JobsType' /\ JobsKept
         /\ \A j \in Ids : jobs'[j] # None =>
               JobFits(jobs'[j]) /\ (jobs[j] # None \/ (j = r /\ SendTask(r)))
         /\ SendTask(r) => jobs'[r] # None /\ jobs'[r].owner = None
         /\ OwnTask(r) => jobs'[r] # None /\ jobs'[r].owner # None
         /\ \A j \in Ids : jobs[j] # None /\ jobs[j].owner = None /\ jobs'[j].owner # None
               => j = r /\ OwnTask(r)
<1>0. /\ RequestsType /\ clock \in Nat
      /\ JobsType /\ JobsFit /\ JobsOrdered /\ \A q \in Ids : Seen(q)
  BY DEF BaseInv, JobsInv
<1>1. CASE UNCHANGED jobs
  <2>1. ~SendTask(r)
    <3> SUFFICES ASSUME SendTask(r) PROVE FALSE
      OBVIOUS
    <3>1. At(r, "send") /\ send(r)
      BY DEF SendTask
    <3>2. Is(r, "ingest") /\ req[r].pc = 3
      BY <1>0, <3>1, AtTable DEF StepTable, Is, Uploads
    <3>3. jobs[r] = None
      BY <1>0, <3>2 DEF JobsOrdered
    <3>4. jobs'[r] = [pc |-> "queued", open |-> {}, outcome |-> None,
                      owner |-> None, ownedAt |-> None, finishedAt |-> None,
                      reported |-> None, broke |-> "nothing"]
      BY <1>0, <3>1 DEF send, JobsType
    <3>5. jobs'[r] \in Job
      BY <3>4 DEF Job
    <3> QED
      BY <1>1, <3>3, <3>5, Constants
  <2>2. ~OwnTask(r)
    <3> SUFFICES ASSUME OwnTask(r) PROVE FALSE
      OBVIOUS
    <3>1. At(r, "own") /\ own(r, req[r].user, req[r].arg, clock)
      BY DEF OwnTask
    <3>2. Is(r, "ingest") /\ req[r].pc = 4 /\ req[r] \in Request
      BY <1>0, <3>1, AtTable DEF StepTable, Is, Uploads
    <3>3. jobs[r] # None /\ jobs[r].owner = None /\ jobs[r] \in Job /\ req[r].arg \in {None, req[r].user}
      BY <1>0, <3>2 DEF JobsOrdered, JobsType
    <3> DEFINE o == owner_key(req[r].user, req[r].arg)
    <3>4. jobs'[r].owner = o
      BY <1>0, <3>1, <3>3 DEF own, JobsType, Job
    <3>5. o \in Owner
      BY <3>2, <3>3 DEF owner_key, Owner, Request
    <3> QED
      BY <1>1, <3>3, <3>4, <3>5, Constants
  <2> QED
    BY <1>0, <1>1, <2>1, <2>2 DEF JobsKept, JobsType, JobsFit
<1>a. ASSUME NEW j \in Ids, NEW v \in Job, jobs' = [jobs EXCEPT ![j] = v]
      PROVE  JobsType' /\ jobs'[j] = v /\ \A q \in Ids : q # j => jobs'[q] = jobs[q]
  BY <1>0, <1>a DEF JobsType
<1>2. CASE SendTask(r)
  <2> DEFINE v == [pc |-> "queued", open |-> {}, outcome |-> None,
                   owner |-> None, ownedAt |-> None, finishedAt |-> None,
                   reported |-> None, broke |-> "nothing"]
  <2>1. At(r, "send") /\ jobs' = [jobs EXCEPT ![r] = v]
    BY <1>2 DEF SendTask, send
  <2>2. Is(r, "ingest") /\ req[r].pc = 3 /\ ~OwnTask(r)
    BY <1>0, <2>1, AtTable DEF StepTable, Is, Uploads, OwnTask, At
  <2>3. jobs[r] = None
    BY <1>0, <2>2 DEF JobsOrdered
  <2>4. v \in Job
    BY DEF Job
  <2>5. JobFits(v) /\ v.owner = None
    BY Constants DEF JobFits
  <2> HIDE DEF v
  <2>6. JobsType' /\ jobs'[r] = v /\ \A q \in Ids : q # r => jobs'[q] = jobs[q]
    BY <1>a, <2>1, <2>4
  <2> QED
    BY <1>0, <1>2, <2>2, <2>3, <2>4, <2>5, <2>6, Constants DEF JobsKept, JobsFit
<1>3. CASE OwnTask(r)
  <2>1. At(r, "own") /\ own(r, req[r].user, req[r].arg, clock)
    BY <1>3 DEF OwnTask
  <2>2. Is(r, "ingest") /\ req[r].pc = 4 /\ req[r] \in Request /\ ~SendTask(r)
    BY <1>0, <2>1, AtTable DEF StepTable, Is, Uploads, SendTask, At
  <2>3. /\ jobs[r] # None /\ jobs[r].owner = None /\ jobs[r] \in Job /\ JobFits(jobs[r])
        /\ req[r].arg \in {None, req[r].user} /\ req[r].user \in Users
    BY <1>0, <2>2 DEF JobsOrdered, JobsType, JobsFit, Request
  <2> DEFINE o == owner_key(req[r].user, req[r].arg)
             v == [jobs[r] EXCEPT !.owner = o, !.ownedAt = clock]
  <2>4. jobs' = [jobs EXCEPT ![r] = v]
    BY <2>1 DEF own
  <2>5. o \in Owner /\ o.user \in {None, o.tenant}
    BY <2>3 DEF owner_key, Owner
  <2>6. o # None
    BY <2>5, Constants
  <2> HIDE DEF o
  <2>7. v \in Job /\ v.owner = o
    BY <1>0, <2>3, <2>5 DEF Job
  <2>8. JobFits(v)
    BY <1>0, <2>3, <2>5, <2>6, Constants DEF JobFits, Released, Job
  <2> HIDE DEF v
  <2>9. JobsType' /\ jobs'[r] = v /\ \A q \in Ids : q # r => jobs'[q] = jobs[q]
    BY <1>a, <2>4, <2>7
  <2> QED
    BY <1>0, <1>3, <2>2, <2>3, <2>6, <2>7, <2>8, <2>9, Constants DEF JobsKept, JobsFit
<1>4. CASE ReadResult(r)
  <2> DEFINE a == req[r].arg
             s == StateOf(a, clock)
             v == [jobs[a] EXCEPT !.reported = s]
  <2>1. At(r, "result") /\ jobs' = [jobs EXCEPT ![a] = v]
    BY <1>4 DEF ReadResult, report
  <2>2. Is(r, "job_status") /\ ~SendTask(r) /\ ~OwnTask(r)
    BY <1>0, <2>1, AtTable DEF StepTable, Is, Uploads, SendTask, OwnTask, At
  <2>3. a \in Ids /\ jobs[a] # None /\ jobs[a] \in Job /\ JobFits(jobs[a])
    BY <1>0, <2>2 DEF Seen, JobsType, JobsFit
  <2>4. s \in {"SUCCESS", "FAILURE", "PENDING"} /\ (s # "PENDING" => jobs[a].finishedAt # None)
    BY <2>3 DEF StateOf, JobFits
  <2> HIDE DEF s, a
  <2>5. v \in Job /\ v.owner = jobs[a].owner /\ v.ownedAt = jobs[a].ownedAt
    BY <2>3, <2>4 DEF Job
  <2>6. JobFits(v)
    BY <2>3, <2>4 DEF JobFits, Released, Job
  <2> HIDE DEF v
  <2>7. JobsType' /\ jobs'[a] = v /\ \A q \in Ids : q # a => jobs'[q] = jobs[q]
    BY <1>a, <2>1, <2>3, <2>5
  <2> QED
    BY <1>0, <2>2, <2>3, <2>5, <2>6, <2>7, Constants DEF JobsKept, JobsFit
<1> QED
  BY <1>1, <1>2, <1>3, <1>4, Touches

\* JobsInv is inductive.
LEMMA JobsStep == BaseInv /\ JobsInv /\ [Next]_vars => JobsInv'
<1> SUFFICES ASSUME BaseInv, JobsInv, [Next]_vars PROVE JobsInv'
  OBVIOUS
<1>0. /\ RequestsType /\ TokensType /\ TokensKnown /\ clock \in Nat
      /\ JobsType /\ JobsFit /\ JobsOrdered /\ \A q \in Ids : Seen(q)
  BY DEF BaseInv, JobsInv
<1>n. None \notin Request /\ None \notin Nat /\ None \notin Users
  BY Constants
<1>k. UNCHANGED jobs => JobsKept
  BY DEF JobsKept
<1>1. ASSUME NEW op \in suite.ops, NEW u \in suite.users, NEW a \in Arguments(op), Start(op, u, a)
      PROVE  JobsInv'
  <2> DEFINE r == started + 1
  <2>1. /\ r \in Ids /\ req[r] = None /\ req'[r] \in Request
        /\ \A q \in Ids : q # r => req'[q] = req[q]
        /\ req'[r].op = op /\ req'[r].arg = a /\ req'[r].pc = 1 /\ req'[r].user = u
        /\ req'[r].status = None
        /\ req'[r].dead = (\/ op \in {"refresh", "logout"} /\ (deletes[a] > 0 \/ ~Live(a, clock))
                           \/ op = "job_status" /\ OwnerOf(a, clock) = None)
        /\ op = "job_status" => a \in Ids /\ jobs[a] # None
        /\ op = "ingest" => a \in {None, u}
        /\ UNCHANGED <<jobs, clock>>
    BY <1>1, Starts
  <2> HIDE DEF r
  <2>2. jobs[r] = None
    BY <1>0, <2>1 DEF JobsFit, Is
  <2>3. JobsType' /\ JobsFit'
    BY <1>0, <2>1, <2>2 DEF JobsType, JobsFit, Is
  <2>4. JobsOrdered'
    BY <1>0, <2>1, <2>2 DEF JobsOrdered, Is
  <2>5. ASSUME NEW q \in Ids PROVE Seen(q)'
    <3>1. CASE q # r
      BY <1>0, <1>k, <2>1, <3>1, SeenKept
    <3>2. CASE q = r
      <4>1. op = "job_status" /\ ~req'[r].dead => jobs[a].owner # None
        BY <2>1 DEF OwnerOf
      <4>2. req'[r].status # 200 /\ req'[r].status # 404 /\ ~(req'[r].pc >= 3)
        BY <1>n, <2>1
      <4> QED
        BY <2>1, <3>2, <4>1, <4>2 DEF Seen, Is
    <3> QED
      BY <3>1, <3>2
  <2> QED
    BY <2>3, <2>4, <2>5 DEF JobsInv
<1>2. ASSUME NEW r \in Ids, RequestStep(r), UNCHANGED clock PROVE JobsInv'
  <2>1. Moved(r)
    BY <1>0, <1>2, Moves
  <2>2. /\ req[r] \in Request /\ req'[r] \in Request /\ req'[r].op = req[r].op /\ req[r].status = None
        /\ req'[r].arg = req[r].arg /\ (req[r].op # "refresh" => req'[r].user = req[r].user)
        /\ req'[r].dead = req[r].dead
        /\ \A q \in Ids : q # r => req'[q] = req[q]
    BY <2>1 DEF Moved
  <2>3. req'[r].pc = req[r].pc \/ (Midway(r) /\ req'[r].pc = req[r].pc + 1 /\ req'[r].status = None)
    BY <2>1 DEF Moved
  <2>4. req[r].pc \in Nat \ {0} /\ req'[r].pc \in Nat
    BY <2>2 DEF Request
  <2>i. \A q \in Ids : req'[q] # None <=> req[q] # None
    BY <1>n, <2>2
  <2>j. \A q \in Ids : \A op : Is(q, op)' <=> Is(q, op)
    BY <1>n, <2>2, <2>i DEF Is
  <2>5. /\ JobsType' /\ JobsKept
        /\ \A j \in Ids : jobs'[j] # None =>
              JobFits(jobs'[j]) /\ (jobs[j] # None \/ (j = r /\ SendTask(r)))
        /\ SendTask(r) => jobs'[r] # None /\ jobs'[r].owner = None
        /\ OwnTask(r) => jobs'[r] # None /\ jobs'[r].owner # None
        /\ \A j \in Ids : jobs[j] # None /\ jobs[j].owner = None /\ jobs'[j].owner # None
              => j = r /\ OwnTask(r)
    BY <1>2, RequestJobs
  <2>6. SendTask(r) => Is(r, "ingest") /\ req[r].pc = 3 /\ req'[r].pc = 4
    <3> SUFFICES ASSUME SendTask(r) PROVE Is(r, "ingest") /\ req[r].pc = 3 /\ req'[r].pc = 4
      OBVIOUS
    <3>1. At(r, "send") /\ Advance(r)
      BY DEF SendTask
    <3>2. Is(r, "ingest") /\ req[r].pc = 3
      BY <1>0, <3>1, AtTable DEF StepTable, Is, Uploads
    <3> QED
      BY <1>0, <2>2, <3>1, <3>2 DEF Advance, RequestsType, Request
  <2>7. OwnTask(r) => Is(r, "ingest") /\ req[r].pc = 4 /\ req'[r].pc = 5
    <3> SUFFICES ASSUME OwnTask(r) PROVE Is(r, "ingest") /\ req[r].pc = 4 /\ req'[r].pc = 5
      OBVIOUS
    <3>1. At(r, "own") /\ Advance(r)
      BY DEF OwnTask
    <3>2. Is(r, "ingest") /\ req[r].pc = 4
      BY <1>0, <3>1, AtTable DEF StepTable, Is, Uploads
    <3> QED
      BY <1>0, <2>2, <3>1, <3>2 DEF Advance, RequestsType, Request
  <2>8. JobsFit'
    BY <1>0, <2>5, <2>6, <2>j DEF JobsFit
  <2>9. JobsOrdered'
    <3> SUFFICES ASSUME NEW q \in Ids, Is(q, "ingest")
                 PROVE  /\ req'[q].arg \in {None, req'[q].user}
                        /\ jobs'[q] # None <=> req'[q].pc >= 4
                        /\ jobs'[q] # None => (jobs'[q].owner # None <=> req'[q].pc >= 5)
      BY <2>j DEF JobsOrdered
    <3>1. /\ req[q].arg \in {None, req[q].user} /\ (jobs[q] # None <=> req[q].pc >= 4)
          /\ jobs[q] # None => (jobs[q].owner # None <=> req[q].pc >= 5)
      BY <1>0 DEF JobsOrdered
    <3>2. CASE q # r
      BY <2>2, <2>5, <3>1, <3>2 DEF JobsKept
    <3>3. CASE q = r
      <4>1. Midway(r) /\ req[r].pc = 3 => SendTask(r)
        BY <1>0, <1>2, <2>2, <3>3, StepTaken DEF StepTable, Is, Uploads
      <4>2. Midway(r) /\ req[r].pc = 4 => OwnTask(r)
        BY <1>0, <1>2, <2>2, <3>3, StepTaken DEF StepTable, Is, Uploads
      <4>3. Midway(r) => req[r].pc <= 4
        BY <3>3, Lengths DEF Midway, Is
      <4>4. jobs'[r] # None <=> req'[r].pc >= 4
        BY <2>3, <2>4, <2>5, <2>6, <3>1, <3>3, <4>1 DEF JobsKept
      <4>5. jobs'[r] # None => (jobs'[r].owner # None <=> req'[r].pc >= 5)
        BY <2>3, <2>4, <2>5, <2>6, <2>7, <3>1, <3>3, <4>1, <4>2, <4>3 DEF JobsKept
      <4> QED
        BY <2>2, <3>1, <3>3, <4>4, <4>5 DEF Is
    <3> QED
      BY <3>2, <3>3
  <2>10. ASSUME NEW q \in Ids PROVE Seen(q)'
    <3>1. CASE q # r
      BY <1>0, <1>2, <2>2, <2>5, <3>1, SeenKept
    <3>2. CASE q = r /\ Is(r, "job_status")
      <4> DEFINE b == req[r].arg
      <4>1. /\ b \in Ids /\ jobs[b] # None /\ jobs[b] \in Job /\ JobFits(jobs[b])
            /\ ~req[r].dead => jobs[b].owner # None
            /\ req[r].pc >= 3 => jobs[b].owner # None /\ jobs[b].owner.tenant = req[r].user
        BY <1>0, <3>2 DEF Seen, JobsType, JobsFit
      <4>2. /\ jobs'[b] # None
            /\ jobs[b].owner # None => /\ jobs'[b].owner = jobs[b].owner
                                       /\ jobs'[b].ownedAt = jobs[b].ownedAt
        BY <2>5, <4>1 DEF JobsKept
      <4>u. req'[r].user = req[r].user /\ req'[r].arg = b /\ req'[r].dead = req[r].dead
        BY <2>2, <3>2 DEF Is
      <4>l. Len(Program[req[r].op]) = 3
        BY <3>2, Lengths DEF Is
      \* The ownership record decides at step 2.
      <4>3. Midway(r) /\ req[r].pc = 2 =>
              IF req'[r].status = None THEN jobs[b].owner # None /\ jobs[b].owner.tenant = req[r].user
              ELSE OwnerOf(b, clock) # None => jobs[b].owner.tenant # req[r].user
        <5> SUFFICES ASSUME Midway(r), req[r].pc = 2
                     PROVE  IF req'[r].status = None
                            THEN jobs[b].owner # None /\ jobs[b].owner.tenant = req[r].user
                            ELSE OwnerOf(b, clock) # None => jobs[b].owner.tenant # req[r].user
          OBVIOUS
        <5>1. ReadOwner(r)
          BY <1>0, <1>2, <2>2, <3>2, StepTaken DEF StepTable, Is, Uploads
        <5> DEFINE stored == OwnerOf(b, clock)
                   ok == stored # None /\ owner_matches(stored, req[r].user, req[r].user)
        <5>2. Then(r, ok, 404)
          BY <5>1 DEF ReadOwner
        <5>3. stored # None => stored = jobs[b].owner /\ jobs[b].owner # None
          BY DEF OwnerOf
        <5>4. CASE ok
          <6>1. Advance(r)
            BY <5>2, <5>4 DEF Then
          <6>2. req'[r].status = None
            BY <1>0, <2>2, <6>1 DEF Advance, RequestsType, Request
          <6> QED
            BY <5>3, <5>4, <6>2 DEF owner_matches
        <5>5. CASE ~ok
          <6>1. End(r, 404)
            BY <5>2, <5>5 DEF Then
          <6>2. req'[r].status = 404
            BY <1>0, <2>2, <6>1, EndKeeps DEF EndedAs
          <6>3. jobs[b].owner # None => jobs[b].owner.user \in {None, jobs[b].owner.tenant}
            BY <4>1 DEF JobFits
          <6> QED
            BY <1>n, <5>3, <5>5, <6>2, <6>3 DEF owner_matches
        <5> QED
          BY <5>4, <5>5
      <4>4. Midway(r) /\ req[r].pc # 2 => req'[r].status # 404
        <5> SUFFICES ASSUME Midway(r), req[r].pc # 2 PROVE req'[r].status # 404
          OBVIOUS
        <5>1. req[r].pc = 1 \/ req[r].pc = 3
          BY <2>4, <4>l DEF Midway
        <5>2. CASE req[r].pc = 1
          <6>1. Verify(r)
            BY <1>0, <1>2, <2>2, <3>2, <5>2, StepTaken DEF StepTable, Is, Uploads
          <6>2. Advance(r) \/ End(r, 401)
            BY <6>1 DEF Verify, Then
          <6>3. Advance(r) => req'[r].status = None
            BY <1>0, <2>2 DEF Advance, RequestsType, Request
          <6>4. End(r, 401) => req'[r].status = 401
            BY <1>0, <2>2, EndKeeps DEF EndedAs
          <6> QED
            BY <1>n, <6>2, <6>3, <6>4
        <5>3. CASE req[r].pc = 3
          <6>1. ReadResult(r)
            BY <1>0, <1>2, <2>2, <3>2, <5>3, StepTaken DEF StepTable, Is, Uploads
          <6>2. Advance(r)
            BY <6>1 DEF ReadResult
          <6>3. req'[r].status = None
            BY <1>0, <2>2, <6>2 DEF Advance, RequestsType, Request
          <6> QED
            BY <1>n, <6>3
        <5> QED
          BY <5>1, <5>2, <5>3
      <4>5. /\ req'[r].status = 200 => ~Midway(r) /\ req[r].pc >= 3 /\ req'[r].pc >= 3
            /\ req'[r].status = 404 => Midway(r)
        <5>1. SuccessOf(req[r].op) = 200
          BY <3>2 DEF SuccessOf, Is
        <5>2. Through(r) => ~Midway(r) /\ req[r].pc >= 3
          BY <2>4, <4>l DEF Through, Midway
        <5> QED
          BY <1>n, <2>1, <5>1, <5>2 DEF Moved, Refusals
      <4>6. req'[r].pc >= 3 => jobs[b].owner # None /\ jobs[b].owner.tenant = req[r].user
        <5>1. CASE req[r].pc >= 3
          BY <4>1, <5>1
        <5>2. CASE ~(req[r].pc >= 3)
          BY <2>3, <2>4, <4>3, <5>2
        <5> QED
          BY <5>1, <5>2
      <4>7. jobs[b].owner # None /\ OwnerOf(b, clock)' # None => OwnerOf(b, clock) # None
        BY <1>2, <4>1, <4>2, <4>u DEF OwnerOf
      <4>8. ~req[r].dead /\ req'[r].status = 404 /\ OwnerOf(b, clock)' # None
               => jobs'[b].owner.tenant # req[r].user
        BY <1>n, <4>1, <4>2, <4>3, <4>4, <4>5, <4>7
      <4>9. OwnerOf(b, clock)' = OwnerOf(req[r].arg, clock)'
        OBVIOUS
      <4> HIDE DEF b
      <4> QED
        BY <3>2, <4>1, <4>2, <4>5, <4>6, <4>8, <4>u, <4>9 DEF Seen
    <3>3. CASE ~Is(q, "job_status")
      BY <2>j, <3>3 DEF Seen
    <3> QED
      BY <3>1, <3>2, <3>3
  <2> QED
    BY <2>5, <2>8, <2>9, <2>10 DEF JobsInv
<1>3. ASSUME NEW r \in Ids, RequestFault(r), UNCHANGED clock PROVE JobsInv'
  <2>1. EndedAs(r, 500) /\ req[r] \in Request /\ req[r].status = None
    BY <1>0, <1>3, FaultEnds
  <2>2. UNCHANGED jobs
    BY <1>3 DEF RequestFault
  <2>3. JobsType' /\ JobsFit' /\ JobsOrdered'
    BY <1>0, <1>n, <2>1, <2>2 DEF JobsType, JobsFit, JobsOrdered, Is, EndedAs
  <2>4. ASSUME NEW q \in Ids PROVE Seen(q)'
    <3>1. CASE q # r
      BY <1>0, <1>3, <1>k, <2>1, <2>2, <3>1, SeenKept DEF EndedAs
    <3>2. CASE q = r
      <4>1. req'[r].status # 200 /\ req'[r].status # 404
        BY <2>1 DEF EndedAs
      <4>2. /\ req[r] # None /\ req'[r].op = req[r].op /\ req'[r].arg = req[r].arg
            /\ req'[r].dead = req[r].dead /\ req'[r].user = req[r].user /\ req'[r].pc = req[r].pc
        BY <1>n, <2>1 DEF EndedAs
      <4>3. Seen(r)
        BY <1>0
      <4> QED
        BY <2>2, <3>2, <4>1, <4>2, <4>3 DEF Seen, Is
    <3> QED
      BY <3>1, <3>2
  <2> QED
    BY <2>3, <2>4 DEF JobsInv
<1>4. ASSUME NEW j \in Ids, WorkerStep(j, clock) \/ WorkerFault(j), UNCHANGED <<req, clock>>
      PROVE  JobsInv'
  <2>1. PICK v \in Job : /\ jobs[j] # None /\ jobs' = [jobs EXCEPT ![j] = v] /\ JobFits(v)
                         /\ v.owner = jobs[j].owner /\ v.ownedAt = jobs[j].ownedAt
                         /\ v.reported = jobs[j].reported
    BY <1>0, <1>4, WorkerKeeps
  <2>2. JobsType' /\ jobs'[j] = v /\ v # None /\ \A q \in Ids : q # j => jobs'[q] = jobs[q]
    BY <1>0, <2>1, Constants DEF JobsType
  <2>3. JobsKept
    BY <2>1, <2>2 DEF JobsKept
  <2>4. JobsFit' /\ JobsOrdered'
    BY <1>0, <1>4, <2>1, <2>2 DEF JobsFit, JobsOrdered, Is
  <2>5. ASSUME NEW q \in Ids PROVE Seen(q)'
    BY <1>0, <1>4, <2>3, SeenKept
  <2> QED
    BY <2>2, <2>4, <2>5 DEF JobsInv
<1>5. ASSUME UNCHANGED <<req, jobs>>, clock' = clock \/ clock' = clock + 1 PROVE JobsInv'
  <2>1. JobsType' /\ JobsFit' /\ JobsOrdered'
    BY <1>0, <1>5 DEF JobsType, JobsFit, JobsOrdered, Is
  <2>2. ASSUME NEW q \in Ids PROVE Seen(q)'
    BY <1>0, <1>5, <1>k, SeenKept
  <2> QED
    BY <2>1, <2>2 DEF JobsInv
<1> QED
  BY <1>1, <1>2, <1>3, <1>4, <1>5, Kinds

-----------------------------------------------------------------------------
(* Documents. *)

DocsType == docs \in [Ids -> Document \cup {None}]

\* What has been written of a document when its upload is at step pc.
Written(pc, d) ==
  LET n == ChunkCount
  IN  \/ /\ pc = 4
         /\ d.status = None /\ d.points = 0 /\ d.rows = 0 /\ d.chunk_count = 0
      \/ /\ pc >= 5 /\ pc <= n + 5
         /\ d.status = "processing" /\ d.points = pc - 5 /\ d.rows = 0 /\ d.chunk_count = 0
      \/ /\ pc = n + 6
         /\ d.status = "processing" /\ d.points = n /\ d.rows = n + d.parents /\ d.chunk_count = 0
      \/ /\ pc = n + 7 \/ pc = n + 8
         /\ d.status = "completed" /\ d.points = n /\ d.rows = n + d.parents /\ d.chunk_count = n

\* The document of an upload: as far as the upload is, or rolled back.
DocFits(q, d) ==
  /\ q.op \in Uploads /\ q.pc >= 4
  /\ d.committed <=> q.pc = ChunkCount + 8
  /\ q.status = None \/ d.committed => Written(q.pc, d)
  /\ q.status # None /\ ~d.committed => q.status = 500 /\ d.status = None /\ d.rows = 0

DocsFit ==
  \A r \in Ids : /\ docs[r] # None => req[r] # None /\ DocFits(req[r], docs[r])
                 /\ req[r] # None /\ req[r].op \in Uploads /\ req[r].pc >= 4 => docs[r] # None

DocsInv == DocsType /\ DocsFit

\* The document a step of an upload leaves fits the next step.
LEMMA UploadWrites ==
  ASSUME BaseInv, DocsInv, NEW r \in Ids, RequestStep(r), UploadStep(r)
  PROVE  \E v \in Document : /\ docs' = [docs EXCEPT ![r] = v]
                             /\ req'[r] \in Request /\ DocFits(req'[r], v)
<1>0. RequestsType /\ TokensType /\ TokensKnown /\ clock \in Nat /\ DocsType /\ DocsFit
  BY DEF BaseInv, DocsInv
<1>1. /\ req[r] \in Request /\ req[r].status = None /\ req'[r] \in Request
      /\ req'[r].op = req[r].op
  BY <1>0, Moves DEF Moved
<1>2. Advance(r)
  BY DEF UploadStep
<1>3. req'[r].pc = req[r].pc + 1 /\ req'[r].status = None
  BY <1>0, <1>1, <1>2 DEF Advance, RequestsType, Request
<1>4. req[r].pc \in Nat \ {0} /\ ChunkCount \in Nat /\ ParentCount \in Nat /\ req[r].user \in Users
  BY <1>1, Constants DEF Request
<1> DEFINE n == ChunkCount
           pc == req[r].pc
           d == docs[r]
<1>a. ASSUME NEW s, At(r, s), s \notin {"save_file", "verify", "extract"}, req[r].op \in Uploads
      PROVE  d \in Document /\ DocFits(req[r], d) /\ pc >= 4
  <2>1. StepTable(req[r].op, pc, s)
    BY <1>0, <1>a, AtTable
  <2>2. pc >= 4
    BY <1>4, <1>a, <2>1 DEF StepTable, Uploads
  <2>3. req[r] # None
    BY <1>1, Constants
  <2> QED
    BY <1>0, <1>a, <2>2, <2>3 DEF DocsFit, DocsType
<1>b. ASSUME NEW v \in Document, docs' = [docs EXCEPT ![r] = v], Written(pc + 1, v),
             req[r].op \in Uploads, pc >= 3, v.committed <=> pc + 1 = n + 8
      PROVE  \E w \in Document : /\ docs' = [docs EXCEPT ![r] = w]
                                 /\ req'[r] \in Request /\ DocFits(req'[r], w)
  <2>1. DocFits(req'[r], v)
    BY <1>1, <1>3, <1>4, <1>b DEF DocFits
  <2> QED
    BY <1>1, <1>b, <2>1
<1>5. ASSUME NEW parents \in Nat, At(r, "save_file"), save_file(r, req[r].user, parents)
      PROVE  \E v \in Document : /\ docs' = [docs EXCEPT ![r] = v]
                                 /\ req'[r] \in Request /\ DocFits(req'[r], v)
  <2> DEFINE v == [tenant |-> req[r].user, parents |-> parents, status |-> None,
                   chunk_count |-> 0, rows |-> 0, points |-> 0, committed |-> FALSE]
  <2>1. docs' = [docs EXCEPT ![r] = v]
    BY <1>5 DEF save_file
  <2>2. v \in Document
    BY <1>4 DEF Document
  <2>3. req[r].op \in Uploads /\ pc = 3
    BY <1>0, <1>5, AtTable DEF StepTable
  <2>4. Written(pc + 1, v) /\ (v.committed <=> pc + 1 = n + 8)
    BY <1>4, <2>3 DEF Written
  <2> HIDE DEF v
  <2>5. pc >= 3
    BY <2>3
  <2> HIDE DEF pc, n
  <2> QED
    BY <1>b, <2>1, <2>2, <2>3, <2>4, <2>5
<1>6. CASE At(r, "save_document") /\ save_document(r)
  <2> DEFINE v == [d EXCEPT !.status = "processing"]
  <2>1. docs' = [docs EXCEPT ![r] = v]
    BY <1>6 DEF save_document
  <2>2. req[r].op \in Uploads /\ pc = 4
    BY <1>0, <1>6, AtTable DEF StepTable
  <2>3. d \in Document /\ DocFits(req[r], d)
    BY <1>a, <1>6, <2>2
  <2>4. v \in Document
    BY <2>3 DEF Document
  <2>5. d.points = 0 /\ d.rows = 0 /\ d.chunk_count = 0 /\ ~d.committed
    BY <1>1, <1>4, <2>2, <2>3 DEF DocFits, Written
  <2>6. Written(pc + 1, v) /\ (v.committed <=> pc + 1 = n + 8)
    BY <1>4, <2>2, <2>3, <2>5 DEF Written, Document
  <2> HIDE DEF v
  <2>7. pc >= 3
    BY <2>2
  <2> HIDE DEF pc, n
  <2> QED
    BY <1>b, <2>1, <2>2, <2>4, <2>6, <2>7
<1>7. CASE At(r, "upsert") /\ upsert(r)
  <2> DEFINE v == [d EXCEPT !.points = d.points + 1]
  <2>1. docs' = [docs EXCEPT ![r] = v]
    BY <1>7 DEF upsert
  <2>2. req[r].op \in Uploads /\ pc >= 5 /\ pc <= n + 4
    BY <1>0, <1>7, AtTable DEF StepTable
  <2>3. d \in Document /\ DocFits(req[r], d)
    BY <1>a, <1>7, <2>2
  <2>4. v \in Document
    BY <2>3 DEF Document
  <2>5. d.status = "processing" /\ d.points = pc - 5 /\ d.rows = 0 /\ d.chunk_count = 0 /\ ~d.committed
    BY <1>1, <1>4, <2>2, <2>3 DEF DocFits, Written
  <2>6. Written(pc + 1, v) /\ (v.committed <=> pc + 1 = n + 8)
    BY <1>4, <2>2, <2>3, <2>5 DEF Written, Document
  <2> HIDE DEF v
  <2>7. pc >= 3
    BY <1>4, <2>2
  <2> HIDE DEF pc, n
  <2> QED
    BY <1>b, <2>1, <2>2, <2>4, <2>6, <2>7
<1>8. CASE At(r, "save_chunks") /\ save_chunks(r)
  <2> DEFINE v == [d EXCEPT !.rows = d.points + d.parents]
  <2>1. docs' = [docs EXCEPT ![r] = v]
    BY <1>8 DEF save_chunks
  <2>2. req[r].op \in Uploads /\ pc = n + 5
    BY <1>0, <1>8, AtTable DEF StepTable
  <2>3. d \in Document /\ DocFits(req[r], d)
    BY <1>a, <1>8, <2>2
  <2>4. v \in Document
    BY <2>3 DEF Document
  <2>5. d.status = "processing" /\ d.points = n /\ d.chunk_count = 0 /\ ~d.committed
    BY <1>1, <1>4, <2>2, <2>3 DEF DocFits, Written
  <2>6. Written(pc + 1, v) /\ (v.committed <=> pc + 1 = n + 8)
    BY <1>4, <2>2, <2>3, <2>5 DEF Written, Document
  <2> HIDE DEF v
  <2>7. pc >= 3
    BY <1>4, <2>2
  <2> HIDE DEF pc, n
  <2> QED
    BY <1>b, <2>1, <2>2, <2>4, <2>6, <2>7
<1>9. CASE At(r, "status") /\ update_document_status(r)
  <2> DEFINE v == [d EXCEPT !.status = "completed", !.chunk_count = d.points]
  <2>1. docs' = [docs EXCEPT ![r] = v]
    BY <1>9 DEF update_document_status
  <2>2. req[r].op \in Uploads /\ pc = n + 6
    BY <1>0, <1>9, AtTable DEF StepTable
  <2>3. d \in Document /\ DocFits(req[r], d)
    BY <1>a, <1>9, <2>2
  <2>4. v \in Document
    BY <2>3 DEF Document
  <2>5. d.points = n /\ d.rows = n + d.parents /\ ~d.committed
    BY <1>1, <1>4, <2>2, <2>3 DEF DocFits, Written
  <2>6. Written(pc + 1, v) /\ (v.committed <=> pc + 1 = n + 8)
    BY <1>4, <2>2, <2>3, <2>5 DEF Written, Document
  <2> HIDE DEF v
  <2>7. pc >= 3
    BY <1>4, <2>2
  <2> HIDE DEF pc, n
  <2> QED
    BY <1>b, <2>1, <2>2, <2>4, <2>6, <2>7
<1>10. CASE At(r, "commit") /\ commit(r)
  <2> DEFINE v == [d EXCEPT !.committed = TRUE]
  <2>1. docs' = [docs EXCEPT ![r] = v]
    BY <1>10 DEF commit
  <2>2. req[r].op \in Uploads /\ pc = n + 7
    BY <1>0, <1>10, AtTable DEF StepTable
  <2>3. d \in Document /\ DocFits(req[r], d)
    BY <1>a, <1>10, <2>2
  <2>4. v \in Document
    BY <2>3 DEF Document
  <2>5. d.status = "completed" /\ d.points = n /\ d.rows = n + d.parents /\ d.chunk_count = n
    BY <1>1, <1>4, <2>2, <2>3 DEF DocFits, Written
  <2>6. Written(pc + 1, v) /\ (v.committed <=> pc + 1 = n + 8)
    BY <1>4, <2>2, <2>3, <2>5 DEF Written, Document
  <2> HIDE DEF v
  <2>7. pc >= 3
    BY <1>4, <2>2
  <2> HIDE DEF pc, n
  <2> QED
    BY <1>b, <2>1, <2>2, <2>4, <2>6, <2>7
<1> QED
  BY <1>4, <1>5, <1>6, <1>7, <1>8, <1>9, <1>10 DEF UploadStep

\* DocsInv is inductive.
LEMMA DocsStep == BaseInv /\ DocsInv /\ [Next]_vars => DocsInv'
<1> SUFFICES ASSUME BaseInv, DocsInv, [Next]_vars PROVE DocsInv'
  OBVIOUS
<1>0. RequestsType /\ TokensType /\ TokensKnown /\ clock \in Nat /\ DocsType /\ DocsFit
  BY DEF BaseInv, DocsInv
<1>n. None \notin Request /\ None \notin Document /\ None \notin Nat /\ ChunkCount \in Nat
  BY Constants
<1>1. ASSUME NEW op \in suite.ops, NEW u \in suite.users, NEW a \in Arguments(op), Start(op, u, a)
      PROVE  DocsInv'
  <2> DEFINE r == started + 1
  <2>1. /\ r \in Ids /\ req[r] = None /\ req'[r].pc = 1
        /\ \A q \in Ids : q # r => req'[q] = req[q]
        /\ UNCHANGED docs
    BY <1>1, Starts
  <2> HIDE DEF r
  <2> QED
    BY <1>0, <2>1 DEF DocsInv, DocsType, DocsFit
<1>a. ASSUME NEW r \in Ids, \A q \in Ids : q # r => req'[q] = req[q] /\ docs'[q] = docs[q],
             DocsType', docs'[r] # None => req'[r] # None /\ DocFits(req'[r], docs'[r]),
             req'[r] # None /\ req'[r].op \in Uploads /\ req'[r].pc >= 4 => docs'[r] # None
      PROVE  DocsInv'
  BY <1>0, <1>a DEF DocsInv, DocsFit
<1>2. ASSUME NEW r \in Ids, RequestStep(r) PROVE DocsInv'
  <2>1. Moved(r)
    BY <1>0, <1>2, Moves
  <2>2. /\ req[r] \in Request /\ req'[r] \in Request /\ req'[r].op = req[r].op /\ req[r].status = None
        /\ \A q \in Ids : q # r => req'[q] = req[q]
    BY <2>1 DEF Moved
  <2>3. CASE UploadStep(r)
    <3>1. PICK v \in Document : docs' = [docs EXCEPT ![r] = v] /\ DocFits(req'[r], v)
      BY <1>2, <2>3, UploadWrites
    <3>2. docs'[r] = v /\ DocsType' /\ \A q \in Ids : q # r => docs'[q] = docs[q]
      BY <1>0, <3>1 DEF DocsType
    <3> QED
      BY <1>a, <1>n, <2>2, <3>1, <3>2
  <2>4. CASE ~UploadStep(r)
    <3>1. UNCHANGED docs
      BY <1>2, <2>4, Touches
    <3>2. req[r].pc \in Nat \ {0} /\ req'[r].pc \in Nat
      BY <2>2 DEF Request
    <3>3. req[r].op \in Uploads => Len(Program[req[r].op]) = ChunkCount + 7
      BY Lengths
    <3>4. req[r].op \in Uploads /\ Midway(r) => req[r].pc < 3
      <4> SUFFICES ASSUME req[r].op \in Uploads, Midway(r) PROVE req[r].pc < 3
        OBVIOUS
      <4>1. PICK s : /\ StepTable(req[r].op, req[r].pc, s)
                     /\ s \in {"save_file", "save_document", "upsert", "save_chunks", "status", "commit"}
                           => UploadStep(r)
        BY <1>0, <1>2, <2>2, StepTaken
      <4> QED
        BY <2>4, <3>2, <4>1 DEF StepTable, Uploads
    <3>5. CASE req[r].op \notin Uploads
      BY <1>0, <1>a, <1>n, <2>2, <3>1, <3>5 DEF DocsFit, DocFits, DocsType
    <3>6. CASE req[r].op \in Uploads /\ req[r].pc < 3
      <4>1. req'[r].pc < 4
        BY <2>1, <3>2, <3>6 DEF Moved
      <4>2. docs[r] = None
        BY <1>0, <3>2, <3>6 DEF DocsFit, DocFits
      <4> QED
        BY <1>0, <1>a, <2>2, <3>1, <3>2, <4>1, <4>2 DEF DocsType
    <3>7. CASE req[r].op \in Uploads /\ Through(r)
      <4>1. req[r].pc > ChunkCount + 7 /\ req'[r].pc = req[r].pc /\ req'[r].status # None
        <5>1. ~Midway(r)
          BY <1>n, <3>2, <3>3, <3>7 DEF Midway, Through
        <5>2. SuccessOf(req[r].op) \in Nat
          BY DEF SuccessOf
        <5> QED
          BY <1>n, <2>1, <3>3, <3>7, <5>1, <5>2 DEF Moved, Through
      <4>2. req[r] # None /\ docs[r] # None /\ docs[r] \in Document
        BY <1>0, <1>n, <2>2, <3>2, <3>7, <4>1 DEF DocsFit, DocsType
      <4>3. DocFits(req[r], docs[r])
        BY <1>0, <4>2 DEF DocsFit
      <4>4. Written(req[r].pc, docs[r])
        BY <2>2, <4>3 DEF DocFits
      <4>5. req[r].pc = ChunkCount + 8
        BY <1>n, <3>2, <4>1, <4>4 DEF Written
      <4>6. DocFits(req'[r], docs[r])
        BY <2>2, <4>1, <4>3, <4>4, <4>5 DEF DocFits
      <4> QED
        BY <1>0, <1>a, <1>n, <2>2, <3>1, <4>2, <4>6 DEF DocsType
    <3>8. Midway(r) \/ Through(r)
      BY <2>1 DEF Moved
    <3> QED
      BY <3>4, <3>5, <3>6, <3>7, <3>8
  <2> QED
    BY <2>3, <2>4
<1>3. ASSUME NEW r \in Ids, RequestFault(r) PROVE DocsInv'
  <2>1. EndedAs(r, 500) /\ req[r] \in Request /\ req[r].status = None
    BY <1>0, <1>3, FaultEnds
  <2>2. rollback(r)
    BY <1>3 DEF RequestFault
  <2>3. CASE docs[r] # None /\ ~docs[r].committed
    <3> DEFINE v == [docs[r] EXCEPT !.status = None, !.rows = 0]
    <3>1. docs' = [docs EXCEPT ![r] = v]
      BY <2>2, <2>3 DEF rollback
    <3>2. docs[r] \in Document /\ DocFits(req[r], docs[r])
      BY <1>0, <2>3 DEF DocsType, DocsFit
    <3>3. v \in Document /\ v.status = None /\ v.rows = 0 /\ ~v.committed
      BY <2>3, <3>2 DEF Document
    <3> HIDE DEF v
    <3>4. docs'[r] = v /\ DocsType' /\ \A q \in Ids : q # r => docs'[q] = docs[q]
      BY <1>0, <3>1, <3>3 DEF DocsType
    <3>5. DocFits(req'[r], v)
      BY <1>n, <2>1, <2>3, <3>2, <3>3 DEF DocFits, EndedAs
    <3> QED
      BY <1>a, <1>n, <2>1, <3>3, <3>4, <3>5 DEF EndedAs
  <2>4. CASE docs[r] = None \/ docs[r].committed
    <3>1. UNCHANGED docs
      BY <2>2, <2>4 DEF rollback
    <3>2. docs[r] # None => DocFits(req'[r], docs[r])
      BY <1>0, <1>n, <2>1, <2>4 DEF DocFits, DocsFit, EndedAs
    <3> QED
      BY <1>0, <1>a, <1>n, <2>1, <3>1, <3>2 DEF EndedAs, DocsFit, DocsType
  <2> QED
    BY <2>3, <2>4
<1>4. ASSUME UNCHANGED <<req, docs>> PROVE DocsInv'
  BY <1>0, <1>4 DEF DocsInv, DocsType, DocsFit
<1> QED
  BY <1>1, <1>2, <1>3, <1>4, Kinds

-----------------------------------------------------------------------------
(* Refresh tokens. *)

\* A token that was deleted is dead.
DeletedDead == \A t \in Ids : deletes[t] > 0 => tokens[t] # None /\ tokens[t].expires = 0

\* A token is issued once: by the request of its number, at its last step.
IssuedOnce ==
  \A t \in Ids : tokens[t] # None =>
     t = 0 \/ (Is(t, "login") /\ req[t].pc >= 4) \/ (Is(t, "refresh") /\ req[t].pc >= 6)

\* A refresh with a dead token gets no further than looking it up.
Stuck(r) == Is(r, "refresh") /\ req[r].dead =>
               ~Live(req[r].arg, clock) /\ req[r].pc = 1 /\ req[r].status # 200

TokensInv == DeletedDead /\ IssuedOnce /\ \A r \in Ids : Stuck(r)

\* Dead tokens stay dead.
TokensDie ==
  \A t \in Ids : tokens[t] # None =>
     tokens'[t] # None /\ (tokens'[t].expires = tokens[t].expires \/ tokens'[t].expires = 0)

\* A token that is not live does not come back to life.
LEMMA DeadStaysDead ==
  ASSUME TokensType, TokensDie, clock \in Nat, clock' = clock \/ clock' = clock + 1,
         NEW t \in Ids, tokens[t] # None, ~Live(t, clock)
  PROVE  ~(tokens'[t] # None /\ tokens'[t].expires > clock')
<1>1. tokens[t].expires \in Nat /\ ~(tokens[t].expires > clock)
  BY DEF TokensType, Token, Live
<1>2. tokens'[t].expires = tokens[t].expires \/ tokens'[t].expires = 0
  BY DEF TokensDie
<1> QED
  BY <1>1, <1>2

\* What the requests do to the tokens.
LEMMA RequestTokens ==
  ASSUME BaseInv, TokensInv, NEW r \in Ids, RequestStep(r)
  PROVE  /\ TokensDie /\ DeletedDead'
         /\ \A t \in Ids : tokens'[t] # None =>
               \/ tokens[t] # None
               \/ t = r /\ req'[r].op = req[r].op
                  /\ \/ Is(r, "login") /\ req'[r].pc = 4
                     \/ Is(r, "refresh") /\ req'[r].pc = 6
<1>0. RequestsType /\ TokensType /\ TokensKnown /\ clock \in Nat /\ Numbered
      /\ DeletedDead /\ IssuedOnce
  BY DEF BaseInv, TokensInv
<1>1. CASE UNCHANGED tokenVars
  BY <1>0, <1>1 DEF TokensDie, DeletedDead, tokenVars
<1>2. CASE DeleteToken(r)
  <2> DEFINE a == req[r].arg
             v == [tokens[a] EXCEPT !.expires = 0]
  <2>1. At(r, "delete") /\ tokens' = [tokens EXCEPT ![a] = v] /\ deletes' = [deletes EXCEPT ![a] = @ + 1]
    BY <1>2 DEF DeleteToken, delete, Without
  <2>2. req[r].op \in {"refresh", "logout"} /\ req[r] # None
    BY <1>0, <2>1, AtTable DEF StepTable, Uploads
  <2>3. a \in Ids /\ tokens[a] # None /\ tokens[a] \in Token
    BY <1>0, <2>2 DEF TokensKnown, TokensType
  <2>4. v \in Token /\ v.expires = 0 /\ v # None
    BY <2>3, Constants DEF Token
  <2> HIDE DEF v, a
  <2>5. /\ tokens'[a] = v /\ \A t \in Ids : t # a => tokens'[t] = tokens[t] /\ deletes'[t] = deletes[t]
    BY <1>0, <2>1, <2>3 DEF TokensType
  <2> QED
    BY <1>0, <2>3, <2>4, <2>5 DEF TokensDie, DeletedDead
<1>3. CASE SaveToken(r)
  <2> DEFINE v == [user |-> req[r].user, expires |-> clock + RefreshLife, chain |-> req[r].chain]
  <2>1. At(r, "save_token") /\ Advance(r) /\ tokens' = [tokens EXCEPT ![r] = v] /\ UNCHANGED deletes
    BY <1>3 DEF SaveToken, save
  <2>2. (Is(r, "login") /\ req[r].pc = 3) \/ (Is(r, "refresh") /\ req[r].pc = 5)
    BY <1>0, <2>1, AtTable DEF StepTable, Uploads, Is
  <2>3. req[r] \in Request
    BY <1>0, <2>1, AtTable
  <2>4. tokens[r] = None
    <3>1. r # 0
      BY <1>0, <2>2, Constants DEF Numbered, Ids, Is
    <3> QED
      BY <1>0, <2>2, <3>1 DEF IssuedOnce, Is
  <2>5. ~(deletes[r] > 0)
    BY <1>0, <2>4 DEF DeletedDead
  <2>6. req'[r].op = req[r].op /\ req'[r].pc = req[r].pc + 1
    BY <1>0, <2>1, <2>3 DEF Advance, RequestsType, Request
  <2> HIDE DEF v
  <2>7. tokens'[r] = v /\ \A t \in Ids : t # r => tokens'[t] = tokens[t]
    BY <1>0, <2>1 DEF TokensType
  <2>8. TokensDie
    BY <2>4, <2>7 DEF TokensDie
  <2>9. DeletedDead'
    BY <1>0, <2>1, <2>5, <2>7 DEF DeletedDead
  <2>10. (Is(r, "login") /\ req'[r].pc = 4) \/ (Is(r, "refresh") /\ req'[r].pc = 6)
    BY <2>2, <2>6
  <2> QED
    BY <2>6, <2>7, <2>8, <2>9, <2>10
<1> QED
  BY <1>1, <1>2, <1>3, Touches

\* TokensInv is inductive.
LEMMA TokensInvStep == BaseInv /\ TokensInv /\ [Next]_vars => TokensInv'
<1> SUFFICES ASSUME BaseInv, TokensInv, [Next]_vars PROVE TokensInv'
  OBVIOUS
<1>0. /\ RequestsType /\ TokensType /\ TokensKnown /\ clock \in Nat
      /\ DeletedDead /\ IssuedOnce /\ \A q \in Ids : Stuck(q)
  BY DEF BaseInv, TokensInv
<1>n. None \notin Request /\ None \notin Nat
  BY Constants
<1>s. ASSUME TokensDie, clock' = clock \/ clock' = clock + 1, NEW q \in Ids, req'[q] = req[q]
      PROVE  Stuck(q)'
  <2> SUFFICES ASSUME Is(q, "refresh"), req[q].dead PROVE Stuck(q)'
    BY <1>s DEF Stuck, Is
  <2>1. ~Live(req[q].arg, clock) /\ req[q].pc = 1 /\ req[q].status # 200
    BY <1>0 DEF Stuck
  <2>2. req[q].arg \in Ids /\ tokens[req[q].arg] # None
    BY <1>0 DEF TokensKnown, Is
  <2>3. ~(tokens'[req[q].arg] # None /\ tokens'[req[q].arg].expires > clock')
    BY <1>0, <1>s, <2>1, <2>2, DeadStaysDead
  <2> QED
    BY <1>s, <2>1, <2>3 DEF Stuck, Live
<1>d. UNCHANGED tokens => TokensDie
  BY DEF TokensDie
<1>1. ASSUME NEW op \in suite.ops, NEW u \in suite.users, NEW a \in Arguments(op), Start(op, u, a)
      PROVE  TokensInv'
  <2> DEFINE r == started + 1
  <2>1. /\ r \in Ids /\ req[r] = None
        /\ \A q \in Ids : q # r => req'[q] = req[q]
        /\ req'[r].op = op /\ req'[r].arg = a /\ req'[r].pc = 1 /\ req'[r].status = None
        /\ req'[r].dead = (\/ op \in {"refresh", "logout"} /\ (deletes[a] > 0 \/ ~Live(a, clock))
                           \/ op = "job_status" /\ OwnerOf(a, clock) = None)
        /\ op \in {"refresh", "logout"} => a \in Ids /\ tokens[a] # None
        /\ UNCHANGED <<tokenVars, clock>>
    BY <1>1, Starts
  <2>2. UNCHANGED <<tokens, deletes, clock>>
    BY <2>1 DEF tokenVars
  <2> HIDE DEF r
  <2>3. DeletedDead' /\ IssuedOnce'
    BY <1>0, <2>1, <2>2 DEF DeletedDead, IssuedOnce, Is
  <2>4. ASSUME NEW q \in Ids, q = r PROVE Stuck(q)'
    <3>1. op = "refresh" /\ req'[r].dead => deletes[a] > 0 \/ ~Live(a, clock)
      BY <2>1
    <3>2. op = "refresh" /\ deletes[a] > 0 => tokens[a].expires = 0
      BY <1>0, <2>1 DEF DeletedDead
    <3>3. tokens[a].expires = 0 => ~Live(a, clock)
      BY <1>0 DEF Live
    <3>4. op = "refresh" /\ req'[r].dead => ~Live(a, clock)'
      BY <2>2, <3>1, <3>2, <3>3 DEF Live
    <3>5. req'[q].op = op /\ req'[q].arg = a /\ req'[q].pc = 1 /\ req'[q].status # 200
      BY <1>n, <2>1, <2>4
    <3> QED
      BY <2>4, <3>4, <3>5 DEF Stuck, Is, Live
  <2>5. ASSUME NEW q \in Ids PROVE Stuck(q)'
    BY <1>d, <1>s, <2>1, <2>2, <2>4
  <2> QED
    BY <2>3, <2>5 DEF TokensInv
<1>2. ASSUME NEW r \in Ids, RequestStep(r), UNCHANGED clock PROVE TokensInv'
  <2>1. /\ req[r] \in Request /\ req'[r] \in Request /\ req'[r].op = req[r].op /\ req[r].status = None
        /\ req'[r].arg = req[r].arg /\ req'[r].dead = req[r].dead
        /\ \A q \in Ids : q # r => req'[q] = req[q]
        /\ req'[r].pc = req[r].pc \/ req'[r].pc = req[r].pc + 1
    BY <1>0, <1>2, Moves DEF Moved
  <2>2. /\ TokensDie /\ DeletedDead'
        /\ \A t \in Ids : tokens'[t] # None =>
              \/ tokens[t] # None
              \/ t = r /\ req'[r].op = req[r].op
                 /\ \/ Is(r, "login") /\ req'[r].pc = 4
                    \/ Is(r, "refresh") /\ req'[r].pc = 6
    BY <1>2, RequestTokens
  <2>3. req[r].pc \in Nat \ {0} /\ req'[r].pc \in Nat
    BY <2>1 DEF Request
  <2>4. IssuedOnce'
    <3> SUFFICES ASSUME NEW t \in Ids, tokens'[t] # None
                 PROVE  \/ t = 0 \/ (Is(t, "login")' /\ req'[t].pc >= 4)
                        \/ (Is(t, "refresh")' /\ req'[t].pc >= 6)
      BY DEF IssuedOnce
    <3>1. CASE tokens[t] # None /\ t # r
      BY <1>0, <2>1, <3>1 DEF IssuedOnce, Is
    <3>2. CASE tokens[t] # None /\ t = r
      BY <1>0, <1>n, <2>1, <2>3, <3>2 DEF IssuedOnce, Is
    <3>3. CASE tokens[t] = None
      BY <1>n, <2>1, <2>2, <3>3 DEF Is
    <3> QED
      BY <3>1, <3>2, <3>3
  <2>5. Stuck(r)'
    <3> SUFFICES ASSUME Is(r, "refresh"), req[r].dead PROVE Stuck(r)'
      BY <1>n, <2>1 DEF Stuck, Is
    <3>1. ~Live(req[r].arg, clock) /\ req[r].pc = 1
      BY <1>0 DEF Stuck
    <3>2. req[r].arg \in Ids /\ tokens[req[r].arg] # None
      BY <1>0 DEF TokensKnown, Is
    <3>3. ~(tokens'[req[r].arg] # None /\ tokens'[req[r].arg].expires > clock')
      BY <1>0, <1>2, <2>2, <3>1, <3>2, DeadStaysDead
    <3>4. Midway(r)
      BY <3>1, Lengths DEF Midway, Is
    <3>5. ReadToken(r)
      BY <1>0, <1>2, <2>1, <3>1, <3>4, StepTaken DEF StepTable, Is, Uploads
    <3>6. End(r, 401)
      BY <3>1, <3>5 DEF ReadToken, get_user_id
    <3>7. req'[r].pc = 1 /\ req'[r].status = 401
      BY <1>0, <2>1, <3>1, <3>6, EndKeeps DEF EndedAs
    <3> QED
      BY <2>1, <3>3, <3>7 DEF Stuck, Live
  <2>6. \A q \in Ids : Stuck(q)'
    BY <1>2, <1>s, <2>1, <2>2, <2>5
  <2> QED
    BY <2>2, <2>4, <2>6 DEF TokensInv
<1>3. ASSUME NEW r \in Ids, RequestFault(r), UNCHANGED clock PROVE TokensInv'
  <2>1. EndedAs(r, 500) /\ req[r] \in Request /\ req[r].status = None
    BY <1>0, <1>3, FaultEnds
  <2>2. UNCHANGED <<tokens, deletes>>
    BY <1>3 DEF RequestFault, tokenVars
  <2>3. DeletedDead' /\ IssuedOnce'
    BY <1>0, <1>n, <2>1, <2>2 DEF DeletedDead, IssuedOnce, Is, EndedAs
  <2>4. Stuck(r)'
    <3>1. req'[r].op = req[r].op /\ req'[r].arg = req[r].arg /\ req'[r].dead = req[r].dead
          /\ req'[r].pc = req[r].pc /\ req'[r].status = 500 /\ req[r] # None
      BY <1>n, <2>1 DEF EndedAs
    <3>2. Stuck(r)
      BY <1>0
    <3> QED
      BY <1>3, <2>2, <3>1, <3>2 DEF Stuck, Is, Live
  <2>5. \A q \in Ids : Stuck(q)'
    BY <1>3, <1>d, <1>s, <2>1, <2>2, <2>4 DEF EndedAs
  <2> QED
    BY <2>3, <2>5 DEF TokensInv
<1>4. ASSUME UNCHANGED <<req, tokenVars>>, clock' = clock \/ clock' = clock + 1 PROVE TokensInv'
  <2>1. UNCHANGED <<tokens, deletes, req>>
    BY <1>4 DEF tokenVars
  <2>2. DeletedDead' /\ IssuedOnce'
    BY <1>0, <2>1 DEF DeletedDead, IssuedOnce, Is
  <2> QED
    BY <1>4, <1>d, <1>s, <2>1, <2>2 DEF TokensInv
<1> QED
  BY <1>1, <1>2, <1>3, <1>4, Kinds

-----------------------------------------------------------------------------
(* Rate limit headers. *)

\* The limit a request was counted by first, and the one its answer shows.
HeaderFits(r) ==
  req[r] # None =>
    /\ req[r].status = None => req[r].refused = None
    /\ req[r].op = "refresh" => req[r].stash = None
    /\ req[r].stash # None => req[r].stash = KeyOf(r)
    /\ req[r].op \in {"chat", "answer"} /\ req[r].pc >= 3 /\ req[r].status = None
          => req[r].stash # None
    /\ req[r].status # None =>
          IF req[r].refused # None THEN req[r].shown = req[r].refused[1]
          ELSE req[r].shown # None => req[r].shown = KeyOf(r)

HeadsInv == \A r \in Ids : HeaderFits(r)

\* An answer shows the limit that was stashed.
LEMMA EndShows ==
  ASSUME RequestsType, NEW r \in Ids, req[r] \in Request, NEW status \in Nat, End(r, status),
         req[r].status = None, HeaderFits(r)
  PROVE  HeaderFits(r)'
<1> DEFINE k == IF status = 500 THEN None ELSE Shown(req[r].stash, None)
           v == [req[r] EXCEPT !.status = status, !.shown = k]
<1>1. req' = [req EXCEPT ![r] = v]
  BY DEF End
<1>2. k = None \/ k = req[r].stash
  BY DEF Shown
<1> HIDE DEF k
<1>3. /\ v.op = req[r].op /\ v.user = req[r].user /\ v.stash = req[r].stash /\ v.shown = k
      /\ v.refused = req[r].refused /\ v.status = status
  BY DEF Request
<1> HIDE DEF v
<1>4. req'[r] = v
  BY <1>1 DEF RequestsType
<1>5. KeyOf(r)' = KeyOf(r)
  BY <1>3, <1>4 DEF KeyOf
<1>6. req[r].refused = None /\ status # None
  BY Constants DEF HeaderFits
<1>7. /\ req[r].op = "refresh" => req[r].stash = None
      /\ req[r].stash # None => req[r].stash = KeyOf(r)
  BY Constants DEF HeaderFits
<1> QED
  BY <1>2, <1>3, <1>4, <1>5, <1>6, <1>7 DEF HeaderFits

\* HeadsInv is inductive.
LEMMA HeadsStep == BaseInv /\ HeadsInv /\ [Next]_vars => HeadsInv'
<1> SUFFICES ASSUME BaseInv, HeadsInv, [Next]_vars PROVE HeadsInv'
  OBVIOUS
<1>0. RequestsType /\ TokensType /\ TokensKnown /\ clock \in Nat /\ \A q \in Ids : HeaderFits(q)
  BY DEF BaseInv, HeadsInv
<1>n. None \notin Request /\ None \notin LimitKeys /\ None \notin Nat /\ None \notin LimitKeys \X Nat
  BY Constants
<1>s. ASSUME NEW q \in Ids, req'[q] = req[q] PROVE HeaderFits(q)'
  BY <1>0, <1>s DEF HeaderFits, KeyOf
<1>1. ASSUME NEW op \in suite.ops, NEW u \in suite.users, NEW a \in Arguments(op), Start(op, u, a)
      PROVE  HeadsInv'
  <2> DEFINE r == started + 1
  <2>1. /\ r \in Ids /\ \A q \in Ids : q # r => req'[q] = req[q]
        /\ req'[r].pc = 1 /\ req'[r].status = None /\ req'[r].stash = None /\ req'[r].refused = None
    BY <1>1, Starts
  <2> HIDE DEF r
  <2>2. ASSUME NEW q \in Ids PROVE HeaderFits(q)'
    <3>1. CASE q = r
      BY <2>1, <3>1 DEF HeaderFits
    <3>2. CASE q # r
      BY <1>s, <2>1, <3>2
    <3> QED
      BY <3>1, <3>2
  <2> QED
    BY <2>2 DEF HeadsInv
<1>2. ASSUME NEW r \in Ids, RequestStep(r) PROVE HeadsInv'
  <2>1. /\ req[r] \in Request /\ req'[r] \in Request /\ req'[r].op = req[r].op /\ req[r].status = None
        /\ \A q \in Ids : q # r => req'[q] = req[q]
    BY <1>0, <1>2, Moves DEF Moved
  <2>2. Forms(r)
    BY <1>2, StepForms
  <2>3. /\ req[r].refused = None
        /\ req[r].op = "refresh" => req[r].stash = None
        /\ req[r].stash # None => req[r].stash = KeyOf(r)
        /\ req[r].op \in {"chat", "answer"} /\ req[r].pc >= 3 => req[r].stash # None
    BY <1>0, <1>n, <2>1 DEF HeaderFits
  <2>4. req[r].pc \in Nat \ {0}
    BY <2>1 DEF Request
  <2>5. ASSUME Limit(r) PROVE HeaderFits(r)'
    <3>1. PICK key : LimitAt(r, key) /\ (Ask(r, key) \/ Refuse(r, key))
      BY <2>5 DEF Limit, LimitAt, enforce_rate_limit, Ask
    <3>2. key \in LimitKeys
      BY <1>0, <3>1, KeysType
    <3>3. CASE Ask(r, key)
      <4> DEFINE k == IF req[r].stash = None THEN key ELSE req[r].stash
                 w == [req[r] EXCEPT !.pc = @ + 1]
                 v == [w EXCEPT !.stash = k]
      <4>1. req' = [req EXCEPT ![r] = v]
        BY <2>1, <3>3 DEF Ask, Request
      <4>2. /\ v.op = req[r].op /\ v.user = req[r].user /\ v.stash = k
            /\ v.refused = req[r].refused /\ v.status = None
        BY <2>1 DEF Request
      <4>3. k # None
        BY <1>n, <3>2
      <4>4. k = KeyOf(r) /\ req[r].op # "refresh"
        <5>1. CASE At(r, "limit") /\ key = KeyOf(r)
          <6>1. StepTable(req[r].op, req[r].pc, "limit")
            BY <1>0, <5>1, AtTable
          <6>2. req[r].op # "refresh"
            BY <6>1 DEF StepTable, Uploads
          <6> QED
            BY <2>3, <5>1, <6>2
        <5>2. CASE At(r, "global")
          <6>1. StepTable(req[r].op, req[r].pc, "global")
            BY <1>0, <5>2, AtTable
          <6>2. req[r].op \in {"chat", "answer"} /\ req[r].pc = 3
            BY <6>1 DEF StepTable, Uploads
          <6> QED
            BY <2>3, <6>2
        <5> QED
          BY <3>1, <5>1, <5>2 DEF LimitAt
      <4> HIDE DEF v, k
      <4>5. req'[r] = v
        BY <1>0, <4>1 DEF RequestsType
      <4>6. KeyOf(r)' = KeyOf(r)
        BY <4>2, <4>5 DEF KeyOf
      <4> QED
        BY <2>3, <4>2, <4>3, <4>4, <4>5, <4>6 DEF HeaderFits
    <3>4. CASE Refuse(r, key)
      <4>1. /\ req'[r].status = 429 /\ req'[r].refused = <<key, clock>> /\ req'[r].stash = None
            /\ req'[r].shown = key
        <5>1. Shown(None, key) = key
          BY DEF Shown
        <5> QED
          BY <1>0, <2>1, <3>4, <5>1 DEF Refuse, RequestsType, Request
      <4>2. <<key, clock>> # None /\ 429 # None
        BY <1>0, <1>n, <3>2
      <4> QED
        BY <4>1, <4>2 DEF HeaderFits
    <3> QED
      BY <3>1, <3>3, <3>4
  <2>6. ASSUME ~Limit(r) PROVE HeaderFits(r)'
    <3>1. Midway(r) => ~At(r, "limit") /\ ~At(r, "global")
      <4> SUFFICES ASSUME Midway(r) PROVE ~At(r, "limit") /\ ~At(r, "global")
        OBVIOUS
      <4>1. PICK s : At(r, s) /\ (s \in {"limit", "global"} => Limit(r))
        BY <1>0, <1>2, <2>1, StepTaken
      <4> QED
        BY <2>6, <4>1 DEF At
    <3>2. ASSUME NEW key, LimitAt(r, key) PROVE FALSE
      BY <3>1, <3>2 DEF LimitAt, At, Midway
    \* A chat or an answer leaves step 2 only past its limit.
    <3>3. Midway(r) /\ req[r].op \in {"chat", "answer"} => req[r].pc # 2
      <4> SUFFICES ASSUME Midway(r), req[r].op \in {"chat", "answer"}, req[r].pc = 2 PROVE FALSE
        OBVIOUS
      <4>1. PICK s : StepTable(req[r].op, req[r].pc, s) /\ At(r, s)
        BY <1>0, <1>2, <2>1, StepTaken
      <4>2. s = "limit"
        BY <4>1 DEF StepTable, Uploads
      <4> QED
        BY <3>1, <4>1, <4>2
    <3>4. CASE Midway(r) /\ Advance(r)
      <4> DEFINE v == [req[r] EXCEPT !.pc = @ + 1]
      <4>1. req' = [req EXCEPT ![r] = v]
        BY <3>4 DEF Advance
      <4>2. /\ v.op = req[r].op /\ v.user = req[r].user /\ v.stash = req[r].stash
            /\ v.refused = req[r].refused /\ v.status = None /\ v.pc = req[r].pc + 1
        BY <2>1 DEF Request
      <4> HIDE DEF v
      <4>3. req'[r] = v
        BY <1>0, <4>1 DEF RequestsType
      <4>4. KeyOf(r)' = KeyOf(r)
        BY <4>2, <4>3 DEF KeyOf
      <4>5. req[r].op \in {"chat", "answer"} /\ v.pc >= 3 => req[r].stash # None
        BY <2>3, <2>4, <3>3, <3>4, <4>2
      <4> QED
        BY <2>3, <4>2, <4>3, <4>4, <4>5 DEF HeaderFits
    <3>5. CASE \E status \in Refusals : End(r, status)
      BY <1>0, <2>1, <3>5, EndShows DEF Refusals
    <3>6. CASE End(r, SuccessOf(req[r].op))
      <4>1. SuccessOf(req[r].op) \in Nat
        BY DEF SuccessOf
      <4> QED
        BY <1>0, <2>1, <3>6, <4>1, EndShows
    <3>7. CASE /\ At(r, "peek") \/ At(r, "read")
               /\ TakeUser(r, tokens[req[r].arg].user)
      <4>1. req[r].op = "refresh"
        BY <1>0, <3>7, AtTable DEF StepTable, Uploads
      <4>2. req'[r].stash = req[r].stash /\ req'[r].refused = req[r].refused /\ req'[r].status = None
        BY <1>0, <2>1, <3>7 DEF TakeUser, RequestsType, Request
      <4> QED
        BY <2>1, <2>3, <4>1, <4>2 DEF HeaderFits
    <3> QED
      BY <2>2, <3>2, <3>4, <3>5, <3>6, <3>7 DEF Forms
  <2>7. HeaderFits(r)'
    BY <2>5, <2>6
  <2>8. ASSUME NEW q \in Ids PROVE HeaderFits(q)'
    BY <1>s, <2>1, <2>7
  <2> QED
    BY <2>8 DEF HeadsInv
<1>3. ASSUME NEW r \in Ids, RequestFault(r) PROVE HeadsInv'
  <2>1. EndedAs(r, 500) /\ req[r] \in Request /\ req[r].status = None /\ End(r, 500)
    BY <1>0, <1>3, FaultEnds DEF RequestFault
  <2>2. HeaderFits(r)'
    BY <1>0, <2>1, EndShows
  <2>3. ASSUME NEW q \in Ids PROVE HeaderFits(q)'
    BY <1>s, <2>1, <2>2 DEF EndedAs
  <2> QED
    BY <2>3 DEF HeadsInv
<1>4. ASSUME UNCHANGED req PROVE HeadsInv'
  BY <1>4, <1>s DEF HeadsInv
<1> QED
  BY <1>1, <1>2, <1>3, <1>4, Kinds

-----------------------------------------------------------------------------
(* Rotation. *)

\* The tokens of a chain that nobody has deleted, and the refreshes that deleted one and have not
\* stored the next.
Unspent(c) == {t \in Ids : tokens[t] # None /\ tokens[t].chain = c /\ deletes[t] = 0}

Pending(c) ==
  {r \in Ids : Is(r, "refresh") /\ req[r].chain = c /\ req[r].pc = 5 /\ req[r].status = None}

\* A chain starts with the token that a login stored, or with the one there was before.
Rooted(c) == c = 0 \/ (Is(c, "login") /\ req[c].pc >= 4)

\* A chain has at most one of the two, and one more for every delete that came second.
Balanced(c) == Cardinality(Unspent(c)) + Cardinality(Pending(c)) <= 1 + late[c]

\* Whose chain a request works on.
ChainFits(r) ==
  /\ Is(r, "login") => req[r].chain = r
  /\ Is(r, "refresh") \/ Is(r, "logout") => req[r].chain = tokens[req[r].arg].chain

\* A logout that has deleted its token leaves its chain nothing.
LogsOut(r) ==
  Is(r, "logout") =>
    /\ req[r].status = 204 => req[r].pc >= 2
    /\ \A c \in Ids : req[r].chain = c /\ req[r].pc >= 2 /\ late[c] = 0
                      => Unspent(c) = {} /\ Pending(c) = {}

ChainsInv ==
  /\ \A t, c \in Ids : tokens[t] # None /\ tokens[t].chain = c => Rooted(c)
  /\ \A r \in Ids : ChainFits(r) /\ LogsOut(r)
  /\ \A c \in Ids : Balanced(c)

\* What a step of r does to the chain c: U, P and n before, V, Q and m after.
Spends(r, U, P, n, V, Q, m) == \E a \in U : V = U \ {a} /\ Q \subseteq P \cup {r} /\ m = n
SpendsLate(r, U, P, n, V, Q, m) == V = U /\ Q \subseteq P \cup {r} /\ m = n + 1
Renews(r, U, P, n, V, Q, m) == r \in P /\ Q = P \ {r} /\ V = U \cup {r} /\ m = n
Opens(r, U, P, n, V, Q, m) == U = {} /\ P = {} /\ V = {r} /\ Q = {} /\ m = n
Leaves(U, P, n, V, Q, m) == V \subseteq U /\ Q \subseteq P /\ m = n

\* Subsets of the requests' numbers are finite.
LEMMA IdsFinite ==
  ASSUME NEW S \in SUBSET Ids
  PROVE  IsFiniteSet(S) /\ Cardinality(S) \in Nat
<1>1. IsFiniteSet(Ids)
  BY Constants, FS_Interval DEF Ids
<1> QED
  BY <1>1, FS_Subset, FS_CardinalityType

\* None of these adds a token that is not paid for.
LEMMA BalanceKept ==
  ASSUME NEW r \in Ids, NEW U \in SUBSET Ids, NEW P \in SUBSET Ids, NEW n \in Nat,
         NEW V \in SUBSET Ids, NEW Q \in SUBSET Ids, NEW m \in Nat,
         Cardinality(U) + Cardinality(P) <= 1 + n,
         \/ Spends(r, U, P, n, V, Q, m) \/ SpendsLate(r, U, P, n, V, Q, m)
         \/ Renews(r, U, P, n, V, Q, m) \/ Opens(r, U, P, n, V, Q, m) \/ Leaves(U, P, n, V, Q, m)
  PROVE  Cardinality(V) + Cardinality(Q) <= 1 + m
<1>1. /\ IsFiniteSet(U) /\ IsFiniteSet(P) /\ IsFiniteSet(V) /\ IsFiniteSet(Q)
      /\ Cardinality(U) \in Nat /\ Cardinality(P) \in Nat
      /\ Cardinality(V) \in Nat /\ Cardinality(Q) \in Nat
  BY IdsFinite
<1>2. Q \subseteq P \cup {r} => Cardinality(Q) <= Cardinality(P) + 1
  <2>1. IsFiniteSet(P \cup {r}) /\ Cardinality(P \cup {r}) \in {Cardinality(P), Cardinality(P) + 1}
    BY <1>1, FS_AddElement
  <2>2. Q \subseteq P \cup {r} => Cardinality(Q) <= Cardinality(P \cup {r})
    BY <2>1, FS_Subset
  <2> QED
    BY <1>1, <2>1, <2>2
<1>3. CASE Spends(r, U, P, n, V, Q, m)
  <2>1. PICK a \in U : V = U \ {a} /\ Q \subseteq P \cup {r} /\ m = n
    BY <1>3 DEF Spends
  <2>2. Cardinality(V) = Cardinality(U) - 1
    BY <1>1, <2>1, FS_RemoveElement
  <2> QED
    BY <1>1, <1>2, <2>1, <2>2
<1>4. CASE SpendsLate(r, U, P, n, V, Q, m)
  BY <1>1, <1>2, <1>4 DEF SpendsLate
<1>5. CASE Renews(r, U, P, n, V, Q, m)
  <2>1. r \in P /\ Q = P \ {r} /\ V = U \cup {r} /\ m = n
    BY <1>5 DEF Renews
  <2>2. Cardinality(Q) = Cardinality(P) - 1
    BY <1>1, <2>1, FS_RemoveElement
  <2>3. Cardinality(V) \in {Cardinality(U), Cardinality(U) + 1}
    BY <1>1, <2>1, FS_AddElement
  <2> QED
    BY <1>1, <2>1, <2>2, <2>3
<1>6. CASE Opens(r, U, P, n, V, Q, m)
  BY <1>6, FS_EmptySet, FS_Singleton DEF Opens
<1>7. CASE Leaves(U, P, n, V, Q, m)
  <2>1. Cardinality(V) <= Cardinality(U) /\ Cardinality(Q) <= Cardinality(P)
    BY <1>1, <1>7, FS_Subset DEF Leaves
  <2> QED
    BY <1>1, <1>7, <2>1 DEF Leaves
<1> QED
  BY <1>3, <1>4, <1>5, <1>6, <1>7

\* What the steps of a request do to a chain.
LEMMA Rotates ==
  ASSUME BaseInv, TokensInv, ChainsInv, NEW r \in Ids, RequestStep(r), NEW c \in Ids
  PROVE  LET U == Unspent(c)
             P == Pending(c)
             V == Unspent(c)'
             Q == Pending(c)'
         IN  \/ /\ c = req[r].chain /\ (Is(r, "refresh") \/ Is(r, "logout"))
                /\ \/ Spends(r, U, P, late[c], V, Q, late'[c])
                   \/ SpendsLate(r, U, P, late[c], V, Q, late'[c])
             \/ Renews(r, U, P, late[c], V, Q, late'[c])
             \/ c = r /\ ~Rooted(c) /\ Opens(r, U, P, late[c], V, Q, late'[c])
             \/ ~DeleteToken(r) /\ Leaves(U, P, late[c], V, Q, late'[c])
             \/ c # req[r].chain /\ Leaves(U, P, late[c], V, Q, late'[c])
<1>0. /\ RequestsType /\ TokensType /\ TokensKnown /\ Numbered /\ clock \in Nat
      /\ DeletedDead /\ IssuedOnce
      /\ \A t, e \in Ids : tokens[t] # None /\ tokens[t].chain = e => Rooted(e)
      /\ \A q \in Ids : ChainFits(q)
  BY DEF BaseInv, TokensInv, ChainsInv
<1>n. None \notin Request /\ None \notin Nat /\ None \notin Token
  BY Constants
<1>1. Moved(r)
  BY <1>0, Moves
<1>2. /\ req[r] \in Request /\ req[r] # None /\ req'[r] # None /\ req[r].status = None
      /\ req'[r].op = req[r].op /\ req'[r].chain = req[r].chain
      /\ req[r].pc \in Nat \ {0} /\ req'[r].pc \in Nat
      /\ \A q \in Ids : q # r => req'[q] = req[q]
      /\ req'[r].status = None => Midway(r) /\ req'[r].pc = req[r].pc + 1
  <2>1. SuccessOf(req[r].op) \in Nat
    BY DEF SuccessOf
  <2> QED
    BY <1>n, <1>1, <2>1 DEF Moved, Request, Refusals
<1>3. \A q \in Ids : q # r => (q \in Pending(c)' <=> q \in Pending(c))
  BY <1>2 DEF Pending, Is
<1>4. r \in Pending(c)' => Is(r, "refresh") /\ req[r].pc = 4 /\ Midway(r) /\ c = req[r].chain
  BY <1>2 DEF Pending, Is
<1>5. r \in Pending(c)' => DeleteToken(r)
  <2> SUFFICES ASSUME r \in Pending(c)' PROVE DeleteToken(r)
    OBVIOUS
  <2>1. PICK s : StepTable(req[r].op, req[r].pc, s) /\ (s = "delete" => DeleteToken(r))
    BY <1>0, <1>2, <1>4, StepTaken
  <2> QED
    BY <1>4, <2>1 DEF StepTable, Uploads, Is
<1>6. Pending(c) \subseteq Ids /\ Pending(c)' \subseteq Ids
  BY DEF Pending
<1>7. CASE DeleteToken(r)
  <2> DEFINE a == req[r].arg
             v == [tokens[a] EXCEPT !.expires = 0]
             d == req[r].chain
  <2>1. /\ At(r, "delete") /\ tokens' = [tokens EXCEPT ![a] = v] /\ deletes' = [deletes EXCEPT ![a] = @ + 1]
        /\ late' = IF deletes[a] = 0 THEN late ELSE [late EXCEPT ![tokens[a].chain] = @ + 1]
    BY <1>7 DEF DeleteToken, delete, Without
  <2>2. Is(r, "refresh") \/ Is(r, "logout")
    BY <1>0, <2>1, AtTable DEF StepTable, Uploads, Is
  <2>3. a \in Ids /\ tokens[a] # None /\ tokens[a] \in Token /\ tokens[a].chain = d /\ d \in Ids
    BY <1>0, <1>2, <2>2 DEF TokensKnown, TokensType, Is, ChainFits, Request
  <2>4. v \in Token /\ v # None /\ v.chain = d
    BY <1>n, <2>3 DEF Token
  <2> HIDE DEF v, a, d
  <2>5. /\ tokens'[a] = v /\ deletes'[a] = deletes[a] + 1 /\ deletes[a] \in Nat
        /\ \A t \in Ids : t # a => tokens'[t] = tokens[t] /\ deletes'[t] = deletes[t]
    BY <1>0, <2>1, <2>3 DEF TokensType
  <2>6. deletes'[a] # 0
    BY <2>5
  <2>7. CASE c # d
    <3>1. Unspent(c)' \subseteq Unspent(c)
      BY <2>4, <2>5, <2>7 DEF Unspent
    <3>2. Pending(c)' \subseteq Pending(c)
      BY <1>3, <1>4, <1>6, <2>7 DEF d
    <3>3. late'[c] = late[c]
      BY <1>0, <2>1, <2>3, <2>7 DEF TokensType
    <3> QED
      BY <2>7, <3>1, <3>2, <3>3 DEF Leaves, d
  <2>8. CASE c = d /\ deletes[a] = 0
    <3>1. a \in Unspent(c)
      BY <2>3, <2>8 DEF Unspent
    <3>2. Unspent(c)' = Unspent(c) \ {a}
      BY <2>4, <2>5, <2>6, <2>8 DEF Unspent
    <3>3. Pending(c)' \subseteq Pending(c) \cup {r}
      BY <1>3, <1>6
    <3>4. late'[c] = late[c]
      BY <2>1, <2>8
    <3> QED
      BY <2>2, <2>8, <3>1, <3>2, <3>3, <3>4 DEF Spends, d
  <2>9. CASE c = d /\ deletes[a] # 0
    <3>1. Unspent(c)' = Unspent(c)
      BY <2>4, <2>5, <2>6, <2>9 DEF Unspent
    <3>2. Pending(c)' \subseteq Pending(c) \cup {r}
      BY <1>3, <1>6
    <3>3. late'[c] = late[c] + 1
      BY <1>0, <2>1, <2>3, <2>9 DEF TokensType
    <3> QED
      BY <2>2, <2>9, <3>1, <3>2, <3>3 DEF SpendsLate, d
  <2> QED
    BY <2>7, <2>8, <2>9
<1>8. CASE SaveToken(r)
  <2> DEFINE v == [user |-> req[r].user, expires |-> clock + RefreshLife, chain |-> req[r].chain]
  <2>1. At(r, "save_token") /\ Advance(r) /\ tokens' = [tokens EXCEPT ![r] = v] /\ UNCHANGED <<deletes, late>>
    BY <1>8 DEF SaveToken, save
  <2>2. (Is(r, "login") /\ req[r].pc = 3) \/ (Is(r, "refresh") /\ req[r].pc = 5)
    BY <1>0, <2>1, AtTable DEF StepTable, Uploads, Is
  <2>3. tokens[r] = None /\ r # 0
    <3>1. r # 0
      BY <1>0, <2>2, Constants DEF Numbered, Ids, Is
    <3> QED
      BY <1>0, <2>2, <3>1 DEF IssuedOnce, Is
  <2>4. deletes[r] = 0
    BY <1>0, <2>3 DEF DeletedDead, TokensType
  <2>5. v # None /\ v.chain = req[r].chain
    <3>1. v \in Token
      BY <1>0, <1>2, Constants DEF Token, Request
    <3> QED
      BY <1>n, <3>1
  <2>6. ~DeleteToken(r)
    BY <2>1 DEF DeleteToken, At
  <2> HIDE DEF v
  <2>7. tokens'[r] = v /\ \A t \in Ids : t # r => tokens'[t] = tokens[t]
    BY <1>0, <2>1 DEF TokensType
  <2>8. r \notin Pending(c)'
    BY <1>5, <2>6
  <2>9. late'[c] = late[c]
    BY <2>1
  <2>10. CASE c # req[r].chain
    <3>1. Unspent(c)' \subseteq Unspent(c)
      BY <2>1, <2>5, <2>7, <2>10 DEF Unspent
    <3>2. Pending(c)' \subseteq Pending(c)
      BY <1>3, <1>6, <2>8
    <3> QED
      BY <2>9, <2>10, <3>1, <3>2 DEF Leaves
  <2>11. c = req[r].chain => Unspent(c)' = Unspent(c) \cup {r}
    BY <2>1, <2>3, <2>4, <2>5, <2>7 DEF Unspent
  <2>12. CASE c = req[r].chain /\ Is(r, "refresh") /\ req[r].pc = 5
    <3>1. r \in Pending(c)
      BY <1>2, <2>12 DEF Pending
    <3>2. Pending(c)' = Pending(c) \ {r}
      BY <1>3, <1>6, <2>8
    <3> QED
      BY <2>9, <2>11, <2>12, <3>1, <3>2 DEF Renews
  <2>13. CASE c = req[r].chain /\ Is(r, "login") /\ req[r].pc = 3
    <3>1. c = r
      BY <1>0, <2>13 DEF ChainFits
    <3>2. ~Rooted(c)
      BY <2>3, <2>13, <3>1 DEF Rooted
    <3>3. Unspent(c) = {}
      BY <1>0, <3>2 DEF Unspent
    <3>4. Pending(c) = {}
      BY <1>0, <3>2 DEF Pending, ChainFits, TokensKnown, Is
    <3>5. Unspent(c)' = {r}
      BY <2>11, <2>13, <3>3
    <3>6. Pending(c)' = {}
      BY <1>3, <1>6, <2>8, <3>4
    <3> QED
      BY <2>9, <3>1, <3>2, <3>3, <3>4, <3>5, <3>6 DEF Opens
  <2> QED
    BY <2>2, <2>10, <2>12, <2>13
<1>9. CASE ~DeleteToken(r) /\ ~SaveToken(r)
  <2>1. UNCHANGED <<tokens, deletes, late>>
    BY <1>9, Touches DEF tokenVars
  <2>2. Pending(c)' \subseteq Pending(c)
    BY <1>3, <1>5, <1>6, <1>9
  <2>3. Unspent(c)' = Unspent(c)
    BY <2>1 DEF Unspent
  <2> QED
    BY <1>9, <2>1, <2>2, <2>3 DEF Leaves
<1> QED
  BY <1>7, <1>8, <1>9

\* A token keeps its chain, and a new one has that of the request that stores it.
LEMMA ChainsOfTokens ==
  ASSUME BaseInv, TokensInv, NEW r \in Ids, RequestStep(r)
  PROVE  \A t \in Ids :
           /\ tokens[t] # None => tokens'[t].chain = tokens[t].chain
           /\ tokens[t] = None /\ tokens'[t] # None => t = r /\ tokens'[t].chain = req[r].chain
<1>0. RequestsType /\ TokensType /\ TokensKnown /\ clock \in Nat /\ Numbered /\ IssuedOnce
  BY DEF BaseInv, TokensInv
<1>1. CASE DeleteToken(r)
  <2> DEFINE a == req[r].arg
             v == [tokens[a] EXCEPT !.expires = 0]
  <2>1. At(r, "delete") /\ tokens' = [tokens EXCEPT ![a] = v]
    BY <1>1 DEF DeleteToken, delete, Without
  <2>2. req[r].op \in {"refresh", "logout"} /\ req[r] # None
    BY <1>0, <2>1, AtTable DEF StepTable, Uploads
  <2>3. a \in Ids /\ tokens[a] # None /\ tokens[a] \in Token
    BY <1>0, <2>2 DEF TokensKnown, TokensType
  <2>4. v.chain = tokens[a].chain
    BY <2>3 DEF Token
  <2> HIDE DEF v, a
  <2> QED
    BY <1>0, <2>1, <2>3, <2>4 DEF TokensType
<1>2. CASE SaveToken(r)
  <2> DEFINE v == [user |-> req[r].user, expires |-> clock + RefreshLife, chain |-> req[r].chain]
  <2>1. At(r, "save_token") /\ tokens' = [tokens EXCEPT ![r] = v]
    BY <1>2 DEF SaveToken, save
  <2>2. (Is(r, "login") /\ req[r].pc = 3) \/ (Is(r, "refresh") /\ req[r].pc = 5)
    BY <1>0, <2>1, AtTable DEF StepTable, Uploads, Is
  <2>3. tokens[r] = None
    <3>1. r # 0
      BY <1>0, <2>2, Constants DEF Numbered, Ids, Is
    <3> QED
      BY <1>0, <2>2, <3>1 DEF IssuedOnce, Is
  <2>4. v.chain = req[r].chain
    OBVIOUS
  <2> HIDE DEF v
  <2> QED
    BY <1>0, <2>1, <2>3, <2>4 DEF TokensType
<1>3. CASE UNCHANGED tokenVars
  BY <1>3 DEF tokenVars
<1> QED
  BY <1>1, <1>2, <1>3, Touches

\* ChainsInv is inductive.
LEMMA ChainsStep == BaseInv /\ TokensInv /\ ChainsInv /\ [Next]_vars => ChainsInv'
<1> SUFFICES ASSUME BaseInv, TokensInv, ChainsInv, [Next]_vars PROVE ChainsInv'
  OBVIOUS
<1>0. /\ RequestsType /\ TokensType /\ TokensKnown /\ clock \in Nat
      /\ \A t, c \in Ids : tokens[t] # None /\ tokens[t].chain = c => Rooted(c)
      /\ \A q \in Ids : ChainFits(q) /\ LogsOut(q)
      /\ \A c \in Ids : Balanced(c)
  BY DEF BaseInv, ChainsInv
<1>n. None \notin Request /\ None \notin Nat /\ None \notin Token
  BY Constants
<1>u. \A c : Unspent(c) \in SUBSET Ids /\ Pending(c) \in SUBSET Ids
             /\ Unspent(c)' \in SUBSET Ids /\ Pending(c)' \in SUBSET Ids
  BY DEF Unspent, Pending
\* Steps that leave the tokens alone.
<1>q. ASSUME UNCHANGED <<tokens, deletes, late>>, NEW r \in Ids,
             \A q \in Ids : q # r => req'[q] = req[q],
             \A c \in Ids : Rooted(c) => Rooted(c)',
             \A c \in Ids : Pending(c)' \subseteq Pending(c),
             ChainFits(r)', LogsOut(r)'
      PROVE  ChainsInv'
  <2>1. \A c \in Ids : Unspent(c)' = Unspent(c)
    BY <1>q DEF Unspent
  <2>2. ASSUME NEW c \in Ids PROVE Balanced(c)'
    <3>1. Leaves(Unspent(c), Pending(c), late[c], Unspent(c)', Pending(c)', late'[c])
      BY <1>q, <2>1 DEF Leaves
    <3>2. late[c] \in Nat /\ late'[c] \in Nat
      BY <1>0, <1>q DEF TokensType
    <3>3. Cardinality(Unspent(c)) + Cardinality(Pending(c)) <= 1 + late[c]
      BY <1>0 DEF Balanced
    <3> HIDE DEF Unspent, Pending
    <3>4. Cardinality(Unspent(c)') + Cardinality(Pending(c)') <= 1 + late'[c]
      BY <1>u, <3>1, <3>2, <3>3, BalanceKept
    <3> QED
      BY <3>4 DEF Balanced
  <2>3. \A t, c \in Ids : tokens'[t] # None /\ tokens'[t].chain = c => Rooted(c)'
    BY <1>0, <1>q
  <2>4. ASSUME NEW q \in Ids, q # r PROVE ChainFits(q)' /\ LogsOut(q)'
    <3>1. req'[q] = req[q]
      BY <1>q, <2>4
    <3>2. ChainFits(q)'
      BY <1>0, <1>q, <3>1 DEF ChainFits, Is
    <3>3. LogsOut(q)'
      <4> SUFFICES ASSUME Is(q, "logout"), NEW c \in Ids, req[q].chain = c, req[q].pc >= 2,
                          late[c] = 0
                   PROVE  Unspent(c)' = {} /\ Pending(c)' = {}
        BY <1>0, <1>q, <3>1 DEF LogsOut, Is
      <4>1. Unspent(c) = {} /\ Pending(c) = {}
        BY <1>0 DEF LogsOut
      <4> QED
        BY <1>q, <2>1, <4>1
    <3> QED
      BY <3>2, <3>3
  <2> QED
    BY <1>q, <2>2, <2>3, <2>4 DEF ChainsInv
<1>1. ASSUME NEW op \in suite.ops, NEW u \in suite.users, NEW a \in Arguments(op), Start(op, u, a)
      PROVE  ChainsInv'
  <2> DEFINE n == started + 1
  <2>0. /\ n \in Ids /\ req[n] = None /\ req'[n] \in Request
        /\ \A q \in Ids : q # n => req'[q] = req[q]
        /\ req'[n].op = op /\ req'[n].arg = a /\ req'[n].pc = 1 /\ req'[n].status = None
        /\ req'[n].chain = (IF op \in {"refresh", "logout"} THEN tokens[a].chain ELSE n)
        /\ UNCHANGED tokenVars
    BY <1>1, Starts
  <2> HIDE DEF n
  <2>1. PICK r \in Ids :
           /\ req[r] = None /\ req'[r] \in Request
           /\ \A q \in Ids : q # r => req'[q] = req[q]
           /\ req'[r].op = op /\ req'[r].arg = a /\ req'[r].pc = 1 /\ req'[r].status = None
           /\ req'[r].chain = (IF op \in {"refresh", "logout"} THEN tokens[a].chain ELSE r)
           /\ UNCHANGED tokenVars
    BY <2>0
  <2>2. UNCHANGED <<tokens, deletes, late>>
    BY <2>1 DEF tokenVars
  <2>3. \A c \in Ids : Pending(c)' \subseteq Pending(c)
    BY <2>1 DEF Pending, Is
  <2>4. \A c \in Ids : Rooted(c) => Rooted(c)'
    BY <2>1 DEF Rooted, Is
  <2>5. ChainFits(r)' /\ LogsOut(r)'
    BY <1>n, <2>1, <2>2 DEF ChainFits, LogsOut, Is
  <2> QED
    BY <1>q, <2>1, <2>2, <2>3, <2>4, <2>5
<1>2. ASSUME NEW r \in Ids, RequestStep(r) PROVE ChainsInv'
  <2>1. /\ req[r] \in Request /\ req'[r] \in Request /\ req'[r].op = req[r].op
        /\ req[r] # None /\ req'[r] # None
        /\ req[r].status = None /\ req'[r].chain = req[r].chain /\ req'[r].arg = req[r].arg
        /\ \A q \in Ids : q # r => req'[q] = req[q]
        /\ req'[r].pc = req[r].pc \/ req'[r].pc = req[r].pc + 1
        /\ \/ Midway(r) /\ req'[r].pc = req[r].pc + 1 /\ req'[r].status = None
           \/ req'[r].pc = req[r].pc /\ req'[r].status \in Refusals \cup {429}
           \/ Through(r) /\ req'[r].pc = req[r].pc
    BY <1>0, <1>n, <1>2, Moves DEF Moved
  <2>2. req[r].pc \in Nat \ {0} /\ req[r].chain \in Ids
    BY <2>1 DEF Request
  <2>3. ASSUME NEW c \in Ids, Rooted(c) PROVE Rooted(c)'
    BY <2>1, <2>2, <2>3 DEF Rooted, Is
  <2>4. \A t \in Ids :
           /\ tokens[t] # None => tokens'[t].chain = tokens[t].chain
           /\ tokens[t] = None /\ tokens'[t] # None => t = r /\ tokens'[t].chain = req[r].chain
    BY <1>2, ChainsOfTokens
  <2>5. \A t \in Ids : tokens[t] = None /\ tokens'[t] # None =>
           (Is(r, "login") /\ req'[r].pc = 4) \/ Is(r, "refresh")
    BY <1>2, RequestTokens
  <2>6. ASSUME NEW t \in Ids, NEW c \in Ids, tokens'[t] # None, tokens'[t].chain = c PROVE Rooted(c)'
    <3>1. CASE tokens[t] # None
      BY <1>0, <2>3, <2>4, <2>6, <3>1
    <3>2. CASE tokens[t] = None /\ Is(r, "login") /\ req'[r].pc = 4
      <4>1. c = r
        BY <1>0, <2>4, <2>6, <3>2 DEF ChainFits
      <4> QED
        BY <2>1, <3>2, <4>1 DEF Rooted, Is
    <3>3. CASE tokens[t] = None /\ Is(r, "refresh")
      <4>1. req[r].arg \in Ids /\ tokens[req[r].arg] # None /\ tokens[req[r].arg].chain = c
        BY <1>0, <2>4, <2>6, <3>3 DEF ChainFits, TokensKnown, Is
      <4> QED
        BY <1>0, <2>3, <4>1
    <3> QED
      BY <2>5, <2>6, <3>1, <3>2, <3>3
  <2>7. ASSUME NEW q \in Ids PROVE ChainFits(q)'
    <3>1. /\ Is(q, "login") <=> Is(q, "login")'
          /\ Is(q, "refresh") <=> Is(q, "refresh")'
          /\ Is(q, "logout") <=> Is(q, "logout")'
          /\ req'[q].chain = req[q].chain /\ req'[q].arg = req[q].arg
      BY <2>1 DEF Is
    <3>2. Is(q, "refresh") \/ Is(q, "logout") => req[q].arg \in Ids /\ tokens[req[q].arg] # None
      BY <1>0 DEF TokensKnown, Is
    <3>3. ChainFits(q)
      BY <1>0
    <3> QED
      BY <2>4, <3>1, <3>2, <3>3 DEF ChainFits
  <2>8. TokensType'
    BY <1>2, TokensStep
  <2>9. ASSUME NEW c \in Ids PROVE Balanced(c)'
    <3>1. late[c] \in Nat /\ late'[c] \in Nat
      BY <1>0, <2>8 DEF TokensType
    <3>2. Cardinality(Unspent(c)) + Cardinality(Pending(c)) <= 1 + late[c]
      BY <1>0 DEF Balanced
    <3>3. Cardinality(Unspent(c)') + Cardinality(Pending(c)') <= 1 + late'[c]
      BY <1>2, <1>u, <3>1, <3>2, Rotates, BalanceKept
    <3> QED
      BY <3>3 DEF Balanced
  <2>10. ASSUME NEW q \in Ids, Is(q, "logout"), NEW c \in Ids, req[q].chain = c, req'[q].pc >= 2,
                late'[c] = 0
         PROVE  Unspent(c)' = {} /\ Pending(c)' = {}
    <3>1. late[c] \in Nat
      BY <1>0 DEF TokensType
    <3>2. Rooted(c)
      BY <1>0, <2>10 DEF ChainFits, TokensKnown, Is
    \* It had deleted its token before.
    <3>3. CASE req[q].pc >= 2
      <4>1. late[c] = 0 => Unspent(c) = {} /\ Pending(c) = {}
        BY <1>0, <2>10, <3>3 DEF LogsOut
      <4> QED
        BY <1>2, <2>10, <3>1, <3>2, <4>1, Rotates DEF Spends, SpendsLate, Renews, Opens, Leaves
    \* It deletes it now.
    <3>4. CASE ~(req[q].pc >= 2)
      <4>1. q = r /\ req[r].pc = 1 /\ Midway(r)
        BY <2>1, <2>2, <2>10, <3>4, Lengths DEF Is, Through, Midway
      <4>2. DeleteToken(r)
        <5>1. PICK s : StepTable(req[r].op, req[r].pc, s) /\ (s = "delete" => DeleteToken(r))
          BY <1>0, <1>2, <2>1, <4>1, StepTaken
        <5> QED
          BY <2>10, <4>1, <5>1 DEF StepTable, Uploads, Is
      <4>3. ~Rooted(c) => FALSE
        BY <3>2
      <4>4. r \notin Pending(c) /\ r \notin Pending(c)'
        BY <2>1, <2>10, <4>1 DEF Pending, Is
      <4>5. Spends(r, Unspent(c), Pending(c), late[c], Unspent(c)', Pending(c)', late'[c])
        BY <1>2, <2>10, <3>1, <3>2, <4>1, <4>2, <4>4, Rotates DEF SpendsLate, Renews
      <4>6. PICK a \in Unspent(c) : Unspent(c)' = Unspent(c) \ {a} /\ Pending(c)' \subseteq Pending(c) \cup {r}
        BY <4>5 DEF Spends
      <4>7. late[c] = 0
        BY <2>10, <4>5 DEF Spends
      <4>8. Cardinality(Unspent(c)) + Cardinality(Pending(c)) <= 1
        BY <1>0, <4>7 DEF Balanced
      <4>9. /\ IsFiniteSet(Unspent(c)) /\ Cardinality(Unspent(c)) \in Nat
            /\ IsFiniteSet(Pending(c)) /\ Cardinality(Pending(c)) \in Nat
        BY <1>u, IdsFinite
      <4>10. Cardinality(Unspent(c)) # 0
        BY <4>6, <4>9, FS_EmptySet
      <4>11. Cardinality(Pending(c)) = 0 /\ Cardinality(Unspent(c)) = 1
        BY <4>8, <4>9, <4>10
      <4>12. Pending(c) = {} /\ Unspent(c) = {a}
        BY <4>6, <4>9, <4>11, FS_EmptySet, FS_Singleton
      <4> QED
        BY <4>4, <4>6, <4>12
    <3> QED
      BY <3>3, <3>4
  <2>11. ASSUME NEW q \in Ids PROVE LogsOut(q)'
    <3>1. /\ Is(q, "logout") <=> Is(q, "logout")'
          /\ req'[q].chain = req[q].chain
      BY <2>1 DEF Is
    <3>2. Is(q, "logout") /\ req'[q].status = 204 => req'[q].pc >= 2
      <4>1. CASE q = r
        <5>1. 204 \notin Refusals \cup {429} /\ 204 # None
          BY <1>n DEF Refusals
        <5>2. CASE Is(r, "logout") /\ Through(r) /\ req'[r].pc = req[r].pc
          BY <2>2, <4>1, <5>2, Lengths DEF Is, Through
        <5> QED
          BY <2>1, <2>2, <4>1, <5>1, <5>2
      <4>2. CASE q # r
        BY <1>0, <2>1, <4>2 DEF LogsOut
      <4> QED
        BY <4>1, <4>2
    <3> QED
      BY <2>10, <3>1, <3>2 DEF LogsOut
  <2> QED
    BY <2>6, <2>7, <2>9, <2>11 DEF ChainsInv
<1>3. ASSUME NEW r \in Ids, RequestFault(r) PROVE ChainsInv'
  <2>1. EndedAs(r, 500) /\ req[r] \in Request /\ req[r].status = None
    BY <1>0, <1>3, FaultEnds
  <2>2. UNCHANGED <<tokens, deletes, late>>
    BY <1>3 DEF RequestFault, tokenVars
  <2>3. /\ req'[r].op = req[r].op /\ req'[r].arg = req[r].arg /\ req'[r].chain = req[r].chain
        /\ req'[r].pc = req[r].pc /\ req'[r].status = 500 /\ req[r] # None /\ req'[r] # None
        /\ \A q \in Ids : q # r => req'[q] = req[q]
    BY <1>n, <2>1 DEF EndedAs
  <2>4. \A c \in Ids : Pending(c)' \subseteq Pending(c)
    BY <1>n, <2>3 DEF Pending, Is
  <2>5. \A c \in Ids : Rooted(c) => Rooted(c)'
    BY <2>3 DEF Rooted, Is
  <2>6. \A c \in Ids : Unspent(c)' = Unspent(c)
    BY <2>2 DEF Unspent
  <2>7. ChainFits(r)'
    BY <1>0, <2>2, <2>3 DEF ChainFits, Is
  <2>8. LogsOut(r)'
    <3>1. LogsOut(r)
      BY <1>0
    <3>2. Is(r, "logout")' <=> Is(r, "logout")
      BY <2>3 DEF Is
    <3> QED
      BY <2>2, <2>3, <2>4, <2>6, <3>1, <3>2 DEF LogsOut
  <2> QED
    BY <1>q, <2>2, <2>3, <2>4, <2>5, <2>7, <2>8
<1>4. ASSUME UNCHANGED <<req, tokenVars>> PROVE ChainsInv'
  <2>1. UNCHANGED <<req, tokens, deletes, late>>
    BY <1>4 DEF tokenVars
  <2>2. \A c \in Ids : Unspent(c)' = Unspent(c) /\ Pending(c)' = Pending(c)
                       /\ (Rooted(c)' <=> Rooted(c))
    BY <2>1 DEF Unspent, Pending, Rooted, Is
  <2>3. \A c \in Ids : Balanced(c)'
    BY <1>0, <2>1, <2>2 DEF Balanced
  <2>4. \A q \in Ids : ChainFits(q)' /\ LogsOut(q)'
    <3>1. ASSUME NEW q \in Ids PROVE ChainFits(q)' /\ LogsOut(q)'
      <4>1. ChainFits(q) /\ LogsOut(q)
        BY <1>0
      <4>2. ChainFits(q)'
        BY <2>1, <4>1 DEF ChainFits, Is
      <4>3. LogsOut(q)'
        BY <2>1, <2>2, <4>1 DEF LogsOut, Is
      <4> QED
        BY <4>2, <4>3
    <3> QED
      BY <3>1
  <2> QED
    BY <1>0, <2>1, <2>2, <2>3, <2>4 DEF ChainsInv
<1> QED
  BY <1>1, <1>2, <1>3, <1>4, Kinds

-----------------------------------------------------------------------------
(* Rate limits. *)

\* The entries of s that are not older than the window of w ticks that ends with e.
Lately(s, w, e) == {i \in DOMAIN s : s[i] + w >= e}

\* The entries of s in the w ticks up to t.
Within(s, w, t) == {i \in DOMAIN s : s[i] <= t /\ s[i] + w > t}

\* Positions of a sequence are finitely many.
LEMMA PositionsFinite ==
  ASSUME NEW s \in Seq(Nat), NEW T \in SUBSET DOMAIN s
  PROVE  IsFiniteSet(T) /\ Cardinality(T) \in Nat
<1>1. DOMAIN s = 1..Len(s) /\ Len(s) \in Int
  OBVIOUS
<1>2. IsFiniteSet(DOMAIN s)
  BY <1>1, FS_Interval
<1> QED
  BY <1>2, FS_Subset, FS_CardinalityType

\* One more entry, in the window, is one more entry of the window.
LEMMA OneMoreLately ==
  ASSUME NEW s \in Seq(Nat), NEW w \in Nat, NEW e \in Nat, NEW p \in Nat, p + w >= e
  PROVE  Cardinality(Lately(Append(s, p), w, e)) = Cardinality(Lately(s, w, e)) + 1
<1> DEFINE n == Len(s) + 1
<1>1. /\ DOMAIN s = 1..Len(s) /\ DOMAIN Append(s, p) = 1..n /\ Append(s, p)[n] = p
      /\ \A i \in DOMAIN s : Append(s, p)[i] = s[i]
  OBVIOUS
<1>2. Len(s) \in Nat /\ n \notin DOMAIN s /\ 1..n = (1..Len(s)) \cup {n}
  BY <1>1
<1> HIDE DEF n
<1>3. Lately(Append(s, p), w, e) = Lately(s, w, e) \cup {n}
  BY <1>1, <1>2 DEF Lately
<1>4. n \notin Lately(s, w, e)
  BY <1>2 DEF Lately
<1>5. IsFiniteSet(Lately(s, w, e))
  BY PositionsFinite DEF Lately
<1> QED
  BY <1>3, <1>4, <1>5, FS_AddElement

\* One more entry takes none of the others out of a window.
LEMMA WithinGrows ==
  ASSUME NEW s \in Seq(Nat), NEW w \in Nat, NEW t \in Nat, NEW p \in Nat
  PROVE  Cardinality(Within(s, w, t)) <= Cardinality(Within(Append(s, p), w, t))
<1>1. /\ Append(s, p) \in Seq(Nat) /\ DOMAIN s \subseteq DOMAIN Append(s, p)
      /\ \A i \in DOMAIN s : Append(s, p)[i] = s[i]
  OBVIOUS
<1>2. Within(s, w, t) \subseteq Within(Append(s, p), w, t)
  BY <1>1 DEF Within
<1>3. IsFiniteSet(Within(Append(s, p), w, t))
  BY <1>1, PositionsFinite DEF Within
<1> QED
  BY <1>2, <1>3, FS_Subset

LimiterType == /\ counters \in [LimitKeys -> Counter \cup {None}]
               /\ passes \in [LimitKeys -> Seq(Nat)]

\* The counter of a window and the calls that it let through.
Counts(c, s, w, limit, now) ==
  /\ \A i \in DOMAIN s : s[i] <= now
  /\ c = None => s = <<>>
  /\ c # None =>
       /\ c.expires <= now + w /\ \A i \in DOMAIN s : s[i] < c.expires
       /\ Cardinality(Lately(s, w, c.expires)) = IF c.count <= limit THEN c.count ELSE limit

\* A refusal that was justified: <<key, time>>, with the calls let through.
Justified(refused, ps) ==
  Cardinality(Within(ps[refused[1]], WindowOf(refused[1]), refused[2])) >= LimitOf(refused[1])

AllJustified ==
  \A q \in Ids : req[q] # None /\ req[q].refused # None => Justified(req[q].refused, passes)

LimitsInv ==
  /\ LimiterType
  /\ \A k \in LimitKeys : Counts(counters[k], passes[k], WindowOf(k), LimitOf(k), clock)
  /\ AllJustified

\* Limits and windows are positive.
LEMMA LimitsPositive ==
  ASSUME NEW k \in LimitKeys
  PROVE  LimitOf(k) \in Nat \ {0} /\ WindowOf(k) \in Nat \ {0}
  BY ApiAssumption DEF LimitOf, WindowOf

\* A call is counted: the counter still says what the window let through, and a call that is
\* refused comes when the window has let through as many as it may.
LEMMA Counting ==
  ASSUME NEW c \in Counter \cup {None}, NEW s \in Seq(Nat), NEW w \in Nat \ {0},
         NEW limit \in Nat \ {0}, NEW now \in Nat, Counts(c, s, w, limit, now),
         NEW e \in Counter,
         IF c # None /\ c.expires > now THEN e.count = c.count + 1 /\ e.expires = c.expires
                                        ELSE e.count = 1 /\ e.expires = now + w
  PROVE  IF e.count <= limit THEN Counts(e, Append(s, now), w, limit, now)
         ELSE Counts(e, s, w, limit, now) /\ Cardinality(Within(s, w, now)) >= limit
<1> DEFINE running == c # None /\ c.expires > now
<1>0. e # None /\ None \notin Counter
  BY LimiterAssumption
<1>1. /\ e.count \in Nat \ {0} /\ e.expires \in Nat
      /\ c # None => c.count \in Nat \ {0} /\ c.expires \in Nat
  BY DEF Counter
<1>2. /\ \A i \in DOMAIN s : s[i] \in Nat /\ s[i] <= now
      /\ Append(s, now) \in Seq(Nat) /\ DOMAIN Append(s, now) = DOMAIN s \cup {Len(s) + 1}
      /\ Append(s, now)[Len(s) + 1] = now /\ \A i \in DOMAIN s : Append(s, now)[i] = s[i]
  BY DEF Counts
<1>3. now < e.expires /\ e.expires <= now + w /\ \A i \in DOMAIN s : s[i] < e.expires
  BY <1>1, <1>2 DEF Counts
<1>4. Cardinality(Lately(s, w, e.expires)) = IF e.count - 1 <= limit THEN e.count - 1 ELSE limit
  <2>1. CASE running
    <3>0. e.expires = c.expires /\ e.count = c.count + 1
      BY <2>1
    <3>1. e.count - 1 = c.count
      BY <1>1, <2>1, <3>0
    <3>2. Cardinality(Lately(s, w, c.expires)) = IF c.count <= limit THEN c.count ELSE limit
      BY <2>1 DEF Counts
    <3> QED
      BY <3>0, <3>1, <3>2
  <2>2. CASE ~running
    <3>1. \A i \in DOMAIN s : s[i] < now
      BY <1>1, <1>2, <2>2 DEF Counts
    <3>2. Lately(s, w, now + w) = {}
      BY <1>2, <3>1 DEF Lately
    <3>3. e.expires = now + w /\ e.count - 1 = 0
      BY <2>2
    <3>4. Cardinality(Lately(s, w, e.expires)) = 0
      BY <3>2, <3>3, FS_EmptySet
    <3> QED
      BY <3>3, <3>4
  <2> QED
    BY <2>1, <2>2
<1>5. ASSUME e.count <= limit PROVE Counts(e, Append(s, now), w, limit, now)
  <2>1. Cardinality(Lately(Append(s, now), w, e.expires)) = e.count
    <3>1. Cardinality(Lately(s, w, e.expires)) = e.count - 1
      BY <1>1, <1>4, <1>5
    <3>2. now + w >= e.expires
      BY <1>1, <1>3
    <3> QED
      BY <1>1, <3>1, <3>2, OneMoreLately
  <2>2. \A i \in DOMAIN Append(s, now) : Append(s, now)[i] <= now /\ Append(s, now)[i] < e.expires
    BY <1>2, <1>3
  <2> QED
    BY <1>0, <1>3, <1>5, <2>1, <2>2 DEF Counts
<1>6. ASSUME ~(e.count <= limit)
      PROVE  Counts(e, s, w, limit, now) /\ Cardinality(Within(s, w, now)) >= limit
  <2>1. running
    BY <1>6
  <2>2. Cardinality(Lately(s, w, e.expires)) = limit
    BY <1>1, <1>4, <1>6
  <2>3. Counts(e, s, w, limit, now)
    BY <1>0, <1>2, <1>3, <1>6, <2>2 DEF Counts
  <2>4. Lately(s, w, e.expires) \subseteq Within(s, w, now)
    BY <1>1, <1>2, <1>3 DEF Lately, Within
  <2>5. IsFiniteSet(Within(s, w, now)) /\ Cardinality(Within(s, w, now)) \in Nat
    BY PositionsFinite DEF Within
  <2>6. Cardinality(Lately(s, w, e.expires)) <= Cardinality(Within(s, w, now))
    BY <2>4, <2>5, FS_Subset
  <2> QED
    BY <2>2, <2>3, <2>5, <2>6
<1> QED
  BY <1>5, <1>6

\* A call of the limiter counts for its key and for no other.
LEMMA LimiterCounts ==
  ASSUME LimitsInv, clock \in Nat, NEW k \in LimitKeys, NEW ok \in BOOLEAN,
         check(k, LimitOf(k), WindowOf(k), clock, ok)
  PROVE  /\ LimiterType'
         /\ \A j \in LimitKeys : Counts(counters'[j], passes'[j], WindowOf(j), LimitOf(j), clock)
         /\ passes' = IF ok THEN [passes EXCEPT ![k] = Append(passes[k], clock)] ELSE passes
         /\ ~ok => Justified(<<k, clock>>, passes)
<1> DEFINE e == Counted(k, WindowOf(k), clock)
           c == counters[k]
           s == passes[k]
<1>1. /\ ok = (e.count <= LimitOf(k)) /\ counters' = [counters EXCEPT ![k] = e]
      /\ passes' = IF ok THEN [passes EXCEPT ![k] = Append(s, clock)] ELSE passes
  BY DEF check, Allowed
<1>2. LimitOf(k) \in Nat \ {0} /\ WindowOf(k) \in Nat \ {0}
  BY LimitsPositive
<1>3. c \in Counter \cup {None} /\ s \in Seq(Nat)
      /\ Counts(c, s, WindowOf(k), LimitOf(k), clock) /\ LimiterType
  BY DEF LimitsInv, LimiterType
<1>4. /\ e \in Counter
      /\ IF c # None /\ c.expires > clock THEN e.count = c.count + 1 /\ e.expires = c.expires
                                          ELSE e.count = 1 /\ e.expires = clock + WindowOf(k)
  BY <1>2, <1>3 DEF Counted, Running, Counter
<1> HIDE DEF e, c, s
<1>5. IF e.count <= LimitOf(k) THEN Counts(e, Append(s, clock), WindowOf(k), LimitOf(k), clock)
      ELSE /\ Counts(e, s, WindowOf(k), LimitOf(k), clock)
           /\ Cardinality(Within(s, WindowOf(k), clock)) >= LimitOf(k)
  BY <1>2, <1>3, <1>4, Counting
<1>6. counters'[k] = e /\ passes'[k] = IF ok THEN Append(s, clock) ELSE s
  BY <1>1, <1>3 DEF LimiterType, s
<1>7. \A j \in LimitKeys : j # k => counters'[j] = counters[j] /\ passes'[j] = passes[j]
  BY <1>1, <1>3 DEF LimiterType
<1>8. LimiterType'
  BY <1>1, <1>3, <1>4 DEF LimiterType
<1>9. ASSUME NEW j \in LimitKeys PROVE Counts(counters'[j], passes'[j], WindowOf(j), LimitOf(j), clock)
  <2>1. CASE j = k
    BY <1>1, <1>5, <1>6, <2>1
  <2>2. CASE j # k
    BY <1>7, <2>2 DEF LimitsInv
  <2> QED
    BY <2>1, <2>2
<1>10. ~ok => Justified(<<k, clock>>, passes)
  BY <1>1, <1>5 DEF Justified, s
<1> QED
  BY <1>1, <1>8, <1>9, <1>10 DEF s

\* A refusal that was justified stays so.
LEMMA StillJustified ==
  ASSUME LimiterType, NEW refused \in LimitKeys \X Nat, NEW j \in LimitKeys, NEW now \in Nat,
         UNCHANGED passes \/ passes' = [passes EXCEPT ![j] = Append(passes[j], now)],
         Justified(refused, passes)
  PROVE  Justified(refused, passes')
<1> DEFINE k == refused[1]
           t == refused[2]
           before == Within(passes[k], WindowOf(k), t)
           after == Within(passes'[k], WindowOf(k), t)
<1>0. k \in LimitKeys /\ t \in Nat
  OBVIOUS
<1>1. LimitOf(k) \in Nat /\ WindowOf(k) \in Nat
  BY <1>0, LimitsPositive
<1>2. passes[k] \in Seq(Nat) /\ (passes'[k] = passes[k] \/ passes'[k] = Append(passes[k], now))
  BY <1>0 DEF LimiterType
<1>3. passes'[k] \in Seq(Nat)
  <2>1. \A s \in Seq(Nat) : Append(s, now) \in Seq(Nat)
    OBVIOUS
  <2> QED
    BY <1>2, <2>1
<1>4. Cardinality(before) \in Nat /\ Cardinality(after) \in Nat
  BY <1>2, <1>3, PositionsFinite DEF Within
<1> HIDE DEF k, t
<1>5. Cardinality(before) <= Cardinality(after)
  <2>1. CASE passes'[k] = passes[k]
    BY <1>4, <2>1
  <2>2. CASE passes'[k] = Append(passes[k], now)
    BY <1>0, <1>1, <1>2, <2>2, WithinGrows
  <2> QED
    BY <1>2, <2>1, <2>2
<1>6. Cardinality(before) >= LimitOf(k)
  BY DEF Justified, k, t
<1> HIDE DEF before, after
<1>7. Cardinality(after) >= LimitOf(k)
  BY <1>1, <1>4, <1>5, <1>6
<1> QED
  BY <1>7 DEF Justified, after, k, t

\* A step that refuses nobody keeps what a request was refused by.
LEMMA RefusedKept ==
  ASSUME RequestsType, NEW r \in Ids, req[r] \in Request,
         \/ Advance(r) \/ \E status : End(r, status) \/ \E u : TakeUser(r, u) \/ \E key : Ask(r, key)
  PROVE  req'[r].refused = req[r].refused
<1>1. CASE Advance(r)
  BY <1>1 DEF Advance, RequestsType, Request
<1>2. ASSUME NEW status, End(r, status) PROVE req'[r].refused = req[r].refused
  BY <1>2 DEF End, RequestsType, Request
<1>3. ASSUME NEW u, TakeUser(r, u) PROVE req'[r].refused = req[r].refused
  BY <1>3 DEF TakeUser, RequestsType, Request
<1>4. ASSUME NEW key, Ask(r, key) PROVE req'[r].refused = req[r].refused
  <2> DEFINE k == IF req[r].stash = None THEN key ELSE req[r].stash
             w == [req[r] EXCEPT !.pc = @ + 1]
             v == [w EXCEPT !.stash = k]
  <2>1. req' = [req EXCEPT ![r] = v]
    BY <1>4 DEF Ask, Request
  <2>2. v.refused = req[r].refused
    BY DEF Request
  <2> HIDE DEF v
  <2> QED
    BY <2>1, <2>2 DEF RequestsType
<1> QED
  BY <1>1, <1>2, <1>3, <1>4

\* LimitsInv is inductive.
LEMMA LimitsStep == BaseInv /\ HeadsInv /\ LimitsInv /\ [Next]_vars => LimitsInv'
<1> SUFFICES ASSUME BaseInv, HeadsInv, LimitsInv, [Next]_vars PROVE LimitsInv'
  OBVIOUS
<1>0. RequestsType /\ TokensType /\ TokensKnown /\ clock \in Nat /\ LimiterType /\ AllJustified
      /\ \A k \in LimitKeys : Counts(counters[k], passes[k], WindowOf(k), LimitOf(k), clock)
  BY DEF BaseInv, LimitsInv
<1>n. None \notin LimitKeys /\ None \notin Request /\ None \notin LimitKeys \X Nat
  BY Constants
\* The clock moves on.
<1>c. ASSUME NEW k \in LimitKeys, clock' = clock \/ clock' = clock + 1
      PROVE  Counts(counters[k], passes[k], WindowOf(k), LimitOf(k), clock')
  <2>1. /\ passes[k] \in Seq(Nat) /\ counters[k] \in Counter \cup {None}
        /\ Counts(counters[k], passes[k], WindowOf(k), LimitOf(k), clock)
    BY <1>0 DEF LimiterType
  <2>2. \A i \in DOMAIN passes[k] : passes[k][i] \in Nat
    BY <2>1
  <2>3. counters[k] # None => counters[k].expires \in Nat
    BY <2>1 DEF Counter
  <2>4. WindowOf(k) \in Nat /\ clock' \in Nat /\ clock <= clock'
    BY <1>0, <1>c, LimitsPositive
  <2>5. \A i \in DOMAIN passes[k] : passes[k][i] <= clock'
    BY <1>0, <2>1, <2>2, <2>4 DEF Counts
  <2>6. counters[k] # None => counters[k].expires <= clock' + WindowOf(k)
    BY <1>0, <2>1, <2>3, <2>4 DEF Counts
  <2> QED
    BY <2>1, <2>5, <2>6 DEF Counts
\* What was justified stays so, for the requests that keep their refusal.
<1>j. ASSUME NEW j \in LimitKeys, NEW now \in Nat,
             UNCHANGED passes \/ passes' = [passes EXCEPT ![j] = Append(passes[j], now)],
             NEW q \in Ids, req'[q] # None, req'[q].refused # None,
             req[q] # None /\ req'[q].refused = req[q].refused
      PROVE  Justified(req'[q].refused, passes')
  <2>1. req[q].refused \in LimitKeys \X Nat
    BY <1>0, <1>j DEF RequestsType, Request
  <2>2. Justified(req[q].refused, passes)
    BY <1>0, <1>j DEF AllJustified
  <2> QED
    BY <1>0, <1>j, <2>1, <2>2, StillJustified
<1>g. GlobalKey \in LimitKeys
  BY DEF GlobalKey, LimitKeys
<1>1. ASSUME NEW op \in suite.ops, NEW u \in suite.users, NEW a \in Arguments(op), Start(op, u, a)
      PROVE  LimitsInv'
  <2> DEFINE r == started + 1
  <2>1. /\ r \in Ids /\ \A q \in Ids : q # r => req'[q] = req[q]
        /\ req'[r].refused = None /\ UNCHANGED <<limiterVars, clock>>
    BY <1>1, Starts
  <2>2. UNCHANGED <<counters, passes, clock>>
    BY <2>1 DEF limiterVars
  <2> HIDE DEF r
  <2>3. AllJustified'
    BY <1>g, <1>0, <1>j, <2>1, <2>2 DEF AllJustified
  <2> QED
    BY <1>0, <2>2, <2>3 DEF LimitsInv, LimiterType
<1>2. ASSUME NEW r \in Ids, RequestStep(r), UNCHANGED clock PROVE LimitsInv'
  <2>1. /\ req[r] \in Request /\ req[r] # None /\ \A q \in Ids : q # r => req'[q] = req[q]
    BY <1>0, <1>n, <1>2, Moves DEF Moved
  <2>2. CASE Limit(r)
    <3>0. PICK key : \E ok \in BOOLEAN :
             /\ LimitAt(r, key) /\ check(key, LimitOf(key), WindowOf(key), clock, ok)
             /\ IF ok THEN Ask(r, key) ELSE Refuse(r, key)
      <4>1. At(r, "limit") => KeyOf(r) # GlobalKey
        <5> SUFFICES ASSUME At(r, "limit") PROVE KeyOf(r) # GlobalKey
          OBVIOUS
        <5>1. StepTable(req[r].op, req[r].pc, "limit")
          BY <1>0, AtTable
        <5>2. req[r].op \in {"login", "create_session", "answer", "ingest", "chat", "register"}
          BY <5>1 DEF StepTable, Uploads
        <5>3. LimitName[req[r].op] # "global"
          BY <5>2 DEF LimitName
        <5> QED
          BY <5>3 DEF KeyOf, GlobalKey
      <4>2. /\ At(r, "limit") => LimitOf(KeyOf(r)) = UserLimit /\ WindowOf(KeyOf(r)) = Window
            /\ LimitOf(GlobalKey) = GlobalLimit /\ WindowOf(GlobalKey) = GlobalWindow
        BY <4>1 DEF LimitOf, WindowOf
      <4>3. CASE At(r, "limit") /\ enforce_rate_limit(r, KeyOf(r), UserLimit, Window)
        <5>1. PICK ok \in BOOLEAN :
                /\ check(KeyOf(r), UserLimit, Window, clock, ok)
                /\ IF ok THEN Ask(r, KeyOf(r)) ELSE Refuse(r, KeyOf(r))
          BY <4>3 DEF enforce_rate_limit, Ask
        <5>2. LimitAt(r, KeyOf(r)) /\ LimitOf(KeyOf(r)) = UserLimit /\ WindowOf(KeyOf(r)) = Window
          BY <4>2, <4>3 DEF LimitAt
        <5>3. check(KeyOf(r), LimitOf(KeyOf(r)), WindowOf(KeyOf(r)), clock, ok)
          BY <5>1, <5>2
        <5> QED
          BY <5>1, <5>2, <5>3
      <4>4. CASE At(r, "global") /\ enforce_rate_limit(r, GlobalKey, GlobalLimit, GlobalWindow)
        <5>1. PICK ok \in BOOLEAN :
                /\ check(GlobalKey, GlobalLimit, GlobalWindow, clock, ok)
                /\ IF ok THEN Ask(r, GlobalKey) ELSE Refuse(r, GlobalKey)
          BY <4>4 DEF enforce_rate_limit, Ask
        <5>2. LimitAt(r, GlobalKey)
          BY <4>4 DEF LimitAt
        <5>3. check(GlobalKey, LimitOf(GlobalKey), WindowOf(GlobalKey), clock, ok)
          BY <4>2, <5>1
        <5> QED
          BY <5>1, <5>2, <5>3
      <4> QED
        BY <2>2, <4>3, <4>4 DEF Limit
    <3>1. PICK ok \in BOOLEAN :
             /\ LimitAt(r, key) /\ check(key, LimitOf(key), WindowOf(key), clock, ok)
             /\ IF ok THEN Ask(r, key) ELSE Refuse(r, key)
      BY <3>0
    <3>2. key \in LimitKeys
      BY <1>0, <3>1, KeysType
    <3>3. /\ LimiterType'
          /\ \A j \in LimitKeys : Counts(counters'[j], passes'[j], WindowOf(j), LimitOf(j), clock)
          /\ passes' = IF ok THEN [passes EXCEPT ![key] = Append(passes[key], clock)] ELSE passes
          /\ ~ok => Justified(<<key, clock>>, passes)
      BY <1>0, <3>1, <3>2, LimiterCounts
    <3>4. UNCHANGED passes \/ passes' = [passes EXCEPT ![key] = Append(passes[key], clock)]
      BY <3>3
    <3>5. ASSUME NEW q \in Ids, req'[q] # None, req'[q].refused # None
          PROVE  Justified(req'[q].refused, passes')
      <4>1. CASE q # r
        BY <1>0, <1>j, <2>1, <3>2, <3>4, <3>5, <4>1
      <4>2. CASE q = r /\ ok
        <5>1. req'[r].refused = req[r].refused
          BY <1>0, <2>1, <3>1, <4>2, RefusedKept
        <5> QED
          BY <1>0, <1>j, <2>1, <3>2, <3>4, <3>5, <4>2, <5>1
      <4>3. CASE q = r /\ ~ok
        <5>1. req'[r].refused = <<key, clock>>
          BY <1>0, <2>1, <3>1, <4>3 DEF Refuse, RequestsType, Request
        <5>2. passes' = passes
          BY <3>3, <4>3
        <5> QED
          BY <3>3, <4>3, <5>1, <5>2
      <4> QED
        BY <4>1, <4>2, <4>3
    <3>6. AllJustified'
      BY <3>5 DEF AllJustified
    <3> QED
      BY <1>2, <3>3, <3>6 DEF LimitsInv, WindowOf, LimitOf
  <2>3. CASE ~Limit(r)
    <3>1. UNCHANGED <<counters, passes>>
      BY <1>2, <2>3, Touches DEF limiterVars
    <3>2. \/ Advance(r) \/ \E status : End(r, status) \/ \E u : TakeUser(r, u)
          \/ \E key : LimitAt(r, key)
      BY <1>2, StepForms DEF Forms
    <3>3. ASSUME NEW key, LimitAt(r, key) PROVE FALSE
      <4>1. Midway(r)
        BY <3>3 DEF LimitAt, At, Midway
      <4>2. PICK s : At(r, s) /\ (s \in {"limit", "global"} => Limit(r))
        BY <1>0, <1>2, <2>1, <4>1, StepTaken
      <4> QED
        BY <2>3, <3>3, <4>2 DEF LimitAt, At
    <3>4. req'[r].refused = req[r].refused
      BY <1>0, <2>1, <3>2, <3>3, RefusedKept
    <3>5. ASSUME NEW q \in Ids, req'[q] # None, req'[q].refused # None
          PROVE  Justified(req'[q].refused, passes')
      BY <1>0, <1>g, <1>j, <2>1, <3>1, <3>4, <3>5
    <3>6. AllJustified'
      BY <3>5 DEF AllJustified
    <3> QED
      BY <1>0, <1>2, <3>1, <3>6 DEF LimitsInv, LimiterType
  <2> QED
    BY <2>2, <2>3
<1>3. ASSUME NEW r \in Ids, RequestFault(r), UNCHANGED clock PROVE LimitsInv'
  <2>1. EndedAs(r, 500) /\ req[r] \in Request /\ End(r, 500)
    BY <1>0, <1>3, FaultEnds DEF RequestFault
  <2>2. UNCHANGED <<counters, passes>>
    BY <1>3 DEF RequestFault, limiterVars
  <2>3. req'[r].refused = req[r].refused
    BY <1>0, <2>1, RefusedKept
  <2>4. AllJustified'
    BY <1>0, <1>n, <1>g, <1>j, <2>1, <2>2, <2>3 DEF AllJustified, EndedAs
  <2> QED
    BY <1>0, <1>3, <2>2, <2>4 DEF LimitsInv, LimiterType
<1>4. ASSUME UNCHANGED <<req, limiterVars>>, clock' = clock \/ clock' = clock + 1 PROVE LimitsInv'
  <2>1. UNCHANGED <<counters, passes, req>>
    BY <1>4 DEF limiterVars
  <2>2. AllJustified'
    BY <1>0, <1>g, <1>j, <2>1 DEF AllJustified
  <2>3. \A k \in LimitKeys : Counts(counters[k], passes[k], WindowOf(k), LimitOf(k), clock')
    BY <1>4, <1>c
  <2> QED
    BY <1>0, <2>1, <2>2, <2>3 DEF LimitsInv, LimiterType
<1> QED
  BY <1>1, <1>2, <1>3, <1>4, Kinds

-----------------------------------------------------------------------------
(* The theorems. *)

ApiInv == /\ BaseInv /\ SessionsInv /\ JobsInv /\ DocsInv
          /\ TokensInv /\ ChainsInv /\ HeadsInv /\ LimitsInv

\* ApiInv holds at the start.
LEMMA ApiInit == Init => ApiInv
<1> SUFFICES ASSUME Init PROVE ApiInv
  OBVIOUS
<1> DEFINE fresh == "register" \in suite.ops
           earlier == IF fresh THEN None ELSE CHOOSE u \in suite.users : TRUE
<1>1. /\ suite \in Suites /\ req = [r \in Ids |-> None] /\ started = 0 /\ clock = 0
      /\ access = [u \in Users |-> IF fresh THEN 0 ELSE AccessLife]
      /\ sessions = [s \in Ids |-> IF s = 0 THEN earlier ELSE None]
      /\ TokensInit(earlier)
      /\ budgets = [s \in Ids |-> None] /\ answered = {}
      /\ jobs = [j \in Ids |-> None] /\ docs = [d \in Ids |-> None]
  BY DEF Init, JobsInit, DocsInit
<1>2. earlier \in Users \cup {None}
  BY <1>1, ApiAssumption
<1> HIDE DEF earlier, fresh
<1>3. 0 \in Ids
  BY Constants DEF Ids
<1>4. TokensType /\ \A t \in Ids : t # 0 => tokens[t] = None
  <2> DEFINE v == [user |-> earlier, expires |-> RefreshLife, chain |-> 0]
  <2>1. /\ tokens = [t \in Ids |-> IF t > 0 \/ earlier = None THEN None ELSE v]
        /\ deletes = [t \in Ids |-> 0] /\ late = [c \in Ids |-> 0]
    BY <1>1 DEF TokensInit
  <2>2. earlier # None => v \in Token
    BY <1>2, <1>3, Constants DEF Token
  <2> HIDE DEF v
  <2>3. \A t \in Ids : t # 0 => t > 0
    BY Constants DEF Ids
  <2> QED
    BY <2>1, <2>2, <2>3 DEF TokensType
<1>5. BaseInv
  BY <1>1, <1>4, Constants DEF BaseInv, RequestsType, Numbered, TokensKnown
<1>6. SessionsInv
  BY <1>1, <1>2 DEF SessionsInv, SessionsType, SessionsCreated, AnswersOwned, AnswersInOwnSession, Is
<1>7. JobsInv /\ DocsInv
  BY <1>1 DEF JobsInv, JobsType, JobsFit, JobsOrdered, Seen, DocsInv, DocsType, DocsFit, Is
<1>8. TokensInv
  <2>1. \A t \in Ids : deletes[t] = 0
    BY <1>1 DEF TokensInit
  <2> QED
    BY <1>1, <1>4, <2>1 DEF TokensInv, DeletedDead, IssuedOnce, Stuck, Is
<1>9. HeadsInv
  BY <1>1 DEF HeadsInv, HeaderFits
<1>10. LimitsInv
  <2>1. counters = [k \in LimitKeys |-> None] /\ passes = [k \in LimitKeys |-> <<>>] /\ clock = 0
    BY <1>1 DEF Init, LimiterInit
  <2>2. LimiterType /\ AllJustified
    BY <1>1, <2>1 DEF LimiterType, AllJustified
  <2>3. ASSUME NEW k \in LimitKeys
        PROVE  Counts(counters[k], passes[k], WindowOf(k), LimitOf(k), clock)
    BY <2>1 DEF Counts
  <2> QED
    BY <2>2, <2>3 DEF LimitsInv
<1>11. ChainsInv
  <2>1. /\ \A c \in Ids : late[c] = 0 /\ Pending(c) = {}
        /\ \A c \in Ids : Unspent(c) \subseteq {0}
    BY <1>1, <1>4 DEF TokensInit, Pending, Unspent, Is
  <2>2. ASSUME NEW c \in Ids PROVE Balanced(c)
    <3>1. Cardinality(Unspent(c)) <= 1 /\ Cardinality(Unspent(c)) \in Nat
      <4>1. IsFiniteSet({0}) /\ Cardinality({0}) = 1
        BY FS_Singleton
      <4> QED
        BY <2>1, <4>1, FS_Subset, FS_CardinalityType
    <3>2. Cardinality(Pending(c)) = 0
      BY <2>1, FS_EmptySet
    <3> QED
      BY <2>1, <3>1, <3>2 DEF Balanced
  <2>3. \A t, c \in Ids : tokens[t] # None /\ tokens[t].chain = c => Rooted(c)
    <3>1. tokens[0] # None => tokens[0].chain = 0
      BY <1>1, <1>3 DEF TokensInit
    <3> QED
      BY <1>4, <3>1 DEF Rooted
  <2> QED
    BY <1>1, <2>2, <2>3 DEF ChainsInv, ChainFits, LogsOut, Is
<1> QED
  BY <1>5, <1>6, <1>7, <1>8, <1>9, <1>10, <1>11 DEF ApiInv

\* ApiInv holds throughout.
LEMMA ApiInvariant == Spec => []ApiInv
<1>1. ApiInv /\ [Next]_vars => ApiInv'
  BY BaseStep, SessionsStep, JobsStep, DocsStep, TokensInvStep, ChainsStep, HeadsStep, LimitsStep
     DEF ApiInv
<1> QED
  BY <1>1, ApiInit, PTL DEF Spec

\* Sessions and jobs are their owners': nothing is worked out or recorded in a session for anyone
\* else, and while its ownership record lives a job is shown to its tenant and to nobody else,
\* however the requests of all users interleave, fail and time out.
THEOREM SessionsAndJobsStayOwned == Spec => []OwnersOnly
<1>1. ApiInv => OwnersOnly
  <2> SUFFICES ASSUME ApiInv PROVE OwnersOnly
    OBVIOUS
  <2>1. AnswersInOwnSession
    BY DEF ApiInv, SessionsInv
  <2>2. JobsSeenByOwners
    BY DEF ApiInv, JobsInv, Seen, JobsSeenByOwners, Ended, Is
  <2> QED
    BY <2>1, <2>2 DEF OwnersOnly
<1> QED
  BY <1>1, ApiInvariant, PTL

\* A finished task has closed its pool and its driver, whichever of its steps failed, but for three:
\* a client or driver that could not be built leaves the engine, a driver that could not be closed
\* both, an engine that could not be disposed of itself.
THEOREM WorkersRelease == Spec => []WorkerReleases
<1>1. ApiInv => WorkerReleases
  BY DEF ApiInv, JobsInv, JobsFit, JobFits, Released, WorkerReleases
<1> QED
  BY <1>1, ApiInvariant, PTL

\* Of a document that is committed everything is there, of one that is not no row is, for any number
\* of chunks and parents and a failure after any step.
THEOREM UploadsStayWhole == Spec => []UploadsWholeOrAbsent
<1>1. ApiInv => UploadsWholeOrAbsent
  <2> SUFFICES ASSUME ApiInv, NEW r \in Ids, req[r] # None, req[r].status # None, docs[r] # None
               PROVE  IF docs[r].committed
                      THEN /\ docs[r].status = "completed" /\ docs[r].points = ChunkCount
                           /\ docs[r].chunk_count = ChunkCount
                           /\ docs[r].rows = ChunkCount + docs[r].parents
                      ELSE req[r].status = 500 /\ docs[r].status = None /\ docs[r].rows = 0
    BY DEF UploadsWholeOrAbsent
  <2>1. DocFits(req[r], docs[r]) /\ ChunkCount \in Nat
    BY Constants DEF ApiInv, DocsInv, DocsFit
  <2>2. CASE docs[r].committed
    <3>1. req[r].pc = ChunkCount + 8 /\ Written(req[r].pc, docs[r])
      BY <2>1, <2>2 DEF DocFits
    <3> QED
      BY <2>1, <2>2, <3>1 DEF Written
  <2>3. CASE ~docs[r].committed
    BY <2>1, <2>3 DEF DocFits
  <2> QED
    BY <2>2, <2>3
<1> QED
  BY <1>1, ApiInvariant, PTL

\* A result once reported is not taken back while the ownership record lives, unless the task had
\* finished before the record was written.
THEOREM ReportsStayTrue == Spec => ReportsHold
<1> DEFINE Kept == \A j \in Ids :
                     /\ jobs[j] # None /\ jobs[j].reported \in {"SUCCESS", "FAILURE"}
                     /\ jobs'[j].reported = "PENDING"
                     => jobs[j].finishedAt < jobs[j].ownedAt \/ OwnerOf(j, clock) = None
<1>1. ApiInv /\ [Next]_vars => Kept
  <2> SUFFICES ASSUME ApiInv, [Next]_vars, NEW j \in Ids, jobs[j] # None,
                      jobs[j].reported \in {"SUCCESS", "FAILURE"}, jobs'[j].reported = "PENDING",
                      OwnerOf(j, clock) # None
               PROVE  jobs[j].finishedAt < jobs[j].ownedAt
    OBVIOUS
  <2>0. /\ BaseInv /\ RequestsType /\ clock \in Nat /\ JobsType /\ JobsFit /\ JobsOrdered
        /\ \A q \in Ids : Seen(q)
    BY DEF ApiInv, BaseInv, JobsInv
  <2>1. jobs[j] \in Job /\ JobFits(jobs[j]) /\ JobTtl \in Nat /\ None \notin Nat
    BY <2>0, Constants DEF JobsType, JobsFit
  <2>2. jobs[j].finishedAt \in Nat /\ jobs[j].ownedAt \in Nat /\ jobs[j].ownedAt + JobTtl > clock
    BY <2>1 DEF OwnerOf, Job, JobFits
  <2>3. jobs[j].outcome # "PENDING"
    BY <2>1, <2>2 DEF JobFits
  <2>4. UNCHANGED jobs => FALSE
    OBVIOUS
  <2>5. ASSUME NEW r \in Ids, RequestStep(r) PROVE jobs[j].finishedAt < jobs[j].ownedAt
    <3>1. CASE SendTask(r)
      <4>1. At(r, "send") /\ send(r)
        BY <3>1 DEF SendTask
      <4>2. Is(r, "ingest") /\ req[r].pc = 3
        BY <2>0, <4>1, AtTable DEF StepTable, Is, Uploads
      <4>3. j # r
        BY <2>0, <4>2 DEF JobsOrdered
      <4>4. jobs'[j] = jobs[j]
        BY <2>0, <4>1, <4>3 DEF send, JobsType
      <4> QED
        BY <4>4
    <3>2. CASE OwnTask(r)
      <4>1. own(r, req[r].user, req[r].arg, clock)
        BY <3>2 DEF OwnTask
      <4>2. jobs'[j].reported = jobs[j].reported
        BY <2>0, <2>1, <4>1 DEF own, JobsType, Job
      <4> QED
        BY <4>2
    <3>3. CASE ReadResult(r)
      <4>1. jobs' = [jobs EXCEPT ![req[r].arg] = [jobs[req[r].arg] EXCEPT !.reported = StateOf(req[r].arg, clock)]]
        BY <3>3 DEF ReadResult, report
      <4>2. CASE j # req[r].arg
        BY <2>0, <4>1, <4>2 DEF JobsType
      <4>3. CASE j = req[r].arg
        <5>1. jobs'[j].reported = StateOf(j, clock)
          BY <2>0, <2>1, <4>1, <4>3 DEF JobsType, Job
        <5>2. ~(jobs[j].finishedAt + JobTtl > clock)
          BY <2>1, <2>2, <2>3, <5>1 DEF StateOf
        <5> QED
          BY <2>0, <2>1, <2>2, <5>2
      <4> QED
        BY <4>2, <4>3
    <3> QED
      BY <2>4, <2>5, <3>1, <3>2, <3>3, Touches
  <2>6. ASSUME NEW i \in Ids, WorkerStep(i, clock) \/ WorkerFault(i) PROVE FALSE
    <3>1. PICK v \in Job : /\ jobs' = [jobs EXCEPT ![i] = v] /\ v.reported = jobs[i].reported
      BY <2>0, <2>6, WorkerKeeps
    <3>2. jobs'[j].reported = jobs[j].reported
      BY <2>0, <3>1 DEF JobsType
    <3> QED
      BY <3>2
  <2>7. ASSUME NEW op \in suite.ops, NEW u \in suite.users, NEW a \in Arguments(op), Start(op, u, a)
        PROVE  UNCHANGED jobs
    BY <2>7 DEF Start
  <2>8. ASSUME NEW r \in Ids, RequestFault(r) PROVE UNCHANGED jobs
    BY <2>8 DEF RequestFault
  <2> QED
    BY <2>4, <2>5, <2>6, <2>7, <2>8, Kinds
<1>2. ApiInv /\ [Next]_vars => [Kept]_vars
  BY <1>1
<1> QED
  BY <1>2, ApiInvariant, PTL DEF Spec, ReportsHold

\* A login lives on in one refresh token: a refresh that comes in with a token already rotated,
\* revoked or expired is never answered with new tokens; a chain has one live token, and one more
\* only for each delete that came second; and a logout leaves its chain none unless there was one.
THEOREM TokensStayRotated == Spec => []TokensRotate
<1>1. ApiInv => TokensRotate
  <2> SUFFICES ASSUME ApiInv PROVE TokensRotate
    OBVIOUS
  <2>0. /\ RequestsType /\ TokensType /\ clock \in Nat /\ DeletedDead
        /\ \A r \in Ids : Stuck(r) /\ LogsOut(r)
        /\ \A c \in Ids : Balanced(c)
    BY DEF ApiInv, BaseInv, TokensInv, ChainsInv
  <2>1. ReplayRefused
    BY <2>0 DEF Stuck, ReplayRefused, Ended, Is
  <2>2. ASSUME NEW c \in Ids PROVE LiveOf(c) \subseteq Unspent(c)
    <3> SUFFICES ASSUME NEW t \in Ids, Live(t, clock), tokens[t].chain = c PROVE t \in Unspent(c)
      BY DEF LiveOf
    <3>1. tokens[t] # None /\ tokens[t].expires > 0
      BY <2>0 DEF Live, TokensType, Token
    <3>2. deletes[t] \in Nat /\ ~(deletes[t] > 0)
      BY <2>0, <3>1 DEF DeletedDead, TokensType
    <3>3. deletes[t] = 0
      BY <3>2
    <3> QED
      BY <3>1, <3>3 DEF Unspent
  <2>3. ASSUME NEW c \in Ids PROVE Cardinality(LiveOf(c)) <= 1 + late[c]
    <3>1. Unspent(c) \in SUBSET Ids /\ Pending(c) \in SUBSET Ids /\ LiveOf(c) \in SUBSET Ids
      BY DEF Unspent, Pending, LiveOf
    <3>2. /\ IsFiniteSet(Unspent(c)) /\ Cardinality(Unspent(c)) \in Nat
          /\ Cardinality(Pending(c)) \in Nat /\ Cardinality(LiveOf(c)) \in Nat
      BY <3>1, IdsFinite
    <3>3. Cardinality(LiveOf(c)) <= Cardinality(Unspent(c))
      BY <2>2, <3>2, FS_Subset
    <3>4. Cardinality(Unspent(c)) + Cardinality(Pending(c)) <= 1 + late[c] /\ late[c] \in Nat
      BY <2>0 DEF Balanced, TokensType
    <3> QED
      BY <3>2, <3>3, <3>4
  <2>4. ASSUME NEW r \in Ids, Ended(r, "logout"), req[r].status = 204, late[req[r].chain] = 0
        PROVE  LiveOf(req[r].chain) = {}
    <3>1. req[r].chain \in Ids
      BY <2>0, <2>4 DEF RequestsType, Request, Ended
    <3>2. Unspent(req[r].chain) = {}
      BY <2>0, <2>4, <3>1 DEF LogsOut, Ended, Is
    <3> QED
      BY <2>2, <3>1, <3>2
  <2> QED
    BY <2>1, <2>3, <2>4 DEF TokensRotate, ChainsRotate
<1> QED
  BY <1>1, ApiInvariant, PTL

\* The limiter lets no window pass more calls than its limit, refuses a call only when its key had
\* that many in the window that ends with the refusal, and the headers of every answer name the
\* limit that decided it: for any number of callers, and whatever the limits and windows are.
THEOREM LimitsStayHonest == Spec => []LimitsHonest
<1>1. ApiInv => LimitsHonest
  <2> SUFFICES ASSUME ApiInv PROVE LimitsHonest
    OBVIOUS
  <2>0. HeadsInv /\ LimiterType /\ AllJustified
        /\ \A k \in LimitKeys : Counts(counters[k], passes[k], WindowOf(k), LimitOf(k), clock)
    BY DEF ApiInv, LimitsInv
  <2>1. HeadersNameDecider
    BY <2>0 DEF HeadsInv, HeaderFits, HeadersNameDecider
  <2>2. RefusalsJustified
    BY <2>0 DEF AllJustified, Justified, RefusalsJustified, PassedWithin, Within
  <2>3. ASSUME NEW k \in LimitKeys, counters[k] # None
        PROVE  Cardinality({i \in DOMAIN passes[k] : passes[k][i] + WindowOf(k) >= counters[k].expires})
                 <= LimitOf(k)
    <3>1. Cardinality(Lately(passes[k], WindowOf(k), counters[k].expires)) =
             IF counters[k].count <= LimitOf(k) THEN counters[k].count ELSE LimitOf(k)
      BY <2>0, <2>3 DEF Counts
    <3>2. LimitOf(k) \in Nat
      BY LimitsPositive
    <3>3. Cardinality(Lately(passes[k], WindowOf(k), counters[k].expires)) <= LimitOf(k)
      BY <3>1, <3>2
    <3> QED
      BY <3>3 DEF Lately
  <2> QED
    BY <2>1, <2>2, <2>3 DEF LimitsHonest, WindowsBound
<1> QED
  BY <1>1, ApiInvariant, PTL
=============================================================================
