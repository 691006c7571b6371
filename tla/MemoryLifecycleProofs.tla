------------------------ MODULE MemoryLifecycleProofs ------------------------
(***************************************************************************)
(* The MAG commands keep Postgres, Qdrant and Neo4j in step, for any number *)
(* of concurrent commands, facts and failing calls.                         *)
(*                                                                         *)
(* The row lock is what the argument rests on: a command has flushed a row  *)
(* exactly while it holds the lock that keeps every other writer out        *)
(* (LocksFit), so the row is its own to copy until it commits (CopiesFit).  *)
(***************************************************************************)
EXTENDS MemoryLifecycle, TLAPS, NaturalsInduction, WellFoundedInduction

-----------------------------------------------------------------------------
(* Programs. *)

\* The steps of each command.
Fits(op, pc) ==
  \/ op = "record" /\ pc \in {"save", "index", "graph", "commit"}
  \/ op \in {"update", "refine"} /\ pc \in {"find", "history", "save", "index", "graph", "commit"}
  \/ op \in {"invalidate", "archive"} /\ pc \in {"find", "flag", "flagindex", "flaggraph", "commit"}
  \/ op = "evolve" /\ pc = "classify"
  \/ op = "no_conflict" /\ pc = "commit"
  \/ op = "capture" /\ pc \in {"recent", "score", "epsave", "epindex", "epgraph", "commit"}
  \/ op = "consolidate"
     /\ pc \in {"fetch", "find", "save", "index", "graph", "link", "mark", "commit"}
  \/ op = "procedure" /\ pc \in {"procedure", "commit"}
  \/ op = "procedures" /\ pc \in {"gather", "procedure", "commit"}

\* What comes after a step.
Follows(op, pc, next) ==
  /\ pc = "save" => next = "index"
  /\ pc = "index" => next = "graph"
  /\ pc = "graph" /\ op = "consolidate" => next = "link"
  /\ pc = "graph" /\ op # "consolidate" => next = "commit"
  /\ pc = "find" /\ op \in {"update", "refine"} => next = "history"
  /\ pc = "find" /\ op = "consolidate" => next = "save"
  /\ pc = "find" /\ op \in {"invalidate", "archive"} => next = "flag"
  /\ pc = "history" => next = "save"
  /\ pc = "flag" => next = "flagindex"
  /\ pc = "flagindex" => next = "flaggraph"
  /\ pc = "recent" => next = "score"
  /\ pc = "score" => next = "epsave"
  /\ pc = "epsave" => next = "epindex"
  /\ pc = "epindex" => next = "epgraph"
  /\ pc = "gather" => next = "procedure"
  /\ pc \in {"flaggraph", "epgraph", "mark", "procedure"} => next = "commit"

\* The programs, written out.
LEMMA Programs ==
  /\ Program("record") = <<"save", "index", "graph", "commit">>
  /\ Program("update") = <<"find", "history", "save", "index", "graph", "commit">>
  /\ Program("refine") = <<"find", "history", "save", "index", "graph", "commit">>
  /\ Program("invalidate") = <<"find", "flag", "flagindex", "flaggraph", "commit">>
  /\ Program("archive") = <<"find", "flag", "flagindex", "flaggraph", "commit">>
  /\ Program("evolve") = <<"classify">>
  /\ Program("capture") = <<"recent", "score", "epsave", "epindex", "epgraph", "commit">>
  /\ Program("consolidate") = <<"fetch", "find", "save", "index", "graph", "link", "mark", "commit">>
  /\ Program("procedure") = <<"procedure", "commit">>
  /\ Program("procedures") = <<"gather", "procedure", "commit">>
  BY DEF Program, RecordSemanticFact, UpdateMemory, RefineMemory, InvalidateMemory, ArchiveMemory,
         EvolveMemory, CaptureEpisode, ConsolidateEpisodes, RecordProcedure, ConsolidateProcedures

\* A step is found where it stands, if it stands once.
LEMMA Standing ==
  ASSUME NEW p, NEW x, NEW i \in DOMAIN p, p[i] = x, \A j \in DOMAIN p : p[j] = x => j = i
  PROVE  (CHOOSE j \in DOMAIN p : p[j] = x) = i
  OBVIOUS

\* The next step of a program in which no step stands twice.
LEMMA NextOf ==
  ASSUME NEW c, NEW n \in Nat, DOMAIN Program(cmd[c].op) = 1..n,
         \A i, j \in 1..n : Program(cmd[c].op)[i] = Program(cmd[c].op)[j] => i = j
  PROVE  \A i \in 1..n : cmd[c].pc = Program(cmd[c].op)[i] => After(c) = Program(cmd[c].op)[1 + i]
<1> DEFINE p == Program(cmd[c].op)
<1>1. ASSUME NEW i \in 1..n, cmd[c].pc = p[i] PROVE (CHOOSE j \in DOMAIN p : p[j] = cmd[c].pc) = i
  BY <1>1, Standing
<1> QED
  BY <1>1 DEF After

\* After a step comes the one of the table.
LEMMA AfterTable ==
  ASSUME NEW c, Fits(cmd[c].op, cmd[c].pc)
  PROVE  Follows(cmd[c].op, cmd[c].pc, After(c))
<1> DEFINE op == cmd[c].op
           pc == cmd[c].pc
           p == Program(op)
<1>0. Fits(op, pc)
  OBVIOUS
<1>1. ASSUME NEW n \in Nat, DOMAIN p = 1..n, \A i, j \in 1..n : p[i] = p[j] => i = j
      PROVE  \A i \in 1..n : pc = p[i] => After(c) = p[1 + i]
  BY <1>1, NextOf
<1> SUFFICES Follows(op, pc, After(c))
  OBVIOUS
<1> HIDE DEF op, pc, p
<1>2. CASE op = "record"
  <2>1. p = <<"save", "index", "graph", "commit">>
    BY <1>2, Programs DEF p
  <2>2. \A i \in 1..4 : pc = p[i] => After(c) = p[1 + i]
    <3>1. DOMAIN p = 1..4
      BY <2>1
    <3>2. \A i, j \in 1..4 : p[i] = p[j] => i = j
      BY <2>1
    <3> QED
      BY <1>1, <3>1, <3>2
  <2>3. /\ pc = "save" => After(c) = "index"
        /\ pc = "index" => After(c) = "graph"
        /\ pc = "graph" => After(c) = "commit"
    BY <2>1, <2>2
  <2>4. pc \in {"save", "index", "graph", "commit"}
    BY <1>0, <1>2 DEF Fits
  <2> QED
    BY <1>2, <2>3, <2>4 DEF Follows
<1>3. CASE op \in {"update", "refine"}
  <2>1. p = <<"find", "history", "save", "index", "graph", "commit">>
    BY <1>3, Programs DEF p
  <2>2. \A i \in 1..6 : pc = p[i] => After(c) = p[1 + i]
    <3>1. DOMAIN p = 1..6
      BY <2>1
    <3>2. \A i, j \in 1..6 : p[i] = p[j] => i = j
      BY <2>1
    <3> QED
      BY <1>1, <3>1, <3>2
  <2>3. /\ pc = "find" => After(c) = "history"
        /\ pc = "history" => After(c) = "save"
        /\ pc = "save" => After(c) = "index"
        /\ pc = "index" => After(c) = "graph"
        /\ pc = "graph" => After(c) = "commit"
    BY <2>1, <2>2
  <2>4. pc \in {"find", "history", "save", "index", "graph", "commit"}
    BY <1>0, <1>3 DEF Fits
  <2> QED
    BY <1>3, <2>3, <2>4 DEF Follows
<1>4. CASE op \in {"invalidate", "archive"}
  <2>1. p = <<"find", "flag", "flagindex", "flaggraph", "commit">>
    BY <1>4, Programs DEF p
  <2>2. \A i \in 1..5 : pc = p[i] => After(c) = p[1 + i]
    <3>1. DOMAIN p = 1..5
      BY <2>1
    <3>2. \A i, j \in 1..5 : p[i] = p[j] => i = j
      BY <2>1
    <3> QED
      BY <1>1, <3>1, <3>2
  <2>3. /\ pc = "find" => After(c) = "flag"
        /\ pc = "flag" => After(c) = "flagindex"
        /\ pc = "flagindex" => After(c) = "flaggraph"
        /\ pc = "flaggraph" => After(c) = "commit"
    BY <2>1, <2>2
  <2>4. pc \in {"find", "flag", "flagindex", "flaggraph", "commit"}
    BY <1>0, <1>4 DEF Fits
  <2> QED
    BY <1>4, <2>3, <2>4 DEF Follows
<1>5. CASE op = "capture"
  <2>1. p = <<"recent", "score", "epsave", "epindex", "epgraph", "commit">>
    BY <1>5, Programs DEF p
  <2>2. \A i \in 1..6 : pc = p[i] => After(c) = p[1 + i]
    <3>1. DOMAIN p = 1..6
      BY <2>1
    <3>2. \A i, j \in 1..6 : p[i] = p[j] => i = j
      BY <2>1
    <3> QED
      BY <1>1, <3>1, <3>2
  <2>3. /\ pc = "recent" => After(c) = "score"
        /\ pc = "score" => After(c) = "epsave"
        /\ pc = "epsave" => After(c) = "epindex"
        /\ pc = "epindex" => After(c) = "epgraph"
        /\ pc = "epgraph" => After(c) = "commit"
    BY <2>1, <2>2
  <2>4. pc \in {"recent", "score", "epsave", "epindex", "epgraph", "commit"}
    BY <1>0, <1>5 DEF Fits
  <2> QED
    BY <1>5, <2>3, <2>4 DEF Follows
<1>6. CASE op = "consolidate"
  <2>1. p = <<"fetch", "find", "save", "index", "graph", "link", "mark", "commit">>
    BY <1>6, Programs DEF p
  <2>2. \A i \in 1..8 : pc = p[i] => After(c) = p[1 + i]
    <3>1. DOMAIN p = 1..8
      BY <2>1
    <3>2. \A i, j \in 1..8 : p[i] = p[j] => i = j
      BY <2>1
    <3> QED
      BY <1>1, <3>1, <3>2
  <2>3. /\ pc = "fetch" => After(c) = "find"
        /\ pc = "find" => After(c) = "save"
        /\ pc = "save" => After(c) = "index"
        /\ pc = "index" => After(c) = "graph"
        /\ pc = "graph" => After(c) = "link"
        /\ pc = "link" => After(c) = "mark"
        /\ pc = "mark" => After(c) = "commit"
    BY <2>1, <2>2
  <2>4. pc \in {"fetch", "find", "save", "index", "graph", "link", "mark", "commit"}
    BY <1>0, <1>6 DEF Fits
  <2> QED
    BY <1>6, <2>3, <2>4 DEF Follows
<1>7. CASE op = "procedure"
  <2>1. p = <<"procedure", "commit">>
    BY <1>7, Programs DEF p
  <2>2. \A i \in 1..2 : pc = p[i] => After(c) = p[1 + i]
    <3>1. DOMAIN p = 1..2
      BY <2>1
    <3>2. \A i, j \in 1..2 : p[i] = p[j] => i = j
      BY <2>1
    <3> QED
      BY <1>1, <3>1, <3>2
  <2>3. /\ pc = "procedure" => After(c) = "commit"
    BY <2>1, <2>2
  <2>4. pc \in {"procedure", "commit"}
    BY <1>0, <1>7 DEF Fits
  <2> QED
    BY <1>7, <2>3, <2>4 DEF Follows
<1>8. CASE op = "procedures"
  <2>1. p = <<"gather", "procedure", "commit">>
    BY <1>8, Programs DEF p
  <2>2. \A i \in 1..3 : pc = p[i] => After(c) = p[1 + i]
    <3>1. DOMAIN p = 1..3
      BY <2>1
    <3>2. \A i, j \in 1..3 : p[i] = p[j] => i = j
      BY <2>1
    <3> QED
      BY <1>1, <3>1, <3>2
  <2>3. /\ pc = "gather" => After(c) = "procedure"
        /\ pc = "procedure" => After(c) = "commit"
    BY <2>1, <2>2
  <2>4. pc \in {"gather", "procedure", "commit"}
    BY <1>0, <1>8 DEF Fits
  <2> QED
    BY <1>8, <2>3, <2>4 DEF Follows
<1>9. CASE op \in {"evolve", "no_conflict"}
  <2>1. pc \in {"classify", "commit"}
    BY <1>0, <1>9 DEF Fits
  <2> QED
    BY <2>1 DEF Follows
<1> QED
  BY <1>0, <1>2, <1>3, <1>4, <1>5, <1>6, <1>7, <1>8, <1>9 DEF Fits
-----------------------------------------------------------------------------
(* The state, and one step of a command. *)

StepNames == {"idle", "classify", "find", "history", "save", "index", "graph", "commit", "flag",
  "flagindex", "flaggraph", "recent", "score", "epsave", "epindex", "epgraph", "fetch", "link",
  "mark", "gather", "procedure"}

OpNames == Operations \cup {"no_conflict"}

Command ==
  [pc : StepNames, op : OpNames \cup {None}, key : Keys \cup {None}, value : Values \cup {None},
   old : Row \cup {None}, todo : SUBSET Keys, batch : SUBSET Nat, prev : Nat \cup {None},
   ep : Nat \cup {None}, raced : SUBSET Keys]

Pending ==
  [rows : [Keys -> Row \cup {None}], hist : SUBSET (Keys \X Values), eps : SUBSET (Nat \cup {None}),
   done : SUBSET Nat, proc : Values \cup {None}]

Modes == {"share", "nokey", "update"}

CommandsType == cmd \in [Commands -> Command]
PendingType == pend \in [Commands -> Pending]

\* A step of c to `pc` that leaves the other commands alone and, of its own locals, changes those
\* in `fields`.
Steps(c, pc, fields) ==
  /\ CommandsType'
  /\ \A d \in Commands : d # c => cmd'[d] = cmd[d]
  /\ cmd'[c].pc = pc
  /\ "op" \notin fields => cmd'[c].op = cmd[c].op
  /\ "key" \notin fields => cmd'[c].key = cmd[c].key
  /\ "value" \notin fields => cmd'[c].value = cmd[c].value
  /\ "old" \notin fields => cmd'[c].old = cmd[c].old
  /\ "todo" \notin fields => cmd'[c].todo = cmd[c].todo
  /\ "batch" \notin fields => cmd'[c].batch = cmd[c].batch
  /\ "prev" \notin fields => cmd'[c].prev = cmd[c].prev
  /\ "ep" \notin fields => cmd'[c].ep = cmd[c].ep
  /\ "raced" \notin fields => cmd'[c].raced = cmd[c].raced

\* A step that moves the program counter.
LEMMA StepsOn ==
  ASSUME CommandsType, NEW c \in Commands, NEW pc \in StepNames, cmd' = [cmd EXCEPT ![c].pc = pc]
  PROVE  Steps(c, pc, {})
  BY DEF CommandsType, Command, Steps

\* A step that takes a value with it.
LEMMA StepsWithValue ==
  ASSUME CommandsType, NEW c \in Commands, NEW pc \in StepNames, NEW v \in Values,
         cmd' = [cmd EXCEPT ![c].value = v, ![c].pc = pc]
  PROVE  Steps(c, pc, {"value"}) /\ cmd'[c].value = v
  BY DEF CommandsType, Command, Steps

\* The step of a reader.
LEMMA StepsWithRow ==
  ASSUME CommandsType, NEW c \in Commands, NEW pc \in StepNames, NEW row \in Row \cup {None},
         cmd' = [cmd EXCEPT ![c].old = row, ![c].pc = pc, ![c].raced = @ \ {cmd[c].key}]
  PROVE  /\ Steps(c, pc, {"old", "raced"}) /\ cmd'[c].old = row
         /\ cmd'[c].raced = cmd[c].raced \ {cmd[c].key}
  BY DEF CommandsType, Command, Steps

\* To the mark, or to the next fact.
ToFact(c, todo, batch) ==
  \/ /\ Steps(c, "mark", {"batch", "todo", "key"})
     /\ cmd'[c].batch = batch /\ cmd'[c].todo = {} /\ cmd'[c].key = None
  \/ \E k \in todo, v \in Values :
       /\ Steps(c, "find", {"batch", "todo", "key", "value"})
       /\ cmd'[c].batch = batch /\ cmd'[c].todo = todo \ {k} /\ cmd'[c].key = k
       /\ cmd'[c].value = v

\* The steps of a consolidation from fact to fact.
LEMMA StepsToFact ==
  ASSUME CommandsType, NEW c \in Commands, NEW batch \in SUBSET Nat, NEW todo \in SUBSET Keys,
         NextFact(c, todo, batch)
  PROVE  ToFact(c, todo, batch)
<1>1. CASE todo = {}
  <2>1. cmd' = [cmd EXCEPT ![c].pc = "mark", ![c].batch = batch, ![c].todo = {}, ![c].key = None]
    BY <1>1 DEF NextFact
  <2> DEFINE v == [cmd[c] EXCEPT !.pc = "mark", !.batch = batch, !.todo = {}, !.key = None]
  <2>2. cmd' = [cmd EXCEPT ![c] = v]
    BY <2>1 DEF CommandsType, Command
  <2>3. /\ v \in Command /\ v.pc = "mark" /\ v.op = cmd[c].op /\ v.key = None
        /\ v.value = cmd[c].value /\ v.old = cmd[c].old /\ v.todo = {} /\ v.batch = batch
        /\ v.prev = cmd[c].prev /\ v.ep = cmd[c].ep /\ v.raced = cmd[c].raced
    BY DEF CommandsType, Command, StepNames
  <2> HIDE DEF v
  <2> QED
    BY <2>2, <2>3 DEF CommandsType, Steps, ToFact
<1>2. CASE todo # {}
  <2>1. PICK k \in todo, v \in Values :
          cmd' = [cmd EXCEPT ![c].pc = "find", ![c].batch = batch, ![c].key = k,
                             ![c].value = v, ![c].todo = todo \ {k}]
    BY <1>2 DEF NextFact
  <2> DEFINE w == [cmd[c] EXCEPT !.pc = "find", !.batch = batch, !.key = k,
                                 !.value = v, !.todo = todo \ {k}]
  <2>2. cmd' = [cmd EXCEPT ![c] = w]
    BY <2>1 DEF CommandsType, Command
  <2>3. /\ w \in Command /\ w.pc = "find" /\ w.op = cmd[c].op /\ w.key = k
        /\ w.value = v /\ w.old = cmd[c].old /\ w.todo = todo \ {k} /\ w.batch = batch
        /\ w.prev = cmd[c].prev /\ w.ep = cmd[c].ep /\ w.raced = cmd[c].raced
    BY DEF CommandsType, Command, StepNames
  <2> HIDE DEF w
  <2> QED
    BY <2>2, <2>3 DEF CommandsType, Steps, ToFact
<1> QED
  BY <1>1, <1>2

\* The steps of a capture.
LEMMA StepsWithEpisode ==
  ASSUME CommandsType, NEW c \in Commands, NEW pc \in StepNames, NEW e \in Nat \cup {None}
  PROVE  /\ cmd' = [cmd EXCEPT ![c].pc = pc, ![c].prev = e] =>
              Steps(c, pc, {"prev"}) /\ cmd'[c].prev = e
         /\ cmd' = [cmd EXCEPT ![c].pc = pc, ![c].ep = e] =>
              Steps(c, pc, {"ep"}) /\ cmd'[c].ep = e
  BY DEF CommandsType, Command, Steps

\* A command that is over.
LEMMA StepsToIdle ==
  ASSUME CommandsType, NEW c \in Commands, cmd' = [cmd EXCEPT ![c] = Idle]
  PROVE  CommandsType' /\ cmd'[c] = Idle /\ \A d \in Commands : d # c => cmd'[d] = cmd[d]
  BY DEF CommandsType, Command, StepNames, Idle

\* The classified operation.
LEMMA StepsAs ==
  ASSUME CommandsType, NEW c \in Commands, NEW pc \in StepNames, NEW op \in OpNames,
         cmd' = [cmd EXCEPT ![c].op = op, ![c].pc = pc]
  PROVE  Steps(c, pc, {"op"}) /\ cmd'[c].op = op
  BY DEF CommandsType, Command, Steps
-----------------------------------------------------------------------------
(* The inductive invariant. *)

RowsType ==
  /\ facts \in [Keys -> Row \cup {None}]
  /\ points \in [Keys -> Row \cup {None}]
  /\ nodes \in [Keys -> Row \cup {None}]

Contents == {"update", "refine"}

Copying == {"index", "graph", "flagindex", "flaggraph"}

\* What a command knows at a step.
CommandFits(c) ==
  /\ cmd[c].pc = "idle" => pend[c] = NothingPending
  /\ cmd[c].pc # "idle" => Fits(cmd[c].op, cmd[c].pc)
  /\ (\/ cmd[c].pc \in {"classify", "find", "history", "save", "index", "graph", "flag", "flagindex",
                        "flaggraph", "link"}
      \/ cmd[c].op \in Contents) => cmd[c].key \in Keys
  /\ (\/ cmd[c].pc \in {"save", "index", "graph"} \/ cmd[c].op \in {"record", "update", "evolve"}
      \/ (cmd[c].op = "consolidate" /\ cmd[c].pc = "find")) => cmd[c].value \in Values
  /\ (/\ cmd[c].op \in Contents
      /\ cmd[c].pc \in {"history", "save", "index", "graph", "commit"}) => cmd[c].old # None

\* What its transaction has flushed: nothing before its first write, and never twice the same row.
WritesFit(c) ==
  /\ cmd[c].pc \in {"classify", "history", "flag", "fetch"} => Written(c) = {}
  /\ cmd[c].pc \in {"find", "save"} /\ cmd[c].op # "consolidate" => Written(c) = {}
  /\ cmd[c].pc \in {"find", "save"} => cmd[c].key \notin Written(c)
  /\ Written(c) \cap cmd[c].todo = {} /\ cmd[c].key \notin cmd[c].todo
  /\ cmd[c].pc \in Copying => cmd[c].key \in Written(c)
  /\ cmd[c].pc \in {"index", "graph"} => pend[c].rows[cmd[c].key] = Recorded(c)
  /\ cmd[c].op \in Contents => Written(c) \subseteq {cmd[c].key}
  /\ (cmd[c].op \in Contents /\ cmd[c].pc \in {"save", "index", "graph", "commit"})
       => <<cmd[c].key, cmd[c].old.value>> \in pend[c].hist

\* The steps at which `old` is what the command read of its fact.
Reads(c) ==
  \/ cmd[c].op \in Contents /\ cmd[c].pc \in {"history", "save", "index", "graph", "commit"}
  \/ cmd[c].op = "consolidate" /\ cmd[c].pc = "save"

\* What a command has read is still so, unless a commit of another has come between.
ReadsFit(c) ==
  /\ Reads(c) /\ cmd[c].key \notin cmd[c].raced => cmd[c].old = facts[cmd[c].key]
  /\ cmd[c].op \in ContentOps =>
       \A k \in Written(c) \ cmd[c].raced : facts[k] # None =>
         /\ pend[c].rows[k].until = facts[k].until
         /\ pend[c].rows[k].archived = facts[k].archived
  /\ cmd[c].pc = "flag" => facts[cmd[c].key] # None

EpisodesType ==
  /\ clock \in Nat /\ DOMAIN episodes \subseteq Nat
  /\ \A e \in DOMAIN episodes : e < clock

Capturing == {"epsave", "epindex", "epgraph"}

\* A command handles episodes that are committed, and one that it has stamped after it looked for
\* the last of them.
EpisodesFit(c) ==
  /\ cmd[c].prev \in DOMAIN episodes \cup {None}
  /\ cmd[c].batch \subseteq DOMAIN episodes /\ pend[c].done \subseteq DOMAIN episodes
  /\ \A e \in pend[c].eps : e \in Nat /\ e < clock
  /\ cmd[c].pc \in Capturing =>
       /\ cmd[c].ep \in Nat /\ cmd[c].ep < clock
       /\ cmd[c].prev # None => cmd[c].prev < cmd[c].ep

CommandsInv ==
  /\ CommandsType /\ PendingType /\ RowsType /\ EpisodesType
  /\ \A c \in Commands : CommandFits(c) /\ WritesFit(c) /\ ReadsFit(c) /\ EpisodesFit(c)

\* The lock that keeps other writers of a fact out.
Holds(c, k) == \E l \in locks : l[1] = c /\ l[2] = k /\ l[3] # "share"

\* A command has flushed a row exactly while it holds that lock, which no two do.
LocksFit ==
  /\ locks \subseteq Commands \X Rows \X Modes
  /\ \A c \in Commands, k \in Keys : Holds(c, k) <=> k \in Written(c)
  /\ \A c, d \in Commands : c # d => Written(c) \cap Written(d) = {}

InStep(k) ==
  /\ <<"index", k>> \notin spoiled => points[k] = facts[k]
  /\ <<"graph", k>> \notin spoiled => nodes[k] = facts[k]

Flags(c, k) == cmd[c].key = k /\ cmd[c].pc \in {"flagindex", "flaggraph"}

\* How far a command has got with copying the row it has flushed.
Copied(c, k) ==
  /\ Flags(c, k) => facts[k] # None /\ pend[c].rows[k] = Flagged(cmd[c].op, facts[k])
  /\ <<"index", k>> \notin spoiled =>
       IF cmd[c].key = k /\ cmd[c].pc \in {"index", "flagindex"}
       THEN cmd[c].pc = "flagindex" => points[k] = facts[k]
       ELSE points[k] = pend[c].rows[k]
  /\ <<"graph", k>> \notin spoiled =>
       IF cmd[c].key = k /\ cmd[c].pc \in {"index", "graph", "flagindex", "flaggraph"}
       THEN Flags(c, k) => nodes[k] = facts[k]
       ELSE nodes[k] = pend[c].rows[k]

\* The copies of a fact are those of the row, or of the row that is about to be committed.
CopiesFit ==
  /\ \A k \in Keys : (\A c \in Commands : k \notin Written(c)) => InStep(k)
  /\ \A c \in Commands : \A k \in Written(c) : Copied(c, k)

-----------------------------------------------------------------------------
(* Steps that write no fact. *)

\* The rest of the commands, and the result of a step for its own.
Alone(c) == \A d \in Commands : d # c => cmd'[d] = cmd[d] /\ pend'[d] = pend[d]

Result(c) ==
  /\ CommandsType' /\ PendingType' /\ Alone(c)
  /\ CommandFits(c)' /\ WritesFit(c)' /\ ReadsFit(c)' /\ EpisodesFit(c)'
  /\ EpisodesType' /\ DOMAIN episodes \subseteq DOMAIN episodes' /\ clock <= clock'

LocksKept == \A d \in Commands, k \in Keys : Holds(d, k)' <=> Holds(d, k)

Quiet(c) ==
  /\ UNCHANGED <<facts, points, nodes, spoiled>>
  /\ pend'[c].rows = pend[c].rows
  /\ cmd[c].pc \notin Copying /\ cmd'[c].pc \notin Copying

\* The constants are told apart.
LEMMA Constants ==
  /\ None \notin Values /\ None \notin Keys /\ None \notin Row /\ None \notin Nat /\ Set # None
  /\ "episodes" \notin Keys /\ "procedure" \notin Keys
  /\ Ops \subseteq OpNames \ {"no_conflict"} /\ None \notin Operations
  BY MemoryAssumption DEF OpNames, Operations

\* What a command finds is a row or nothing.
LEMMA Finds ==
  ASSUME PendingType, RowsType, NEW c \in Commands, NEW k \in Keys
  PROVE  /\ find_by_key(c, k) \in Row \cup {None}
         /\ k \notin Written(c) => find_by_key(c, k) = facts[k]
         /\ k \in Written(c) => find_by_key(c, k) = pend[c].rows[k] /\ pend[c].rows[k] \in Row
  BY DEF PendingType, Pending, RowsType, find_by_key, Written

\* A row that is recorded is a row.
LEMMA RecordedIsRow ==
  ASSUME CommandsType, NEW c \in Commands, cmd[c].value \in Values
  PROVE  Recorded(c) \in Row
  BY DEF CommandsType, Command, Recorded, Row

\* Away from the episodes.
LEMMA EpisodesKept ==
  ASSUME EpisodesType, NEW c \in Commands, EpisodesFit(c), UNCHANGED <<episodes, clock>>,
         cmd'[c].prev = cmd[c].prev, cmd'[c].batch = cmd[c].batch, cmd'[c].ep = cmd[c].ep,
         pend'[c].done = pend[c].done, pend'[c].eps = pend[c].eps,
         cmd'[c].pc \in Capturing => cmd[c].pc \in Capturing
  PROVE  /\ EpisodesFit(c)' /\ EpisodesType'
         /\ DOMAIN episodes \subseteq DOMAIN episodes' /\ clock <= clock'
  BY DEF EpisodesType, EpisodesFit

\* Away from the facts.
LEMMA ReadsKept ==
  ASSUME NEW c \in Commands, ReadsFit(c), facts' = facts, pend'[c].rows = pend[c].rows,
         cmd'[c].op = cmd[c].op, cmd'[c].raced = cmd[c].raced, cmd'[c].pc # "flag",
         Reads(c)' => Reads(c) /\ cmd'[c].key = cmd[c].key /\ cmd'[c].old = cmd[c].old
  PROVE  ReadsFit(c)'
  BY DEF ReadsFit, Written

\* What a transaction notes beside the facts.
LEMMA Notes ==
  ASSUME PendingType, NEW c \in Commands
  PROVE  /\ \A h \in SUBSET (Keys \X Values) : pend' = [pend EXCEPT ![c].hist = @ \cup h] =>
              /\ PendingType' /\ \A d \in Commands : d # c => pend'[d] = pend[d]
              /\ pend'[c].rows = pend[c].rows /\ pend'[c].hist = pend[c].hist \cup h
              /\ pend'[c].eps = pend[c].eps /\ pend'[c].done = pend[c].done
         /\ \A e \in SUBSET (Nat \cup {None}) : pend' = [pend EXCEPT ![c].eps = e] =>
              /\ PendingType' /\ \A d \in Commands : d # c => pend'[d] = pend[d]
              /\ pend'[c].rows = pend[c].rows /\ pend'[c].hist = pend[c].hist
              /\ pend'[c].eps = e /\ pend'[c].done = pend[c].done
         /\ \A e \in SUBSET Nat : pend' = [pend EXCEPT ![c].done = e] =>
              /\ PendingType' /\ \A d \in Commands : d # c => pend'[d] = pend[d]
              /\ pend'[c].rows = pend[c].rows /\ pend'[c].hist = pend[c].hist
              /\ pend'[c].eps = pend[c].eps /\ pend'[c].done = e
         /\ \A v \in Values \cup {None} : pend' = [pend EXCEPT ![c].proc = v] =>
              /\ PendingType' /\ \A d \in Commands : d # c => pend'[d] = pend[d]
              /\ pend'[c].rows = pend[c].rows /\ pend'[c].hist = pend[c].hist
              /\ pend'[c].eps = pend[c].eps /\ pend'[c].done = pend[c].done
<1>1. ASSUME NEW h \in SUBSET (Keys \X Values), pend' = [pend EXCEPT ![c].hist = @ \cup h]
      PROVE  /\ PendingType' /\ \A d \in Commands : d # c => pend'[d] = pend[d]
             /\ pend'[c].rows = pend[c].rows /\ pend'[c].hist = pend[c].hist \cup h
             /\ pend'[c].eps = pend[c].eps /\ pend'[c].done = pend[c].done
  BY <1>1 DEF PendingType, Pending
<1>2. ASSUME NEW e \in SUBSET (Nat \cup {None}), pend' = [pend EXCEPT ![c].eps = e]
      PROVE  /\ PendingType' /\ \A d \in Commands : d # c => pend'[d] = pend[d]
             /\ pend'[c].rows = pend[c].rows /\ pend'[c].hist = pend[c].hist
             /\ pend'[c].eps = e /\ pend'[c].done = pend[c].done
  BY <1>2 DEF PendingType, Pending
<1>3. ASSUME NEW e \in SUBSET Nat, pend' = [pend EXCEPT ![c].done = e]
      PROVE  /\ PendingType' /\ \A d \in Commands : d # c => pend'[d] = pend[d]
             /\ pend'[c].rows = pend[c].rows /\ pend'[c].hist = pend[c].hist
             /\ pend'[c].eps = pend[c].eps /\ pend'[c].done = e
  BY <1>3 DEF PendingType, Pending
<1>4. ASSUME NEW v \in Values \cup {None}, pend' = [pend EXCEPT ![c].proc = v]
      PROVE  /\ PendingType' /\ \A d \in Commands : d # c => pend'[d] = pend[d]
             /\ pend'[c].rows = pend[c].rows /\ pend'[c].hist = pend[c].hist
             /\ pend'[c].eps = pend[c].eps /\ pend'[c].done = pend[c].done
  BY <1>4 DEF PendingType, Pending
<1> QED
  BY <1>1, <1>2, <1>3, <1>4

\* A fact is looked up.
LEMMA FindSafe ==
  ASSUME CommandsInv, NEW c \in Commands, cmd[c].pc = "find",
         find_by_key(c, cmd[c].key) # None \/ cmd[c].op = "consolidate",
         cmd' = [cmd EXCEPT ![c].old = find_by_key(c, cmd[c].key), ![c].pc = After(c),
                            ![c].raced = @ \ {cmd[c].key}],
         UNCHANGED <<stores, pend, clock, spoiled>>
  PROVE  Result(c) /\ Quiet(c)
<1> DEFINE row == find_by_key(c, cmd[c].key)
<1>0. /\ CommandsType /\ PendingType /\ RowsType /\ CommandFits(c) /\ WritesFit(c) /\ ReadsFit(c)
      /\ EpisodesType /\ EpisodesFit(c) /\ episodes' = episodes /\ clock' = clock
      /\ facts' = facts /\ points' = points /\ nodes' = nodes /\ pend' = pend /\ spoiled' = spoiled
  BY DEF CommandsInv, stores
<1>1. Fits(cmd[c].op, "find") /\ cmd[c].key \in Keys /\ cmd[c].key \notin Written(c)
  BY <1>0 DEF CommandFits, WritesFit, Copying
<1>2. Follows(cmd[c].op, "find", After(c))
  BY <1>1, AfterTable
<1>3. row \in Row \cup {None} /\ row = facts[cmd[c].key]
  BY <1>0, <1>1, Finds
<1>4. cmd[c].op \in {"update", "refine", "consolidate", "invalidate", "archive"}
  BY <1>1 DEF Fits
<1>5. /\ cmd[c].op \in {"update", "refine"} => After(c) = "history"
      /\ cmd[c].op = "consolidate" => After(c) = "save"
      /\ cmd[c].op \in {"invalidate", "archive"} => After(c) = "flag"
  BY <1>2 DEF Follows
<1>6. After(c) \in StepNames
  BY <1>4, <1>5 DEF StepNames
<1> HIDE DEF row
<1>7. /\ Steps(c, After(c), {"old", "raced"}) /\ cmd'[c].old = row
      /\ cmd'[c].raced = cmd[c].raced \ {cmd[c].key}
  BY <1>0, <1>3, <1>6, StepsWithRow DEF row
<1>8. row # None \/ cmd[c].op = "consolidate"
  BY DEF row
<1>9. Written(c)' = Written(c)
  BY <1>0 DEF Written
<1>10. CommandFits(c)'
  BY <1>0, <1>1, <1>4, <1>5, <1>7, <1>8 DEF CommandFits, Steps, Fits, Contents
<1>11. WritesFit(c)'
  BY <1>0, <1>1, <1>4, <1>5, <1>7, <1>9 DEF WritesFit, Steps, Contents, Copying
<1>12. ReadsFit(c)'
  <2>1. cmd'[c].old = facts'[cmd'[c].key]
    BY <1>0, <1>3, <1>7 DEF Steps
  <2>2. Written(c)' \ cmd'[c].raced \subseteq Written(c) \ cmd[c].raced
    BY <1>1, <1>7, <1>9
  <2>3. cmd'[c].op \in ContentOps =>
          \A k \in Written(c)' \ cmd'[c].raced : facts'[k] # None =>
            /\ pend'[c].rows[k].until = facts'[k].until
            /\ pend'[c].rows[k].archived = facts'[k].archived
    BY <1>0, <1>7, <2>2 DEF ReadsFit, Steps
  <2>4. cmd'[c].pc = "flag" => facts'[cmd'[c].key] # None
    BY <1>0, <1>3, <1>4, <1>5, <1>7, <1>8 DEF Steps
  <2> QED
    BY <2>1, <2>3, <2>4 DEF ReadsFit
<1>13. cmd'[c].pc \notin Copying
  BY <1>4, <1>5, <1>7 DEF Steps, Copying
<1>14. /\ EpisodesFit(c)' /\ EpisodesType'
       /\ DOMAIN episodes \subseteq DOMAIN episodes' /\ clock <= clock'
  BY <1>0, <1>4, <1>5, <1>7, EpisodesKept DEF Steps, Capturing
<1> QED
  BY <1>0, <1>7, <1>10, <1>11, <1>12, <1>13, <1>14 DEF Result, Quiet, Alone, Steps, PendingType, Copying
\* A step of a capture, of a procedure, or at the end of a consolidation.
LEMMA PlainStep ==
  ASSUME CommandsInv, NEW c \in Commands,
         NEW pc \in {"score", "epsave", "epindex", "epgraph", "commit", "procedure"},
         NEW fields \in SUBSET {"prev", "ep", "value"}, Steps(c, pc, fields), Fits(cmd[c].op, pc),
         cmd[c].op \in {"capture", "procedure", "procedures", "consolidate"}, cmd[c].pc \notin Copying,
         PendingType', \A d \in Commands : d # c => pend'[d] = pend[d],
         pend'[c].rows = pend[c].rows, UNCHANGED <<facts, points, nodes, spoiled>>
  PROVE  /\ CommandsType' /\ PendingType' /\ Alone(c)
         /\ CommandFits(c)' /\ WritesFit(c)' /\ ReadsFit(c)' /\ Quiet(c)
<1>0. CommandFits(c) /\ WritesFit(c) /\ ReadsFit(c)
  BY DEF CommandsInv
<1>1. /\ cmd'[c].pc = pc /\ cmd'[c].op = cmd[c].op /\ cmd'[c].key = cmd[c].key
      /\ cmd'[c].todo = cmd[c].todo /\ cmd'[c].raced = cmd[c].raced
  BY DEF Steps
<1>2. Written(c)' = Written(c)
  BY DEF Written
<1>3. CommandFits(c)'
  BY <1>0, <1>1 DEF CommandFits, Contents
<1>4. WritesFit(c)'
  BY <1>0, <1>1, <1>2 DEF WritesFit, Contents, Copying
<1>5. ReadsFit(c)'
  <2>1. ~Reads(c)'
    BY <1>1 DEF Reads, Contents
  <2> QED
    BY <1>0, <1>1, <2>1, ReadsKept
<1> QED
  BY <1>1, <1>3, <1>4, <1>5 DEF Quiet, Alone, Steps, Copying

\* Some number is the greatest of a set of naturals with a bound.
LEMMA Greatest ==
  ASSUME NEW n \in Nat, NEW S, S \subseteq Nat, S # {}, \A x \in S : x < n
  PROVE  \E m \in S : \A x \in S : x <= m
<1> DEFINE R == OpToRel(<, Nat)
           Above == {u \in Nat : \A x \in S : x <= u}
<1>1. IsWellFoundedOn(R, Nat)
  BY NatLessThanWellFounded
<1>2. \A x, y \in Nat : x < y => <<x, y>> \in R
  BY DEF OpToRel
<1> HIDE DEF R
<1>3. Above \subseteq Nat /\ Above # {}
  <2>1. n \in Above
    OBVIOUS
  <2> QED
    BY <2>1
<1>4. PICK u \in Above : \A y \in Above : ~ (<<y, u>> \in R)
  BY <1>1, <1>3, WFMin
<1>5. \A y \in Above : ~ (y < u)
  BY <1>2, <1>3, <1>4
<1>6. u \in S
  <2>1. CASE u = 0
    <3>1. PICK x \in S : TRUE
      OBVIOUS
    <3>2. x <= 0 /\ x \in Nat
      BY <1>4, <2>1
    <3> QED
      BY <2>1, <3>2
  <2>2. CASE u # 0
    <3>1. u - 1 \in Nat /\ u - 1 < u
      BY <2>2
    <3>2. PICK x \in S : ~ (x <= u - 1)
      BY <1>5, <3>1
    <3>3. x = u
      BY <3>1, <3>2
    <3> QED
      BY <3>3
  <2> QED
    BY <2>1, <2>2
<1> QED
  BY <1>6

\* A capture looks for the last episode.
LEMMA RecentSafe == ASSUME CommandsInv, NEW c \in Commands, Recent(c) PROVE Result(c) /\ Quiet(c)
<1>0. /\ CommandsType /\ PendingType /\ EpisodesType /\ CommandFits(c) /\ EpisodesFit(c)
      /\ UNCHANGED <<facts, points, nodes, spoiled, episodes, clock, pend>> /\ cmd[c].pc = "recent"
  BY DEF CommandsInv, Recent, stores
<1>1. Fits(cmd[c].op, "recent") /\ cmd[c].op = "capture"
  BY <1>0 DEF CommandFits, Fits
<1>2. After(c) = "score"
  BY <1>0, <1>1, AfterTable DEF Follows
<1> DEFINE last == IF DOMAIN episodes = {} THEN None
                   ELSE CHOOSE e \in DOMAIN episodes : \A f \in DOMAIN episodes : f <= e
<1>3. last \in DOMAIN episodes \cup {None}
  <2>1. CASE DOMAIN episodes # {}
    <3>1. \E e \in DOMAIN episodes : \A f \in DOMAIN episodes : f <= e
      BY <1>0, <2>1, Greatest DEF EpisodesType
    <3> QED
      BY <3>1
  <2> QED
    BY <2>1
<1>4. cmd' = [cmd EXCEPT ![c].pc = "score", ![c].prev = last]
  BY <1>2 DEF Recent
<1> HIDE DEF last
<1>5. last \in Nat \cup {None} /\ "score" \in StepNames
  BY <1>0, <1>3 DEF EpisodesType, StepNames
<1>6. Steps(c, "score", {"prev"}) /\ cmd'[c].prev = last
  BY <1>0, <1>4, <1>5, StepsWithEpisode
<1>7. /\ CommandsType' /\ PendingType' /\ Alone(c)
      /\ CommandFits(c)' /\ WritesFit(c)' /\ ReadsFit(c)' /\ Quiet(c)
  BY <1>0, <1>1, <1>6, PlainStep DEF PendingType, Fits, Copying
<1>8. /\ EpisodesFit(c)' /\ EpisodesType'
      /\ DOMAIN episodes \subseteq DOMAIN episodes' /\ clock <= clock'
  BY <1>0, <1>3, <1>6 DEF EpisodesFit, EpisodesType, Steps, Capturing
<1> QED
  BY <1>7, <1>8 DEF Result

\* A capture is stamped.
LEMMA StampSafe == ASSUME CommandsInv, NEW c \in Commands, Stamp(c) PROVE Result(c) /\ Quiet(c)
<1>0. /\ CommandsType /\ PendingType /\ EpisodesType /\ CommandFits(c) /\ EpisodesFit(c)
      /\ UNCHANGED <<facts, points, nodes, spoiled, episodes, pend>> /\ cmd[c].pc = "score"
      /\ clock' = clock + 1
  BY DEF CommandsInv, Stamp, stores
<1>1. Fits(cmd[c].op, "score") /\ cmd[c].op = "capture"
  BY <1>0 DEF CommandFits, Fits
<1>2. After(c) = "epsave"
  BY <1>0, <1>1, AfterTable DEF Follows
<1>3. clock \in Nat \cup {None} /\ "epsave" \in StepNames
  BY <1>0 DEF EpisodesType, StepNames
<1>4. Steps(c, "epsave", {"ep"}) /\ cmd'[c].ep = clock
  BY <1>0, <1>2, <1>3, StepsWithEpisode DEF Stamp
<1>5. /\ CommandsType' /\ PendingType' /\ Alone(c)
      /\ CommandFits(c)' /\ WritesFit(c)' /\ ReadsFit(c)' /\ Quiet(c)
  BY <1>0, <1>1, <1>4, PlainStep DEF PendingType, Fits, Copying
<1>6. EpisodesType' /\ DOMAIN episodes \subseteq DOMAIN episodes' /\ clock <= clock'
  BY <1>0 DEF EpisodesType
<1>7. EpisodesFit(c)'
  <2>1. cmd'[c].prev = cmd[c].prev /\ cmd'[c].batch = cmd[c].batch
    BY <1>4 DEF Steps
  <2>2. \A e \in pend'[c].eps : e \in Nat /\ e < clock'
    BY <1>0 DEF EpisodesFit, EpisodesType
  <2>3. cmd'[c].ep \in Nat /\ cmd'[c].ep < clock' /\ (cmd'[c].prev # None => cmd'[c].prev < cmd'[c].ep)
    BY <1>0, <1>4, <2>1 DEF EpisodesFit, EpisodesType
  <2> QED
    BY <1>0, <2>1, <2>2, <2>3 DEF EpisodesFit
<1> QED
  BY <1>5, <1>6, <1>7 DEF Result

\* A capture, a mark or a procedure is flushed, or an episode written to the index or the graph.
LEMMA PlainSafe ==
  ASSUME CommandsInv, NEW c \in Commands,
         \/ SaveEpisode(c) \/ IndexEpisode(c) \/ GraphEpisode(c) \/ Mark(c) \/ SaveProcedure(c)
  PROVE  Result(c) /\ Quiet(c)
<1> DEFINE Kept == /\ UNCHANGED <<facts, points, nodes, spoiled, episodes, clock>>
                   /\ cmd' = [cmd EXCEPT ![c].pc = After(c)]
                   /\ cmd[c].pc \in {"epsave", "epindex", "epgraph", "mark", "procedure"}
<1>0. /\ CommandsType /\ PendingType /\ EpisodesType /\ CommandFits(c) /\ EpisodesFit(c)
      /\ cmd[c] \in Command
  BY DEF CommandsInv, CommandsType
<1>1. /\ Kept
      /\ \/ pend' = pend
         \/ pend' = [pend EXCEPT ![c].eps = {cmd[c].ep}] /\ cmd[c].pc = "epsave"
         \/ pend' = [pend EXCEPT ![c].done = cmd[c].batch]
         \/ pend' = [pend EXCEPT ![c].proc = cmd[c].value]
  <2>1. CASE SaveEpisode(c)
    BY <2>1 DEF SaveEpisode, Advance, stores
  <2>2. CASE IndexEpisode(c)
    BY <2>2 DEF IndexEpisode, Advance
  <2>3. CASE GraphEpisode(c)
    <3>1. /\ Advance(c) /\ cmd[c].pc = "epgraph"
          /\ UNCHANGED <<facts, history, episodes, procedures, points, epPoints, nodes,
                         pend, locks, clock, started, spoiled>>
      BY <2>3, Zenon DEF GraphEpisode
    <3> QED
      BY <3>1 DEF Advance
  <2>4. CASE Mark(c)
    BY <2>4 DEF Mark, Advance, stores
  <2>5. CASE SaveProcedure(c)
    BY <2>5 DEF SaveProcedure, Advance, stores
  <2> QED
    BY <2>1, <2>2, <2>3, <2>4, <2>5
<1>p. cmd[c].pc \notin Copying /\ Fits(cmd[c].op, cmd[c].pc)
  BY <1>0, <1>1 DEF CommandFits, Copying
<1>2. /\ After(c) \in {"epindex", "epgraph", "commit"} /\ Fits(cmd[c].op, After(c))
      /\ After(c) \in Capturing => cmd[c].pc \in Capturing
      /\ cmd[c].op \in {"capture", "procedure", "procedures", "consolidate"}
  BY <1>1, <1>p, AfterTable DEF Follows, Fits, Capturing
<1>3. Steps(c, After(c), {})
  BY <1>0, <1>1, <1>2, StepsOn DEF StepNames
<1>4. /\ PendingType' /\ \A d \in Commands : d # c => pend'[d] = pend[d]
      /\ pend'[c].rows = pend[c].rows
      /\ \/ pend'[c].eps = pend[c].eps
         \/ cmd[c].pc \in Capturing /\ pend'[c].eps = {cmd[c].ep}
      /\ pend'[c].done \in {pend[c].done, cmd[c].batch}
  <2>1. CASE pend' = pend
    BY <1>0, <2>1 DEF PendingType
  <2>2. CASE pend' = [pend EXCEPT ![c].eps = {cmd[c].ep}] /\ cmd[c].pc = "epsave"
    <3>1. {cmd[c].ep} \in SUBSET (Nat \cup {None}) /\ cmd[c].pc \in Capturing
      BY <1>0, <2>2 DEF Command, Capturing
    <3> QED
      BY <1>0, <2>2, <3>1, Notes
  <2>3. CASE pend' = [pend EXCEPT ![c].done = cmd[c].batch]
    <3>1. cmd[c].batch \in SUBSET Nat
      BY <1>0 DEF Command
    <3> QED
      BY <1>0, <2>3, <3>1, Notes
  <2>4. CASE pend' = [pend EXCEPT ![c].proc = cmd[c].value]
    <3>1. cmd[c].value \in Values \cup {None}
      BY <1>0 DEF Command
    <3> QED
      BY <1>0, <2>4, <3>1, Notes
  <2> QED
    BY <1>1, <2>1, <2>2, <2>3, <2>4
<1>5. /\ CommandsType' /\ PendingType' /\ Alone(c)
      /\ CommandFits(c)' /\ WritesFit(c)' /\ ReadsFit(c)' /\ Quiet(c)
  BY <1>1, <1>2, <1>3, <1>4, <1>p, PlainStep
<1>6. /\ EpisodesFit(c)' /\ EpisodesType'
      /\ DOMAIN episodes \subseteq DOMAIN episodes' /\ clock <= clock'
  BY <1>0, <1>1, <1>2, <1>3, <1>4 DEF EpisodesFit, EpisodesType, Steps
<1> QED
  BY <1>5, <1>6 DEF Result

\* ConsolidateProcedures reads the session.
LEMMA GatherSafe == ASSUME CommandsInv, NEW c \in Commands, Gather(c) PROVE Result(c) /\ Quiet(c)
<1>0. /\ CommandsType /\ PendingType /\ EpisodesType /\ CommandFits(c) /\ EpisodesFit(c)
      /\ UNCHANGED <<facts, points, nodes, spoiled, episodes, clock, pend>> /\ cmd[c].pc = "gather"
  BY DEF CommandsInv, Gather, stores
<1>1. Fits(cmd[c].op, "gather") /\ cmd[c].op = "procedures"
  BY <1>0 DEF CommandFits, Fits
<1>2. After(c) = "procedure" /\ {"procedure", "commit"} \subseteq StepNames
  BY <1>0, <1>1, AfterTable DEF Follows, StepNames
<1>3. PICK pc \in {"procedure", "commit"}, fields \in {{}, {"value"}} : Steps(c, pc, fields)
  <2>1. CASE cmd' = [cmd EXCEPT ![c].pc = "commit"]
    BY <1>0, <1>2, <2>1, StepsOn
  <2>2. CASE \E w \in Values : cmd' = [cmd EXCEPT ![c].pc = "procedure", ![c].value = w]
    <3>1. PICK w \in Values : cmd' = [cmd EXCEPT ![c].pc = "procedure", ![c].value = w]
      BY <2>2
    <3> QED
      BY <1>0, <1>2, <3>1 DEF CommandsType, Command, Steps
  <2> QED
    BY <1>2, <2>1, <2>2 DEF Gather
<1>4. /\ CommandsType' /\ PendingType' /\ Alone(c)
      /\ CommandFits(c)' /\ WritesFit(c)' /\ ReadsFit(c)' /\ Quiet(c)
  BY <1>0, <1>1, <1>3, PlainStep DEF PendingType, Fits, Copying
<1>5. /\ EpisodesFit(c)' /\ EpisodesType'
      /\ DOMAIN episodes \subseteq DOMAIN episodes' /\ clock <= clock'
  BY <1>0, <1>3, EpisodesKept DEF Steps, Capturing
<1> QED
  BY <1>4, <1>5 DEF Result
\* The first steps.
LEMMA Heads ==
  ASSUME NEW op \in OpNames \ {"no_conflict"}
  PROVE  /\ op = "record" => Head(Program(op)) = "save"
         /\ op \in {"update", "refine", "invalidate", "archive"} => Head(Program(op)) = "find"
         /\ op = "evolve" => Head(Program(op)) = "classify"
         /\ op = "capture" => Head(Program(op)) = "recent"
         /\ op = "consolidate" => Head(Program(op)) = "fetch"
         /\ op = "procedure" => Head(Program(op)) = "procedure"
         /\ op = "procedures" => Head(Program(op)) = "gather"
  BY Programs DEF OpNames, Operations

\* Before its first step a transaction has nothing.
LEMMA NothingFlushed ==
  ASSUME NEW c \in Commands, pend[c] = NothingPending
  PROVE  /\ Written(c) = {} /\ pend[c].eps = {} /\ pend[c].done = {} /\ pend[c] \in Pending
  BY DEF Written, NothingPending, Pending

\* A command starts.
LEMMA StartSafe ==
  ASSUME CommandsInv, NEW c \in Commands, NEW op \in Ops, NEW i \in Inputs(op), Start(c, op, i[1], i[2])
  PROVE  Result(c) /\ Quiet(c)
<1> DEFINE k == i[1]
           v == i[2]
           pc == Head(Program(op))
<1>0. /\ CommandsType /\ PendingType /\ EpisodesType /\ CommandFits(c)
      /\ UNCHANGED <<facts, points, nodes, spoiled, episodes, clock, pend>> /\ cmd[c].pc = "idle"
  BY DEF CommandsInv, Start, stores
<1>1. pend[c] = NothingPending /\ Written(c) = {} /\ pend[c].eps = {} /\ pend[c].done = {}
  BY <1>0, NothingFlushed DEF CommandFits
<1>2. op \in OpNames \ {"no_conflict"}
  BY Constants
<1>3. /\ k \in Keys \cup {None} /\ v \in Values \cup {None}
      /\ op \in {"record", "update", "refine", "invalidate", "archive", "evolve"} => k \in Keys
      /\ op \in {"record", "update", "evolve"} => v \in Values
  BY DEF Inputs
<1>4. cmd' = [cmd EXCEPT ![c] = [Idle EXCEPT !.pc = pc, !.op = op, !.key = k, !.value = v]]
  BY DEF Start
<1>5. /\ op = "record" => pc = "save"
      /\ op \in {"update", "refine", "invalidate", "archive"} => pc = "find"
      /\ op = "evolve" => pc = "classify"
      /\ op = "capture" => pc = "recent"
      /\ op = "consolidate" => pc = "fetch"
      /\ op = "procedure" => pc = "procedure"
      /\ op = "procedures" => pc = "gather"
  BY <1>2, Heads
<1> HIDE DEF k, v, pc
<1>6. /\ pc \in StepNames \ {"idle"} /\ pc \notin Copying /\ Fits(op, pc) /\ pc \notin Capturing
      /\ pc \notin {"history", "flag", "link"} /\ (pc = "save" => op = "record")
      /\ pc \in {"find", "classify"} => op \in {"update", "refine", "invalidate", "archive", "evolve"}
      /\ op \in Contents => pc = "find"
      /\ op = "consolidate" => pc = "fetch"
  BY <1>2, <1>5 DEF OpNames, Operations, StepNames, Copying, Fits, Capturing, Contents
<1> DEFINE w == [Idle EXCEPT !.pc = pc, !.op = op, !.key = k, !.value = v]
<1>7. /\ w \in Command /\ w.pc = pc /\ w.op = op /\ w.key = k /\ w.value = v /\ w.old = None
      /\ w.todo = {} /\ w.batch = {} /\ w.prev = None /\ w.ep = None /\ w.raced = {}
  BY <1>2, <1>3, <1>6 DEF Idle, Command
<1> HIDE DEF w
<1>8. CommandsType' /\ cmd'[c] = w /\ \A d \in Commands : d # c => cmd'[d] = cmd[d]
  BY <1>0, <1>4, <1>7 DEF CommandsType, w
<1>9. CommandFits(c)'
  BY <1>3, <1>6, <1>7, <1>8 DEF CommandFits, Copying
<1>10. Written(c)' = {}
  BY <1>0, <1>1 DEF Written
<1>11. WritesFit(c)'
  BY <1>3, <1>6, <1>7, <1>8, <1>10 DEF WritesFit, Copying
<1>12. ReadsFit(c)'
  BY <1>6, <1>7, <1>8, <1>10 DEF ReadsFit, Reads
<1>13. /\ EpisodesFit(c)' /\ EpisodesType'
       /\ DOMAIN episodes \subseteq DOMAIN episodes' /\ clock <= clock'
  BY <1>0, <1>1, <1>6, <1>7, <1>8 DEF EpisodesFit, EpisodesType
<1> QED
  BY <1>0, <1>6, <1>7, <1>8, <1>9, <1>11, <1>12, <1>13 DEF Result, Alone, Quiet, PendingType, Copying

\* An evolution is classified and goes on as what it is.
LEMMA ClassifySafe ==
  ASSUME CommandsInv, NEW c \in Commands, cmd[c].pc = "classify", NEW op \in Classifications,
         cmd' = [cmd EXCEPT ![c].op = op, ![c].pc = Dispatched(op)],
         UNCHANGED <<stores, pend, clock, spoiled>>
  PROVE  Result(c) /\ Quiet(c)
<1> DEFINE pc == Dispatched(op)
<1>0. /\ CommandsType /\ PendingType /\ EpisodesType /\ CommandFits(c) /\ WritesFit(c) /\ ReadsFit(c)
      /\ EpisodesFit(c) /\ UNCHANGED <<facts, points, nodes, spoiled, episodes, clock, pend>>
  BY DEF CommandsInv, stores
<1>1. /\ op \in OpNames /\ op \in {"update", "refine", "invalidate", "no_conflict"}
      /\ op = "no_conflict" => pc = "commit"
      /\ op # "no_conflict" => pc = "find"
  BY Heads DEF Classifications, Dispatched, OpNames, Operations
<1>2. cmd[c].key \in Keys /\ cmd[c].op = "evolve" /\ cmd[c].value \in Values /\ Written(c) = {}
  BY <1>0 DEF CommandFits, WritesFit, Fits, Copying
<1> HIDE DEF pc
<1>3. pc \in StepNames
  BY <1>1 DEF StepNames
<1>4. Steps(c, pc, {"op"}) /\ cmd'[c].op = op
  BY <1>0, <1>1, <1>3, StepsAs DEF pc
<1>5. CommandFits(c)'
  BY <1>0, <1>1, <1>2, <1>4 DEF CommandFits, Steps, Fits, Contents
<1>6. Written(c)' = {}
  BY <1>0, <1>2 DEF Written
<1>7. WritesFit(c)'
  BY <1>0, <1>1, <1>4, <1>6 DEF WritesFit, Steps, Contents, Copying
<1>8. ReadsFit(c)'
  BY <1>1, <1>4, <1>6 DEF ReadsFit, Reads, Steps, Contents
<1>9. /\ EpisodesFit(c)' /\ EpisodesType'
      /\ DOMAIN episodes \subseteq DOMAIN episodes' /\ clock <= clock'
  BY <1>0, <1>1, <1>4, EpisodesKept DEF Steps, Capturing
<1> QED
  BY <1>0, <1>1, <1>4, <1>5, <1>7, <1>8, <1>9 DEF Result, Alone, Steps, Quiet, PendingType, Copying

\* The old value goes to the history.
LEMMA SaveHistorySafe == ASSUME CommandsInv, NEW c \in Commands, SaveHistory(c) PROVE Result(c) /\ Quiet(c)
<1>0. /\ CommandsType /\ PendingType /\ EpisodesType /\ CommandFits(c) /\ WritesFit(c) /\ ReadsFit(c)
      /\ EpisodesFit(c) /\ UNCHANGED <<facts, points, nodes, spoiled, episodes, clock>>
      /\ cmd[c].pc = "history" /\ cmd[c] \in Command
  BY DEF CommandsInv, SaveHistory, stores, CommandsType
<1>1. Fits(cmd[c].op, "history") /\ cmd[c].op \in Contents
  BY <1>0 DEF CommandFits, Fits, Contents
<1>2. After(c) = "save" /\ "save" \in StepNames
  BY <1>0, <1>1, AfterTable DEF Follows, StepNames
<1>3. PICK v \in Merges(c) : cmd' = [cmd EXCEPT ![c].value = v, ![c].pc = "save"]
  BY <1>2 DEF SaveHistory
<1>4. v \in Values
  BY <1>0, <1>1, <1>3 DEF Merges, CommandFits, Contents
<1>5. Steps(c, "save", {"value"}) /\ cmd'[c].value = v
  BY <1>0, <1>2, <1>3, <1>4, StepsWithValue
<1>6. cmd[c].key \in Keys /\ cmd[c].old \in Row /\ Written(c) = {}
  BY <1>0, <1>1 DEF CommandFits, WritesFit, Command, Copying
<1> DEFINE h == {<<cmd[c].key, cmd[c].old.value>>}
<1>7. h \in SUBSET (Keys \X Values) /\ pend' = [pend EXCEPT ![c].hist = @ \cup h]
  BY <1>6 DEF Row, SaveHistory
<1>8. /\ PendingType' /\ \A d \in Commands : d # c => pend'[d] = pend[d]
      /\ pend'[c].rows = pend[c].rows /\ <<cmd[c].key, cmd[c].old.value>> \in pend'[c].hist
      /\ pend'[c].eps = pend[c].eps /\ pend'[c].done = pend[c].done
  <2> HIDE DEF h
  <2>1. /\ PendingType' /\ \A d \in Commands : d # c => pend'[d] = pend[d]
        /\ pend'[c].rows = pend[c].rows /\ pend'[c].hist = pend[c].hist \cup h
        /\ pend'[c].eps = pend[c].eps /\ pend'[c].done = pend[c].done
    BY <1>0, <1>7, Notes
  <2> QED
    BY <2>1 DEF h
<1>9. CommandFits(c)'
  BY <1>0, <1>1, <1>4, <1>5 DEF CommandFits, Steps, Fits, Contents
<1>10. Written(c)' = {}
  BY <1>6, <1>8 DEF Written
<1>11. WritesFit(c)'
  BY <1>0, <1>1, <1>5, <1>8, <1>10 DEF WritesFit, Steps, Contents, Copying
<1>12. ReadsFit(c)'
  BY <1>0, <1>1, <1>5, <1>8, ReadsKept DEF Reads, Steps
<1>13. /\ EpisodesFit(c)' /\ EpisodesType'
       /\ DOMAIN episodes \subseteq DOMAIN episodes' /\ clock <= clock'
  BY <1>0, <1>5, <1>8, EpisodesKept DEF Steps, Capturing
<1> QED
  BY <1>0, <1>5, <1>8, <1>9, <1>11, <1>12, <1>13 DEF Result, Alone, Steps, Quiet, Copying

\* A consolidation goes on to its next fact.
LEMMA NextFactSafe ==
  ASSUME CommandsInv, NEW c \in Commands, cmd[c].pc \in {"fetch", "link"},
         NEW todo \in SUBSET Keys, todo \cap Written(c) = {}, NEW batch, batch \subseteq DOMAIN episodes,
         NextFact(c, todo, batch), UNCHANGED <<facts, points, nodes, spoiled, episodes, clock, pend>>
  PROVE  Result(c) /\ Quiet(c)
<1>0. /\ CommandsType /\ PendingType /\ EpisodesType /\ CommandFits(c) /\ WritesFit(c) /\ ReadsFit(c)
      /\ EpisodesFit(c)
  BY DEF CommandsInv
<1>1. cmd[c].op = "consolidate"
  BY <1>0 DEF CommandFits, Fits
<1>2. batch \in SUBSET Nat
  BY <1>0 DEF EpisodesType
<1>3. Written(c)' = Written(c)
  BY DEF Written
<1>4. ToFact(c, todo, batch)
  BY <1>0, <1>2, StepsToFact
<1>5. /\ CommandsType' /\ \A d \in Commands : d # c => cmd'[d] = cmd[d]
      /\ cmd'[c].op = "consolidate" /\ cmd'[c].raced = cmd[c].raced /\ cmd'[c].prev = cmd[c].prev
      /\ cmd'[c].batch = batch /\ cmd'[c].pc \in {"mark", "find"}
      /\ cmd'[c].todo \cap Written(c) = {} /\ cmd'[c].key \notin cmd'[c].todo
      /\ cmd'[c].pc = "find" => /\ cmd'[c].key \in Keys /\ cmd'[c].value \in Values
                                /\ cmd'[c].key \notin Written(c)
  BY <1>1, <1>4, Constants DEF Steps, ToFact
<1>6. CommandFits(c)'
  BY <1>5 DEF CommandFits, Fits, Contents
<1>7. WritesFit(c)'
  BY <1>3, <1>5 DEF WritesFit, Contents, Copying
<1>8. ReadsFit(c)'
  <2>1. ~Reads(c)'
    BY <1>5 DEF Reads, Contents
  <2> QED
    BY <1>0, <1>1, <1>5, <2>1, ReadsKept
<1>9. /\ EpisodesFit(c)' /\ EpisodesType'
      /\ DOMAIN episodes \subseteq DOMAIN episodes' /\ clock <= clock'
  BY <1>0, <1>5 DEF EpisodesFit, EpisodesType, Capturing
<1> QED
  BY <1>0, <1>5, <1>6, <1>7, <1>8, <1>9 DEF Result, Alone, Quiet, PendingType, Copying

\* A consolidation fetches its batch.
LEMMA FetchSafe == ASSUME CommandsInv, NEW c \in Commands, Fetch(c) PROVE Result(c) /\ Quiet(c)
<1> DEFINE batch == Oldest(Unconsolidated)
<1>0. /\ CommandsType /\ PendingType /\ EpisodesType /\ CommandFits(c) /\ WritesFit(c) /\ EpisodesFit(c)
      /\ UNCHANGED <<facts, points, nodes, spoiled, episodes, clock, pend>> /\ cmd[c].pc = "fetch"
  BY DEF CommandsInv, Fetch, stores
<1>1. cmd[c].op = "consolidate" /\ Written(c) = {}
  BY <1>0 DEF CommandFits, WritesFit, Fits, Copying
<1>2. batch \subseteq DOMAIN episodes
  BY DEF Oldest, Unconsolidated
<1> HIDE DEF batch
<1>3. CASE cmd' = [cmd EXCEPT ![c].pc = "commit"]
  <2>1. Steps(c, "commit", {})
    BY <1>0, <1>3, StepsOn DEF StepNames
  <2>2. /\ CommandsType' /\ PendingType' /\ Alone(c)
        /\ CommandFits(c)' /\ WritesFit(c)' /\ ReadsFit(c)' /\ Quiet(c)
    BY <1>0, <1>1, <2>1, PlainStep DEF PendingType, Fits, Copying
  <2>3. /\ EpisodesFit(c)' /\ EpisodesType'
        /\ DOMAIN episodes \subseteq DOMAIN episodes' /\ clock <= clock'
    BY <1>0, <2>1, EpisodesKept DEF Steps, Capturing
  <2> QED
    BY <2>2, <2>3 DEF Result
<1>4. CASE \E todo \in SUBSET Keys : NextFact(c, todo, batch)
  <2>1. PICK todo \in SUBSET Keys : NextFact(c, todo, batch)
    BY <1>4
  <2> QED
    BY <1>0, <1>1, <1>2, <2>1, NextFactSafe
<1> QED
  BY <1>3, <1>4 DEF Fetch, batch

\* A consolidation links a fact to its episodes.
LEMMA LinkSafe == ASSUME CommandsInv, NEW c \in Commands, Link(c) PROVE Result(c) /\ Quiet(c)
<1>0. /\ CommandsType /\ WritesFit(c) /\ EpisodesFit(c) /\ cmd[c].pc = "link"
      /\ UNCHANGED <<facts, points, nodes, spoiled, episodes, clock, pend>>
      /\ NextFact(c, cmd[c].todo, cmd[c].batch)
  BY DEF CommandsInv, Link
<1>1. /\ cmd[c].todo \in SUBSET Keys /\ cmd[c].todo \cap Written(c) = {}
      /\ cmd[c].batch \subseteq DOMAIN episodes
  BY <1>0 DEF CommandsType, Command, WritesFit, EpisodesFit, Copying
<1> QED
  BY <1>0, <1>1, NextFactSafe
-----------------------------------------------------------------------------
(* Steps that write a fact. *)

\* A row is flushed.
LEMMA Flushes ==
  ASSUME PendingType, NEW c \in Commands, NEW k \in Keys, NEW row \in Row,
         pend' = [pend EXCEPT ![c].rows[k] = row]
  PROVE  /\ PendingType' /\ \A d \in Commands : d # c => pend'[d] = pend[d]
         /\ pend'[c].rows = [pend[c].rows EXCEPT ![k] = row] /\ pend'[c].hist = pend[c].hist
         /\ pend'[c].eps = pend[c].eps /\ pend'[c].done = pend[c].done
         /\ Written(c)' = Written(c) \cup {k}
<1>1. pend[c] \in Pending /\ pend[c].rows \in [Keys -> Row \cup {None}]
  BY DEF PendingType, Pending
<1> DEFINE w == [pend[c] EXCEPT !.rows = [pend[c].rows EXCEPT ![k] = row]]
<1>2. pend' = [pend EXCEPT ![c] = w]
  BY <1>1 DEF Pending
<1>3. /\ w \in Pending /\ w.rows = [pend[c].rows EXCEPT ![k] = row] /\ w.hist = pend[c].hist
      /\ w.eps = pend[c].eps /\ w.done = pend[c].done
  BY <1>1 DEF Pending
<1> HIDE DEF w
<1>4. PendingType' /\ pend'[c] = w /\ \A d \in Commands : d # c => pend'[d] = pend[d]
  BY <1>2, <1>3 DEF PendingType
<1>5. Written(c)' = Written(c) \cup {k}
  BY <1>1, <1>3, <1>4, Constants DEF Written
<1> QED
  BY <1>3, <1>4, <1>5

\* What a flush does to the state that other lemmas look at.
Flushed(c, row) ==
  /\ UNCHANGED <<facts, points, nodes, spoiled>> /\ cmd'[c].key = cmd[c].key /\ cmd[c].key \in Keys
  /\ pend'[c].rows = [pend[c].rows EXCEPT ![cmd[c].key] = row]
  /\ Written(c)' = Written(c) \cup {cmd[c].key}

\* A fact is saved.
LEMMA SaveSafe ==
  ASSUME CommandsInv, NEW c \in Commands, Save(c)
  PROVE  Result(c) /\ Flushed(c, Recorded(c)) /\ cmd'[c].pc = "index"
<1>0. /\ CommandsType /\ PendingType /\ EpisodesType /\ CommandFits(c) /\ WritesFit(c) /\ ReadsFit(c)
      /\ EpisodesFit(c) /\ UNCHANGED <<facts, points, nodes, spoiled, episodes, clock>>
      /\ cmd[c].pc = "save" /\ cmd[c] \in Command /\ pend[c].rows \in [Keys -> Row \cup {None}]
  BY DEF CommandsInv, Save, stores, CommandsType, PendingType, Pending
<1>1. Fits(cmd[c].op, "save") /\ cmd[c].op \in {"record", "update", "refine", "consolidate"}
  BY <1>0 DEF CommandFits, Fits
<1>2. After(c) = "index" /\ "index" \in StepNames
  BY <1>0, <1>1, AfterTable DEF Follows, StepNames
<1>3. Steps(c, "index", {})
  BY <1>0, <1>2, StepsOn DEF Save, Advance
<1>4. cmd[c].key \in Keys /\ cmd[c].value \in Values
  BY <1>0 DEF CommandFits
<1> DEFINE row == Recorded(c)
<1>5. row \in Row
  BY <1>0, <1>4, RecordedIsRow
<1>6. pend' = [pend EXCEPT ![c].rows[cmd[c].key] = row]
  BY DEF Save
<1>7. Recorded(c)' = row
  BY <1>3 DEF Recorded, Steps
<1>8. cmd[c].old # None => row.until = cmd[c].old.until /\ row.archived = cmd[c].old.archived
  BY DEF Recorded
<1> HIDE DEF row
<1>9. /\ PendingType' /\ \A d \in Commands : d # c => pend'[d] = pend[d]
      /\ pend'[c].rows = [pend[c].rows EXCEPT ![cmd[c].key] = row] /\ pend'[c].hist = pend[c].hist
      /\ pend'[c].eps = pend[c].eps /\ pend'[c].done = pend[c].done
      /\ Written(c)' = Written(c) \cup {cmd[c].key}
  BY <1>0, <1>4, <1>5, <1>6, Flushes
<1>10. CommandFits(c)'
  BY <1>0, <1>1, <1>3, <1>4 DEF CommandFits, Steps, Fits, Contents
<1>11. WritesFit(c)'
  <2>1. pend'[c].rows[cmd'[c].key] = Recorded(c)'
    BY <1>0, <1>3, <1>4, <1>7, <1>9 DEF Steps
  <2>2. Written(c)' \cap cmd'[c].todo = {} /\ cmd'[c].key \notin cmd'[c].todo
    BY <1>0, <1>3, <1>9 DEF WritesFit, Steps, Copying
  <2>3. cmd'[c].op \in Contents =>
          /\ Written(c)' \subseteq {cmd'[c].key}
          /\ <<cmd'[c].key, cmd'[c].old.value>> \in pend'[c].hist
    BY <1>0, <1>3, <1>9 DEF WritesFit, Steps, Contents, Copying
  <2>4. cmd'[c].key \in Written(c)'
    BY <1>3, <1>9 DEF Steps
  <2> QED
    BY <1>3, <2>1, <2>2, <2>3, <2>4 DEF WritesFit, Steps, Copying
<1>12. ReadsFit(c)'
  <2>1. Reads(c)' => Reads(c)
    BY <1>0, <1>3 DEF Reads, Steps
  <2>2. ASSUME cmd[c].op \in ContentOps, NEW k \in Written(c)', k \notin cmd[c].raced, facts[k] # None
        PROVE  pend'[c].rows[k].until = facts[k].until /\ pend'[c].rows[k].archived = facts[k].archived
    <3>1. CASE k = cmd[c].key
      <4>1. Reads(c)
        BY <1>0, <2>2 DEF Reads, ContentOps, Contents
      <4>2. cmd[c].old = facts[k]
        BY <1>0, <2>2, <3>1, <4>1 DEF ReadsFit
      <4> QED
        BY <1>0, <1>4, <1>8, <1>9, <2>2, <3>1, <4>2
    <3>2. CASE k # cmd[c].key
      <4>1. k \in Written(c) /\ k \in Keys
        BY <1>9, <3>2 DEF Written
      <4> QED
        BY <1>0, <1>4, <1>9, <2>2, <3>2, <4>1 DEF ReadsFit
    <3> QED
      BY <3>1, <3>2
  <2> QED
    BY <1>0, <1>3, <2>1, <2>2 DEF ReadsFit, Steps
<1>13. /\ EpisodesFit(c)' /\ EpisodesType'
       /\ DOMAIN episodes \subseteq DOMAIN episodes' /\ clock <= clock'
  BY <1>0, <1>3, <1>9, EpisodesKept DEF Steps, Capturing
<1> QED
  BY <1>0, <1>3, <1>4, <1>9, <1>10, <1>11, <1>12, <1>13 DEF Result, Alone, Steps, Flushed, row

\* A fact is invalidated or archived.
LEMMA FlagSafe ==
  ASSUME CommandsInv, NEW c \in Commands, Flag(c)
  PROVE  /\ Result(c) /\ Flushed(c, Flagged(cmd[c].op, facts[cmd[c].key]))
         /\ cmd'[c].pc = "flagindex" /\ cmd'[c].op = cmd[c].op /\ facts[cmd[c].key] # None
<1>0. /\ CommandsType /\ PendingType /\ RowsType /\ EpisodesType /\ CommandFits(c) /\ WritesFit(c)
      /\ ReadsFit(c)
      /\ EpisodesFit(c) /\ UNCHANGED <<facts, points, nodes, spoiled, episodes, clock>>
      /\ cmd[c].pc = "flag" /\ cmd[c] \in Command
  BY DEF CommandsInv, Flag, stores, CommandsType
<1>1. Fits(cmd[c].op, "flag") /\ cmd[c].op \in {"invalidate", "archive"}
  BY <1>0 DEF CommandFits, Fits
<1>2. After(c) = "flagindex" /\ "flagindex" \in StepNames
  BY <1>0, <1>1, AfterTable DEF Follows, StepNames
<1>3. Steps(c, "flagindex", {})
  BY <1>0, <1>2, StepsOn DEF Flag, Advance
<1>4. cmd[c].key \in Keys /\ Written(c) = {} /\ facts[cmd[c].key] # None
  BY <1>0 DEF CommandFits, WritesFit, ReadsFit, Copying
<1>5. find_by_key(c, cmd[c].key) = facts[cmd[c].key] /\ facts[cmd[c].key] \in Row
  BY <1>0, <1>4, Finds DEF RowsType
<1> DEFINE row == Flagged(cmd[c].op, facts[cmd[c].key])
<1>6. row \in Row
  BY <1>5 DEF Flagged, invalidate, archive, Row
<1>7. pend' = [pend EXCEPT ![c].rows[cmd[c].key] = row]
  BY <1>5 DEF Flag
<1> HIDE DEF row
<1>9. /\ PendingType' /\ \A d \in Commands : d # c => pend'[d] = pend[d]
      /\ pend'[c].rows = [pend[c].rows EXCEPT ![cmd[c].key] = row] /\ pend'[c].hist = pend[c].hist
      /\ pend'[c].eps = pend[c].eps /\ pend'[c].done = pend[c].done
      /\ Written(c)' = Written(c) \cup {cmd[c].key}
  BY <1>0, <1>4, <1>6, <1>7, Flushes
<1>10. CommandFits(c)'
  BY <1>0, <1>1, <1>3, <1>4 DEF CommandFits, Steps, Fits, Contents
<1>11. WritesFit(c)'
  BY <1>0, <1>1, <1>3, <1>4, <1>9 DEF WritesFit, Steps, Contents, Copying
<1>12. ReadsFit(c)'
  BY <1>1, <1>3 DEF ReadsFit, Reads, Steps, Contents, ContentOps
<1>13. /\ EpisodesFit(c)' /\ EpisodesType'
       /\ DOMAIN episodes \subseteq DOMAIN episodes' /\ clock <= clock'
  BY <1>0, <1>3, <1>9, EpisodesKept DEF Steps, Capturing
<1> QED
  BY <1>0, <1>3, <1>4, <1>9, <1>10, <1>11, <1>12, <1>13 DEF Result, Alone, Steps, Flushed, row

\* The row is copied to the index or the graph, or that fails.
CopyStep(c) ==
  \/ IndexUpsert(c) \/ GraphUpsert(c) \/ FlagIndex(c) \/ FlagGraph(c) \/ SkipWrite(c)

\* What all of these have in common.
LEMMA CopyForm ==
  ASSUME NEW c \in Commands, CopyStep(c)
  PROVE  /\ cmd[c].pc \in Copying /\ Advance(c)
         /\ UNCHANGED <<facts, history, episodes, procedures, edges, epNodes, pend, locks, clock>>
<1>1. CASE IndexUpsert(c)
  BY <1>1 DEF IndexUpsert, Copying
<1>2. CASE GraphUpsert(c)
  BY <1>2 DEF GraphUpsert, Copying
<1>3. CASE FlagIndex(c)
  BY <1>3 DEF FlagIndex, Copying
<1>4. CASE FlagGraph(c)
  BY <1>4 DEF FlagGraph, Copying
<1>5. CASE SkipWrite(c)
  BY <1>5 DEF SkipWrite, Copying, stores
<1> QED
  BY <1>1, <1>2, <1>3, <1>4, <1>5 DEF CopyStep

\* A copy moves its command on.
LEMMA CopySafe ==
  ASSUME CommandsInv, NEW c \in Commands, CopyStep(c)
  PROVE  Result(c) /\ Steps(c, After(c), {}) /\ Follows(cmd[c].op, cmd[c].pc, After(c))
<1>0. /\ CommandsType /\ PendingType /\ EpisodesType /\ CommandFits(c) /\ WritesFit(c) /\ ReadsFit(c)
      /\ EpisodesFit(c) /\ UNCHANGED <<facts, episodes, clock, pend>>
      /\ cmd[c].pc \in {"index", "graph", "flagindex", "flaggraph"} /\ Advance(c)
  BY CopyForm DEF CommandsInv, Copying
<1>1. Fits(cmd[c].op, cmd[c].pc)
  BY <1>0 DEF CommandFits
<1>2. Follows(cmd[c].op, cmd[c].pc, After(c))
  BY <1>1, AfterTable
<1>3. /\ After(c) \in {"graph", "link", "flaggraph", "commit"} /\ Fits(cmd[c].op, After(c))
      /\ After(c) = "graph" => cmd[c].pc = "index"
      /\ After(c) = "flaggraph" => cmd[c].pc = "flagindex"
      /\ After(c) = "link" => cmd[c].pc = "graph"
      /\ cmd[c].op \in Contents => cmd[c].pc \in {"index", "graph"}
  BY <1>0, <1>1, <1>2 DEF Follows, Fits, Contents
<1>4. Steps(c, After(c), {})
  BY <1>0, <1>3, StepsOn DEF Advance, StepNames
<1>5. CommandFits(c)'
  BY <1>0, <1>3, <1>4 DEF CommandFits, Steps
<1>6. Written(c)' = Written(c) /\ Recorded(c)' = Recorded(c)
  BY <1>0, <1>4 DEF Written, Recorded, Steps
<1>7. WritesFit(c)'
  BY <1>0, <1>3, <1>4, <1>6 DEF WritesFit, Steps, Copying
<1>8. ReadsFit(c)'
  <2>1. Reads(c)' => Reads(c)
    BY <1>3, <1>4 DEF Reads, Steps
  <2> QED
    BY <1>0, <1>3, <1>4, <2>1, ReadsKept DEF Steps
<1>9. /\ EpisodesFit(c)' /\ EpisodesType'
      /\ DOMAIN episodes \subseteq DOMAIN episodes' /\ clock <= clock'
  BY <1>0, <1>3, <1>4, EpisodesKept DEF Steps, Capturing
<1> QED
  BY <1>0, <1>2, <1>4, <1>5, <1>7, <1>8, <1>9 DEF Result, Alone, Steps, PendingType
-----------------------------------------------------------------------------
(* The end of a transaction. *)

\* A command that is over has no locals and nothing pending.
LEMMA IdleFits ==
  ASSUME NEW c \in Commands, cmd'[c] = Idle, pend'[c] = NothingPending
  PROVE  /\ CommandFits(c)' /\ WritesFit(c)' /\ ReadsFit(c)' /\ EpisodesFit(c)'
         /\ Written(c)' = {} /\ Idle.raced = {}
<1>1. /\ cmd'[c].pc = "idle" /\ cmd'[c].todo = {} /\ cmd'[c].prev = None /\ cmd'[c].batch = {}
      /\ Idle.raced = {}
  BY DEF Idle
<1>2. Written(c)' = {} /\ pend'[c].eps = {} /\ pend'[c].done = {}
  BY DEF Written, NothingPending
<1>3. cmd'[c].op = None /\ cmd'[c].key = None
  BY DEF Idle
<1>4. CommandFits(c)'
  <2>1. cmd'[c].op \notin Contents \cup {"record", "update", "evolve", "consolidate"}
    BY <1>3, Constants DEF Contents, Operations
  <2> QED
    BY <1>1, <2>1 DEF CommandFits
<1>5. WritesFit(c)'
  BY <1>1, <1>2 DEF WritesFit, Copying
<1>6. ReadsFit(c)'
  BY <1>1, <1>2 DEF ReadsFit, Reads
<1>7. EpisodesFit(c)'
  BY <1>1, <1>2 DEF EpisodesFit, Capturing
<1> QED
  BY <1>1, <1>2, <1>4, <1>5, <1>6, <1>7

\* A transaction ends.
LEMMA Ending ==
  ASSUME PendingType, NEW c \in Commands, EndTransaction(c)
  PROVE  PendingType' /\ pend'[c] = NothingPending /\ \A d \in Commands : d # c => pend'[d] = pend[d]
<1>1. NothingPending \in Pending
  BY DEF NothingPending, Pending
<1> HIDE DEF NothingPending
<1> QED
  BY <1>1 DEF EndTransaction, PendingType

\* A command fails.
LEMMA RollbackSafe ==
  ASSUME CommandsInv, NEW c \in Commands, Rollback(c)
  PROVE  Result(c) /\ Written(c)' = {}
<1>0. /\ CommandsType /\ PendingType /\ EpisodesType /\ UNCHANGED <<facts, episodes, clock>>
      /\ cmd' = [cmd EXCEPT ![c] = Idle] /\ EndTransaction(c)
  BY DEF CommandsInv, Rollback, stores
<1>1. CommandsType' /\ cmd'[c] = Idle /\ \A d \in Commands : d # c => cmd'[d] = cmd[d]
  BY <1>0, StepsToIdle
<1>2. PendingType' /\ pend'[c] = NothingPending /\ \A d \in Commands : d # c => pend'[d] = pend[d]
  BY <1>0, Ending
<1>3. /\ CommandFits(c)' /\ WritesFit(c)' /\ ReadsFit(c)' /\ EpisodesFit(c)' /\ Written(c)' = {}
  BY <1>1, <1>2, IdleFits
<1>4. EpisodesType' /\ DOMAIN episodes \subseteq DOMAIN episodes' /\ clock <= clock'
  BY <1>0 DEF EpisodesType
<1> QED
  BY <1>1, <1>2, <1>3, <1>4 DEF Result, Alone

\* What a commit leaves of another command: all but the facts that it has overtaken.
Overtaken(c, d) ==
  /\ cmd'[d].pc = cmd[d].pc /\ cmd'[d].op = cmd[d].op /\ cmd'[d].key = cmd[d].key
  /\ cmd'[d].value = cmd[d].value /\ cmd'[d].old = cmd[d].old /\ cmd'[d].todo = cmd[d].todo
  /\ cmd'[d].batch = cmd[d].batch /\ cmd'[d].prev = cmd[d].prev /\ cmd'[d].ep = cmd[d].ep
  /\ cmd[d].pc # "idle" => cmd'[d].raced = cmd[d].raced \cup Written(c)
  /\ pend'[d] = pend[d]

\* A commit, seen from all commands.
LEMMA CommitForm ==
  ASSUME CommandsInv, NEW c \in Commands, Commit(c)
  PROVE  /\ CommandsType' /\ PendingType' /\ RowsType' /\ EpisodesType'
         /\ cmd'[c] = Idle /\ pend'[c] = NothingPending
         /\ \A d \in Commands : d # c => Overtaken(c, d)
         /\ facts' = [k \in Keys |-> find_by_key(c, k)]
         /\ DOMAIN episodes \subseteq DOMAIN episodes' /\ clock <= clock'
<1>0. /\ CommandsType /\ PendingType /\ RowsType /\ EpisodesType /\ EpisodesFit(c)
      /\ UNCHANGED <<points, nodes, clock>> /\ EndTransaction(c)
      /\ facts' = [k \in Keys |-> find_by_key(c, k)]
  BY DEF CommandsInv, Commit
<1>1. PendingType' /\ pend'[c] = NothingPending /\ \A d \in Commands : d # c => pend'[d] = pend[d]
  BY <1>0, Ending
<1>2. RowsType'
  <2>1. \A k \in Keys : find_by_key(c, k) \in Row \cup {None}
    BY <1>0, Finds
  <2> QED
    BY <1>0, <2>1 DEF RowsType
<1>3. DOMAIN episodes' = DOMAIN episodes \cup pend[c].eps
  BY DEF Commit
<1>4. EpisodesType' /\ DOMAIN episodes \subseteq DOMAIN episodes' /\ clock <= clock'
  BY <1>0, <1>3 DEF EpisodesType, EpisodesFit
<1> DEFINE Raced(d) == IF cmd[d].pc = "idle" THEN {} ELSE cmd[d].raced \cup Written(c)
<1>5. cmd' = [d \in Commands |-> IF d = c THEN Idle ELSE [cmd[d] EXCEPT !.raced = Raced(d)]]
  BY <1>0 DEF Commit, CommandsType, Command
<1>6. Idle \in Command
  BY DEF Idle, Command, StepNames
<1>7. ASSUME NEW d \in Commands, d # c PROVE cmd'[d] \in Command /\ Overtaken(c, d)
  <2>1. cmd[d] \in Command /\ Raced(d) \in SUBSET Keys
    BY <1>0 DEF CommandsType, Command, Written
  <2>2. cmd'[d] = [cmd[d] EXCEPT !.raced = Raced(d)]
    BY <1>5, <1>7
  <2>3. cmd[d].pc # "idle" => Raced(d) = cmd[d].raced \cup Written(c)
    OBVIOUS
  <2> HIDE DEF Raced
  <2> QED
    BY <1>1, <1>7, <2>1, <2>2, <2>3 DEF Command, Overtaken
<1>8. cmd'[c] = Idle /\ DOMAIN cmd' = Commands
  BY <1>5
<1>9. CommandsType'
  <2> DEFINE f == [d \in Commands |-> IF d = c THEN Idle ELSE [cmd[d] EXCEPT !.raced = Raced(d)]]
  <2>1. \A d \in Commands : f[d] \in Command
    BY <1>5, <1>6, <1>7, <1>8
  <2>2. f \in [Commands -> Command]
    BY <2>1
  <2> QED
    BY <1>5, <2>2 DEF CommandsType
<1> QED
  BY <1>0, <1>1, <1>2, <1>4, <1>7, <1>8, <1>9

\* A commit keeps what is known of the other commands.
LEMMA OvertakenFits ==
  ASSUME CommandsInv, NEW c \in Commands, Commit(c), NEW d \in Commands, d # c
  PROVE  CommandFits(d)' /\ WritesFit(d)' /\ ReadsFit(d)' /\ EpisodesFit(d)' /\ Written(d)' = Written(d)
<1>0. /\ CommandsType /\ PendingType /\ RowsType /\ EpisodesType
      /\ CommandFits(d) /\ WritesFit(d) /\ ReadsFit(d) /\ EpisodesFit(d)
  BY DEF CommandsInv
<1>1. /\ Overtaken(c, d) /\ facts' = [k \in Keys |-> find_by_key(c, k)]
      /\ DOMAIN episodes \subseteq DOMAIN episodes' /\ clock <= clock'
      /\ EpisodesType'
  BY CommitForm
<1>2. Written(d)' = Written(d) /\ Recorded(d)' = Recorded(d)
  BY <1>1 DEF Overtaken, Written, Recorded
<1>3. CommandFits(d)'
  BY <1>0, <1>1 DEF CommandFits, Overtaken
<1>4. WritesFit(d)'
  BY <1>0, <1>1, <1>2 DEF WritesFit, Overtaken, Copying
<1>5. \A k \in Keys : /\ k \notin Written(c) => facts'[k] = facts[k]
                      /\ facts[k] # None => facts'[k] # None
  BY <1>0, <1>1, Finds, Constants
<1>6. ReadsFit(d)'
  <2>1. Reads(d)' => Reads(d) /\ cmd[d].pc # "idle" /\ cmd[d].key \in Keys
    BY <1>0, <1>1 DEF Reads, Overtaken, CommandFits, Contents
  <2>2. Reads(d)' /\ cmd'[d].key \notin cmd'[d].raced => cmd'[d].old = facts'[cmd'[d].key]
    BY <1>0, <1>1, <1>5, <2>1 DEF ReadsFit, Overtaken
  <2>3. ASSUME cmd'[d].op \in ContentOps, NEW k \in Written(d)' \ cmd'[d].raced, facts'[k] # None
        PROVE  pend'[d].rows[k].until = facts'[k].until /\ pend'[d].rows[k].archived = facts'[k].archived
    <3>1. k \in Keys /\ k \in Written(d)
      BY <1>2, <2>3 DEF Written
    <3>2. cmd[d].pc # "idle"
      BY <1>0, <3>1, NothingFlushed DEF CommandFits
    <3>3. k \notin cmd[d].raced /\ facts'[k] = facts[k]
      BY <1>1, <1>5, <2>3, <3>1, <3>2 DEF Overtaken
    <3> QED
      BY <1>0, <1>1, <2>3, <3>1, <3>3 DEF ReadsFit, Overtaken
  <2>4. cmd'[d].pc = "flag" => facts'[cmd'[d].key] # None
    BY <1>0, <1>1, <1>5 DEF ReadsFit, Overtaken, CommandFits
  <2> QED
    BY <2>2, <2>3, <2>4 DEF ReadsFit
<1>7. EpisodesFit(d)'
  BY <1>0, <1>1 DEF EpisodesFit, EpisodesType, Overtaken, Capturing, CommandsType, Command
<1> QED
  BY <1>2, <1>3, <1>4, <1>6, <1>7

\* A command that takes no step keeps what is known of it.
LEMMA OthersFit ==
  ASSUME CommandsInv, NEW c \in Commands, Result(c), facts' = facts, NEW d \in Commands, d # c
  PROVE  CommandFits(d)' /\ WritesFit(d)' /\ ReadsFit(d)' /\ EpisodesFit(d)' /\ Written(d)' = Written(d)
<1>0. /\ CommandFits(d) /\ WritesFit(d) /\ ReadsFit(d) /\ EpisodesFit(d) /\ EpisodesType /\ CommandsType
      /\ cmd'[d] = cmd[d] /\ pend'[d] = pend[d] /\ EpisodesType'
      /\ DOMAIN episodes \subseteq DOMAIN episodes' /\ clock <= clock'
  BY DEF CommandsInv, Result, Alone
<1>1. Written(d)' = Written(d) /\ Recorded(d)' = Recorded(d) /\ (Reads(d)' <=> Reads(d))
  BY <1>0 DEF Written, Recorded, Reads
<1>2. CommandFits(d)'
  BY <1>0 DEF CommandFits
<1>3. WritesFit(d)'
  BY <1>0, <1>1 DEF WritesFit, Copying
<1>4. ReadsFit(d)'
  BY <1>0, <1>1 DEF ReadsFit
<1>5. EpisodesFit(d)'
  BY <1>0 DEF EpisodesFit, EpisodesType, Capturing, CommandsType, Command
<1> QED
  BY <1>1, <1>2, <1>3, <1>4, <1>5
-----------------------------------------------------------------------------
(* Every step has one of six forms. *)

QuietStep(c) ==
  /\ Result(c) /\ Quiet(c)
  /\ locks' = locks \/ (TakeLock(c) /\ cmd[c].pc \in {"history", "mark", "procedure"})

StepForm(c) ==
  \/ QuietStep(c) \/ Save(c) \/ Flag(c) \/ CopyStep(c) \/ Rollback(c) \/ Commit(c)

\* The forms of a command's own steps.
LEMMA StepForms == ASSUME CommandsInv, NEW c \in Commands, Step(c) PROVE StepForm(c)
<1>1. CASE Classify(c)
  <2>1. CASE Rollback(c)
    BY <2>1 DEF StepForm
  <2>2. CASE ~Rollback(c)
    <3>1. /\ cmd[c].pc = "classify"
          /\ \E op \in Classifications : cmd' = [cmd EXCEPT ![c].op = op, ![c].pc = Dispatched(op)]
          /\ UNCHANGED <<stores, pend, locks, clock, started, spoiled>>
      BY <1>1, <2>2, Zenon DEF Classify
    <3>2. PICK op \in Classifications : cmd' = [cmd EXCEPT ![c].op = op, ![c].pc = Dispatched(op)]
      BY <3>1
    <3>3. UNCHANGED <<stores, pend, clock, spoiled>> /\ locks' = locks
      BY <3>1
    <3>4. Result(c) /\ Quiet(c)
      BY <3>1, <3>2, <3>3, ClassifySafe
    <3> QED
      BY <3>3, <3>4 DEF StepForm, QuietStep
  <2> QED
    BY <2>1, <2>2
<1>2. CASE Find(c)
  <2>1. CASE Rollback(c)
    BY <2>1 DEF StepForm
  <2>2. CASE ~Rollback(c)
    <3>1. /\ cmd[c].pc = "find"
          /\ ~(find_by_key(c, cmd[c].key) = None /\ cmd[c].op # "consolidate")
          /\ cmd' = [cmd EXCEPT ![c].old = find_by_key(c, cmd[c].key), ![c].pc = After(c),
                                ![c].raced = @ \ {cmd[c].key}]
          /\ UNCHANGED <<stores, pend, locks, clock, started, spoiled>>
      BY <1>2, <2>2, Zenon DEF Find
    <3>2. UNCHANGED <<stores, pend, clock, spoiled>> /\ locks' = locks
      BY <3>1
    <3>3. find_by_key(c, cmd[c].key) # None \/ cmd[c].op = "consolidate"
      BY <3>1
    <3>4. Result(c) /\ Quiet(c)
      BY <3>1, <3>2, <3>3, FindSafe
    <3> QED
      BY <3>2, <3>4 DEF StepForm, QuietStep
  <2> QED
    BY <2>1, <2>2
<1>3. CASE SaveHistory(c)
  <2>1. TakeLock(c) /\ cmd[c].pc = "history"
    BY <1>3 DEF SaveHistory
  <2> QED
    BY <1>3, <2>1, SaveHistorySafe DEF StepForm, QuietStep
<1>4. CASE \/ SaveEpisode(c) \/ IndexEpisode(c) \/ GraphEpisode(c) \/ Mark(c) \/ SaveProcedure(c)
  <2>1. locks' = locks \/ (TakeLock(c) /\ cmd[c].pc \in {"mark", "procedure"})
    <3>1. CASE SaveEpisode(c)
      BY <3>1 DEF SaveEpisode
    <3>2. CASE IndexEpisode(c)
      BY <3>2 DEF IndexEpisode
    <3>3. CASE GraphEpisode(c)
      <4>1. UNCHANGED <<facts, history, episodes, procedures, points, epPoints, nodes,
                        pend, locks, clock, started, spoiled>>
        BY <3>3, Zenon DEF GraphEpisode
      <4> QED
        BY <4>1
    <3>4. CASE Mark(c)
      BY <3>4 DEF Mark
    <3>5. CASE SaveProcedure(c)
      BY <3>5 DEF SaveProcedure
    <3> QED
      BY <1>4, <3>1, <3>2, <3>3, <3>4, <3>5
  <2> QED
    BY <1>4, <2>1, PlainSafe DEF StepForm, QuietStep
<1>5. CASE Recent(c)
  BY <1>5, RecentSafe DEF StepForm, QuietStep, Recent
<1>6. CASE Stamp(c)
  BY <1>6, StampSafe DEF StepForm, QuietStep, Stamp
<1>7. CASE Fetch(c)
  BY <1>7, FetchSafe DEF StepForm, QuietStep, Fetch
<1>8. CASE Link(c)
  BY <1>8, LinkSafe DEF StepForm, QuietStep, Link
<1>9. CASE Gather(c)
  BY <1>9, GatherSafe DEF StepForm, QuietStep, Gather
<1> QED
  BY <1>1, <1>2, <1>3, <1>4, <1>5, <1>6, <1>7, <1>8, <1>9 DEF Step, StepForm, CopyStep

\* The forms of any step.
LEMMA NextForms == ASSUME CommandsInv, Next PROVE \E c \in Commands : StepForm(c)
<1>1. PICK c \in Commands :
        \/ \E op \in Ops : \E i \in Inputs(op) : Start(c, op, i[1], i[2])
        \/ Step(c) \/ SkipWrite(c) \/ Raise(c) \/ DeadlockAbort(c)
  BY DEF Next
<1>2. ASSUME NEW op \in Ops, NEW i \in Inputs(op), Start(c, op, i[1], i[2]) PROVE StepForm(c)
  <2>1. Result(c) /\ Quiet(c)
    BY <1>2, StartSafe
  <2> QED
    BY <1>2, <2>1 DEF StepForm, QuietStep, Start
<1>3. SkipWrite(c) => StepForm(c)
  BY DEF StepForm, CopyStep
<1>4. Raise(c) \/ DeadlockAbort(c) => StepForm(c)
  BY DEF StepForm, Raise, DeadlockAbort
<1> QED
  BY <1>1, <1>2, <1>3, <1>4, StepForms

\* A copy leaves rows where rows were.
LEMMA CopyRows ==
  ASSUME CommandsInv, NEW c \in Commands, CopyStep(c)
  PROVE  /\ RowsType' /\ cmd[c].key \in Keys /\ cmd[c].key \in Written(c)
         /\ \A k \in Keys : k # cmd[c].key => points'[k] = points[k] /\ nodes'[k] = nodes[k]
<1>0. /\ CommandsType /\ PendingType /\ RowsType /\ CommandFits(c) /\ WritesFit(c) /\ facts' = facts
      /\ cmd[c].pc \in Copying
  BY CopyForm DEF CommandsInv
<1>1. cmd[c].key \in Keys /\ cmd[c].key \in Written(c)
  BY <1>0 DEF CommandFits, WritesFit, Copying
<1>2. CASE IndexUpsert(c)
  <2>1. Recorded(c) \in Row
    BY <1>0, <1>2, RecordedIsRow DEF IndexUpsert, CommandFits
  <2> QED
    BY <1>0, <1>1, <1>2, <2>1 DEF IndexUpsert, RowsType
<1>3. CASE GraphUpsert(c)
  <2>1. Recorded(c) \in Row
    BY <1>0, <1>3, RecordedIsRow DEF GraphUpsert, CommandFits
  <2> QED
    BY <1>0, <1>1, <1>3, <2>1 DEF GraphUpsert, RowsType
<1>4. \A row \in Row : Flagged(cmd[c].op, row) \in Row
  BY DEF Flagged, invalidate, archive, Row
<1>5. CASE FlagIndex(c)
  BY <1>0, <1>1, <1>4, <1>5 DEF FlagIndex, RowsType
<1>6. CASE FlagGraph(c)
  BY <1>0, <1>1, <1>4, <1>6 DEF FlagGraph, RowsType
<1>7. CASE SkipWrite(c)
  BY <1>0, <1>1, <1>7 DEF SkipWrite, RowsType, stores
<1> QED
  BY <1>1, <1>2, <1>3, <1>5, <1>6, <1>7 DEF CopyStep

\* CommandsInv is inductive.
LEMMA CommandsStep == CommandsInv /\ [Next]_vars => CommandsInv'
<1> SUFFICES ASSUME CommandsInv, [Next]_vars PROVE CommandsInv'
  OBVIOUS
<1>1. CASE Next
  <2>1. PICK c \in Commands : StepForm(c)
    BY <1>1, NextForms
  <2>2. ASSUME Result(c), facts' = facts, RowsType' PROVE CommandsInv'
    <3>1. \A d \in Commands : CommandFits(d)' /\ WritesFit(d)' /\ ReadsFit(d)' /\ EpisodesFit(d)'
      BY <2>2, OthersFit DEF Result
    <3> QED
      BY <2>2, <3>1 DEF CommandsInv, Result
  <2>3. RowsType
    BY DEF CommandsInv
  <2>4. CASE QuietStep(c)
    BY <2>2, <2>3, <2>4 DEF QuietStep, Quiet, RowsType
  <2>5. CASE Save(c)
    BY <2>2, <2>3, <2>5, SaveSafe DEF Flushed, RowsType
  <2>6. CASE Flag(c)
    BY <2>2, <2>3, <2>6, FlagSafe DEF Flushed, RowsType
  <2>7. CASE CopyStep(c)
    BY <2>2, <2>7, CopySafe, CopyRows, CopyForm
  <2>8. CASE Rollback(c)
    BY <2>2, <2>3, <2>8, RollbackSafe DEF Rollback, stores, RowsType
  <2>9. CASE Commit(c)
    <3>1. \A d \in Commands : CommandFits(d)' /\ WritesFit(d)' /\ ReadsFit(d)' /\ EpisodesFit(d)'
      BY <2>9, OvertakenFits, CommitForm, IdleFits
    <3> QED
      BY <2>9, <3>1, CommitForm DEF CommandsInv
  <2> QED
    BY <2>1, <2>4, <2>5, <2>6, <2>7, <2>8, <2>9 DEF StepForm
<1>2. CASE UNCHANGED vars
  <2>0. /\ UNCHANGED <<facts, points, nodes, cmd, pend, episodes, clock>> /\ CommandsType /\ PendingType
        /\ RowsType /\ EpisodesType
    BY <1>2 DEF vars, stores, CommandsInv
  <2>1. ASSUME NEW c \in Commands
        PROVE  CommandFits(c)' /\ WritesFit(c)' /\ ReadsFit(c)' /\ EpisodesFit(c)'
    <3>1. CommandFits(c) /\ WritesFit(c) /\ ReadsFit(c) /\ EpisodesFit(c)
      BY DEF CommandsInv
    <3>2. Written(c)' = Written(c) /\ Recorded(c)' = Recorded(c) /\ (Reads(c)' <=> Reads(c))
      BY <2>0 DEF Written, Recorded, Reads
    <3>3. CommandFits(c)'
      BY <2>0, <3>1 DEF CommandFits
    <3>4. WritesFit(c)'
      BY <2>0, <3>1, <3>2 DEF WritesFit
    <3>5. ReadsFit(c)'
      BY <2>0, <3>1, <3>2 DEF ReadsFit
    <3>6. EpisodesFit(c)'
      BY <2>0, <3>1 DEF EpisodesFit
    <3> QED
      BY <3>3, <3>4, <3>5, <3>6
  <2> QED
    BY <2>0, <2>1 DEF CommandsInv, CommandsType, PendingType, RowsType, EpisodesType
<1> QED
  BY <1>1, <1>2
-----------------------------------------------------------------------------
(* Locks. *)

\* A lock that is granted conflicts with nobody's.
LEMMA LockTaken ==
  ASSUME NEW c \in Commands, NEW r \in Rows, NEW m \in Modes, TakeLock(c), Wants(c) = {<<r, m>>},
         locks \subseteq Commands \X Rows \X Modes
  PROVE  /\ locks' \subseteq Commands \X Rows \X Modes
         /\ \A d \in Commands, k \in Keys :
              Holds(d, k)' <=> Holds(d, k) \/ (d = c /\ k = r /\ m # "share")
         /\ m # "share" => \A d \in Commands : d # c => ~Holds(d, r)
<1>1. locks' = locks \cup {<<c, r, m>>}
  BY DEF TakeLock
<1>2. ASSUME m # "share", NEW d \in Commands, d # c, Holds(d, r) PROVE FALSE
  <2>1. PICK l \in locks : l[1] = d /\ l[2] = r /\ l[3] # "share"
    BY <1>2 DEF Holds
  <2>2. l[3] \in Modes
    BY <2>1
  <2>3. Conflicts(l[3], m)
    BY <1>2, <2>1, <2>2 DEF Conflicts, Modes
  <2>4. WaitsFor(c, d)
    BY <1>2, <2>1, <2>3 DEF WaitsFor
  <2> QED
    BY <2>4 DEF TakeLock
<1>3. locks' \subseteq Commands \X Rows \X Modes
  BY <1>1
<1>4. ASSUME NEW d \in Commands, NEW k \in Keys
      PROVE  Holds(d, k)' <=> Holds(d, k) \/ (d = c /\ k = r /\ m # "share")
  <2>1. Holds(d, k) => Holds(d, k)'
    BY <1>1 DEF Holds
  <2>2. ASSUME d = c, k = r, m # "share" PROVE Holds(d, k)'
    <3> DEFINE l == <<c, r, m>>
    <3>1. l \in locks' /\ l[1] = d /\ l[2] = k /\ l[3] # "share"
      BY <1>1, <2>2
    <3> HIDE DEF l
    <3> QED
      BY <3>1 DEF Holds
  <2>3. ASSUME Holds(d, k)' PROVE Holds(d, k) \/ (d = c /\ k = r /\ m # "share")
    <3>1. PICK l \in locks' : l[1] = d /\ l[2] = k /\ l[3] # "share"
      BY <2>3 DEF Holds
    <3>2. CASE l \in locks
      BY <3>1, <3>2 DEF Holds
    <3>3. CASE l = <<c, r, m>>
      BY <3>1, <3>3
    <3> QED
      BY <1>1, <3>1, <3>2, <3>3
  <2> QED
    BY <2>1, <2>2, <2>3
<1> QED
  BY <1>2, <1>3, <1>4

\* The locks of the steps that flush no fact.
LEMMA QuietLocks ==
  ASSUME CommandsInv, LocksFit, NEW c \in Commands, QuietStep(c)
  PROVE  LocksKept /\ locks' \subseteq Commands \X Rows \X Modes
<1>1. CASE locks' = locks
  BY <1>1 DEF LocksFit, LocksKept, Holds
<1>2. CASE TakeLock(c) /\ cmd[c].pc = "history"
  <2>1. Wants(c) = {<<cmd[c].key, "share">>}
    BY <1>2 DEF Wants
  <2>2. cmd[c].key \in Rows /\ "share" \in Modes
    BY <1>2 DEF CommandsInv, CommandFits, Rows, Modes
  <2> QED
    BY <1>2, <2>1, <2>2, LockTaken DEF LocksFit, LocksKept
<1>3. CASE TakeLock(c) /\ cmd[c].pc = "mark"
  <2>1. Wants(c) = {<<"episodes", "nokey">>}
    BY <1>3 DEF Wants
  <2>2. "episodes" \in Rows /\ "nokey" \in Modes
    BY DEF Rows, Modes
  <2> QED
    BY <1>3, <2>1, <2>2, LockTaken, Constants DEF LocksFit, LocksKept
<1>4. CASE TakeLock(c) /\ cmd[c].pc = "procedure"
  <2>1. Wants(c) = {<<"procedure", "update">>}
    BY <1>4 DEF Wants
  <2>2. "procedure" \in Rows /\ "update" \in Modes
    BY DEF Rows, Modes
  <2> QED
    BY <1>4, <2>1, <2>2, LockTaken, Constants DEF LocksFit, LocksKept
<1> QED
  BY <1>1, <1>2, <1>3, <1>4 DEF QuietStep

\* A fact is flushed under its lock.
LEMMA FlushLocks ==
  ASSUME CommandsInv, LocksFit, NEW c \in Commands, Save(c) \/ Flag(c)
  PROVE  /\ locks' \subseteq Commands \X Rows \X Modes
         /\ \A d \in Commands, k \in Keys : Holds(d, k)' <=> Holds(d, k) \/ (d = c /\ k = cmd[c].key)
         /\ \A d \in Commands : cmd[c].key \notin Written(d)
<1>1. cmd[c].pc \in {"save", "flag"} /\ TakeLock(c)
  BY DEF Save, Flag
<1>2. cmd[c].key \in Keys /\ cmd[c].key \notin Written(c)
  BY <1>1 DEF CommandsInv, CommandFits, WritesFit
<1>3. PICK m \in {"update", "nokey"} : Wants(c) = {<<cmd[c].key, m>>}
  BY <1>1 DEF Wants
<1>4. cmd[c].key \in Rows /\ m \in Modes /\ m # "share"
  BY <1>2 DEF Rows, Modes
<1>5. /\ locks' \subseteq Commands \X Rows \X Modes
      /\ \A d \in Commands, k \in Keys :
           Holds(d, k)' <=> Holds(d, k) \/ (d = c /\ k = cmd[c].key /\ m # "share")
      /\ \A d \in Commands : d # c => ~Holds(d, cmd[c].key)
  BY <1>1, <1>3, <1>4, LockTaken DEF LocksFit
<1> QED
  BY <1>2, <1>4, <1>5 DEF LocksFit

\* The end of a transaction releases its locks.
LEMMA EndingLocks ==
  ASSUME LocksFit, NEW c \in Commands, EndTransaction(c)
  PROVE  /\ locks' \subseteq Commands \X Rows \X Modes
         /\ \A d \in Commands, k \in Keys : Holds(d, k)' <=> Holds(d, k) /\ d # c
  BY DEF LocksFit, EndTransaction, Holds

\* LocksFit is inductive.
LEMMA LocksStep == CommandsInv /\ LocksFit /\ [Next]_vars => LocksFit'
<1> SUFFICES ASSUME CommandsInv, LocksFit, [Next]_vars PROVE LocksFit'
  OBVIOUS
<1>1. CASE Next
  <2>1. PICK c \in Commands : StepForm(c)
    BY <1>1, NextForms
  <2>2. ASSUME LocksKept, locks' \subseteq Commands \X Rows \X Modes,
               \A d \in Commands : Written(d)' = Written(d)
        PROVE  LocksFit'
    BY <2>2 DEF LocksFit, LocksKept
  <2>3. CASE QuietStep(c)
    <3>1. Result(c) /\ facts' = facts /\ Written(c)' = Written(c)
      BY <2>3 DEF QuietStep, Quiet, Written
    <3>2. \A d \in Commands : Written(d)' = Written(d)
      BY <3>1, OthersFit
    <3> QED
      BY <2>2, <2>3, <3>2, QuietLocks
  <2>4. ASSUME Result(c), facts' = facts, Written(c)' = Written(c) \cup {cmd[c].key}, cmd[c].key \in Keys,
               Save(c) \/ Flag(c)
        PROVE  LocksFit'
    <3>1. \A d \in Commands : d # c => Written(d)' = Written(d)
      BY <2>4, OthersFit
    <3>2. /\ locks' \subseteq Commands \X Rows \X Modes
          /\ \A d \in Commands, k \in Keys : Holds(d, k)' <=> Holds(d, k) \/ (d = c /\ k = cmd[c].key)
          /\ \A d \in Commands : cmd[c].key \notin Written(d)
      BY <2>4, FlushLocks
    <3>3. ASSUME NEW d \in Commands, NEW k \in Keys PROVE Holds(d, k)' <=> k \in Written(d)'
      BY <2>4, <3>1, <3>2 DEF LocksFit
    <3>4. ASSUME NEW d \in Commands, NEW e \in Commands, d # e PROVE Written(d)' \cap Written(e)' = {}
      BY <2>4, <3>1, <3>2, <3>4 DEF LocksFit
    <3> QED
      BY <3>2, <3>3, <3>4 DEF LocksFit
  <2>5. CASE Save(c)
    BY <2>4, <2>5, SaveSafe DEF Flushed
  <2>6. CASE Flag(c)
    BY <2>4, <2>6, FlagSafe DEF Flushed
  <2>7. CASE CopyStep(c)
    <3>1. UNCHANGED <<locks, pend>>
      BY <2>7, CopyForm
    <3> QED
      BY <2>2, <3>1 DEF LocksKept, Holds, Written, LocksFit
  <2>8. ASSUME EndTransaction(c), Written(c)' = {}, \A d \in Commands : d # c => Written(d)' = Written(d)
        PROVE  LocksFit'
    <3>1. /\ locks' \subseteq Commands \X Rows \X Modes
          /\ \A d \in Commands, k \in Keys : Holds(d, k)' <=> Holds(d, k) /\ d # c
      BY <2>8, EndingLocks
    <3> QED
      BY <2>8, <3>1 DEF LocksFit
  <2>9. CASE Rollback(c)
    BY <2>8, <2>9, RollbackSafe, OthersFit DEF Rollback, stores
  <2>10. CASE Commit(c)
    BY <2>8, <2>10, CommitForm, IdleFits, OvertakenFits DEF Commit
  <2> QED
    BY <2>1, <2>3, <2>5, <2>6, <2>7, <2>9, <2>10 DEF StepForm
<1>2. CASE UNCHANGED vars
  BY <1>2 DEF vars, LocksFit, Holds, Written
<1> QED
  BY <1>1, <1>2
-----------------------------------------------------------------------------
(* The copies of a fact. *)

\* A copy that nobody touches is as far as it was.
LEMMA CopiedKept ==
  ASSUME NEW d, NEW k, Copied(d, k), cmd'[d].pc = cmd[d].pc, cmd'[d].key = cmd[d].key,
         cmd'[d].op = cmd[d].op, pend'[d].rows = pend[d].rows, facts'[k] = facts[k],
         points'[k] = points[k], nodes'[k] = nodes[k],
         <<"index", k>> \notin spoiled' => <<"index", k>> \notin spoiled,
         <<"graph", k>> \notin spoiled' => <<"graph", k>> \notin spoiled
  PROVE  Copied(d, k)'
  BY DEF Copied, Flags

\* Nor does it get out of step.
LEMMA InStepKept ==
  ASSUME NEW k, InStep(k), facts'[k] = facts[k], points'[k] = points[k], nodes'[k] = nodes[k],
         <<"index", k>> \notin spoiled' => <<"index", k>> \notin spoiled,
         <<"graph", k>> \notin spoiled' => <<"graph", k>> \notin spoiled
  PROVE  InStep(k)'
  BY DEF InStep

\* A command that is not at a copy has made all of its copies.
LEMMA AllCopied ==
  ASSUME NEW c, NEW k, cmd[c].key # k \/ cmd[c].pc \notin Copying
  PROVE  Copied(c, k) <=> /\ <<"index", k>> \notin spoiled => points[k] = pend[c].rows[k]
                          /\ <<"graph", k>> \notin spoiled => nodes[k] = pend[c].rows[k]
  BY DEF Copied, Flags, Copying

\* Steps that write no fact.
LEMMA QuietCopies ==
  ASSUME CommandsInv, LocksFit, CopiesFit, NEW c \in Commands, QuietStep(c)
  PROVE  CopiesFit'
<1>0. /\ UNCHANGED <<facts, points, nodes, spoiled>> /\ pend'[c].rows = pend[c].rows
      /\ cmd[c].pc \notin Copying /\ cmd'[c].pc \notin Copying /\ Result(c) /\ Alone(c)
  BY DEF QuietStep, Quiet, Result
<1>1. \A d \in Commands : Written(d)' = Written(d)
  BY <1>0, OthersFit DEF Written
<1>2. ASSUME NEW k \in Keys, \A d \in Commands : k \notin Written(d)' PROVE InStep(k)'
  BY <1>0, <1>1, <1>2, InStepKept DEF CopiesFit
<1>3. ASSUME NEW d \in Commands, NEW k \in Written(d)' PROVE Copied(d, k)'
  <2>1. Copied(d, k)
    BY <1>1 DEF CopiesFit
  <2>2. CASE d = c
    <3>1. /\ <<"index", k>> \notin spoiled => points[k] = pend[c].rows[k]
          /\ <<"graph", k>> \notin spoiled => nodes[k] = pend[c].rows[k]
      BY <1>0, <2>1, <2>2, AllCopied
    <3> QED
      BY <1>0, <2>2, <3>1 DEF Copied, Flags, Copying
  <2>3. CASE d # c
    BY <1>0, <2>1, <2>3, CopiedKept DEF Alone
  <2> QED
    BY <2>2, <2>3
<1> QED
  BY <1>2, <1>3 DEF CopiesFit

\* A flush: the copies are those of the row before it.
LEMMA FlushCopies ==
  ASSUME CommandsInv, LocksFit, CopiesFit, NEW c \in Commands, NEW row, Result(c), Flushed(c, row),
         cmd[c].pc \notin Copying,
         \A d \in Commands : cmd[c].key \notin Written(d), InStep(cmd[c].key) => Copied(c, cmd[c].key)'
  PROVE  CopiesFit'
<1>0. /\ UNCHANGED <<facts, points, nodes, spoiled>> /\ cmd'[c].key = cmd[c].key
      /\ pend'[c].rows = [pend[c].rows EXCEPT ![cmd[c].key] = row] /\ cmd[c].key \in Keys
      /\ Written(c)' = Written(c) \cup {cmd[c].key} /\ Alone(c)
      /\ pend[c].rows \in [Keys -> Row \cup {None}]
  BY DEF Flushed, Result, CommandsInv, PendingType, Pending
<1>1. \A d \in Commands : d # c => Written(d)' = Written(d)
  BY <1>0, OthersFit
<1>2. ASSUME NEW k \in Keys, \A d \in Commands : k \notin Written(d)' PROVE InStep(k)'
  BY <1>0, <1>1, <1>2, InStepKept DEF CopiesFit
<1>3. ASSUME NEW d \in Commands, NEW k \in Written(d)' PROVE Copied(d, k)'
  <2>1. CASE d # c
    <3>1. cmd'[d] = cmd[d] /\ pend'[d] = pend[d] /\ Copied(d, k)
      BY <1>0, <1>1, <2>1 DEF CopiesFit, Alone
    <3> QED
      BY <1>0, <3>1, CopiedKept
  <2>2. CASE d = c /\ k = cmd[c].key
    BY <1>0, <2>2 DEF CopiesFit
  <2>3. CASE d = c /\ k # cmd[c].key
    <3>1. k \in Written(c) /\ k \in Keys /\ Copied(c, k)
      BY <1>0, <2>3 DEF CopiesFit, Written
    <3>2. pend'[c].rows[k] = pend[c].rows[k]
      BY <1>0, <2>3, <3>1
    <3>3. /\ <<"index", k>> \notin spoiled => points[k] = pend[c].rows[k]
          /\ <<"graph", k>> \notin spoiled => nodes[k] = pend[c].rows[k]
      BY <3>1, AllCopied
    <3> QED
      BY <1>0, <2>3, <3>2, <3>3 DEF Copied, Flags, Copying
  <2> QED
    BY <2>1, <2>2, <2>3
<1> QED
  BY <1>2, <1>3 DEF CopiesFit

\* A row is copied, or that fails.
LEMMA CopyCopies ==
  ASSUME CommandsInv, LocksFit, CopiesFit, NEW c \in Commands, CopyStep(c)
  PROVE  CopiesFit'
<1> DEFINE key == cmd[c].key
<1>0. /\ UNCHANGED <<facts, pend>> /\ Result(c) /\ Alone(c) /\ RowsType /\ WritesFit(c) /\ CommandFits(c)
      /\ cmd'[c].key = key /\ cmd'[c].pc = After(c) /\ cmd'[c].op = cmd[c].op
      /\ Follows(cmd[c].op, cmd[c].pc, After(c))
      /\ key \in Keys /\ key \in Written(c)
      /\ \A k \in Keys : k # key => points'[k] = points[k] /\ nodes'[k] = nodes[k]
  BY CopyForm, CopySafe, CopyRows DEF CommandsInv, Result, Steps
<1>1. \A d \in Commands : Written(d)' = Written(d)
  BY <1>0 DEF Written
<1>2. \A k \in Keys : k # key => /\ <<"index", k>> \in spoiled' <=> <<"index", k>> \in spoiled
                                 /\ <<"graph", k>> \in spoiled' <=> <<"graph", k>> \in spoiled
  <2>1. CASE IndexUpsert(c)
    BY <2>1 DEF IndexUpsert
  <2>2. CASE GraphUpsert(c)
    BY <2>2 DEF GraphUpsert
  <2>3. CASE FlagIndex(c)
    BY <2>3 DEF FlagIndex
  <2>4. CASE FlagGraph(c)
    BY <2>4 DEF FlagGraph
  <2>5. CASE SkipWrite(c)
    BY <2>5 DEF SkipWrite
  <2> QED
    BY <2>1, <2>2, <2>3, <2>4, <2>5 DEF CopyStep
<1>3. Copied(c, key)'
  <2>0. Copied(c, key) /\ points \in [Keys -> Row \cup {None}] /\ nodes \in [Keys -> Row \cup {None}]
    BY <1>0 DEF CopiesFit, RowsType
  <2>1. CASE IndexUpsert(c)
    <3>1. cmd[c].pc = "index" /\ cmd'[c].pc = "graph"
      BY <1>0, <2>1 DEF IndexUpsert, Follows
    <3>2. points'[key] = pend'[c].rows[key] /\ nodes' = nodes
      BY <1>0, <2>0, <2>1, <3>1 DEF IndexUpsert, WritesFit
    <3> QED
      BY <1>0, <3>1, <3>2 DEF Copied, Flags
  <2>2. CASE GraphUpsert(c)
    <3>1. cmd[c].pc = "graph" /\ cmd'[c].pc \in {"link", "commit"}
      BY <1>0, <2>2 DEF GraphUpsert, Follows
    <3>2. nodes'[key] = pend'[c].rows[key] /\ points' = points
      BY <1>0, <2>0, <2>2, <3>1 DEF GraphUpsert, WritesFit
    <3>3. <<"index", key>> \notin spoiled' => points'[key] = pend'[c].rows[key]
      BY <1>0, <2>0, <2>2, <3>1, <3>2 DEF Copied, GraphUpsert
    <3> QED
      BY <1>0, <3>1, <3>2, <3>3 DEF Copied, Flags
  <2>3. CASE FlagIndex(c)
    <3>1. cmd[c].pc = "flagindex" /\ cmd'[c].pc = "flaggraph" /\ UNCHANGED <<nodes, spoiled>>
      BY <1>0, <2>3 DEF FlagIndex, Follows
    <3>2. /\ facts[key] # None /\ pend[c].rows[key] = Flagged(cmd[c].op, facts[key])
          /\ <<"index", key>> \notin spoiled => points[key] = facts[key]
          /\ <<"graph", key>> \notin spoiled => nodes[key] = facts[key]
      BY <2>0, <3>1 DEF Copied, Flags
    <3>3. <<"index", key>> \notin spoiled' => points'[key] = pend'[c].rows[key]
      BY <1>0, <2>0, <2>3, <3>1, <3>2 DEF FlagIndex
    <3> QED
      BY <1>0, <3>1, <3>2, <3>3 DEF Copied, Flags
  <2>4. CASE FlagGraph(c)
    <3>1. cmd[c].pc = "flaggraph" /\ cmd'[c].pc = "commit" /\ UNCHANGED <<points, spoiled>>
      BY <1>0, <2>4 DEF FlagGraph, Follows
    <3>2. /\ facts[key] # None /\ pend[c].rows[key] = Flagged(cmd[c].op, facts[key])
          /\ <<"index", key>> \notin spoiled => points[key] = pend[c].rows[key]
          /\ <<"graph", key>> \notin spoiled => nodes[key] = facts[key]
      BY <2>0, <3>1 DEF Copied, Flags
    <3>3. <<"graph", key>> \notin spoiled' => nodes'[key] = pend'[c].rows[key]
      BY <1>0, <2>0, <2>4, <3>1, <3>2 DEF FlagGraph
    <3> QED
      BY <1>0, <3>1, <3>2, <3>3 DEF Copied, Flags
  <2>5. CASE SkipWrite(c)
    <3>0. /\ UNCHANGED <<points, nodes>> /\ cmd[c].pc \in {"graph", "flagindex", "flaggraph"}
          /\ spoiled' = spoiled \cup {<<IF cmd[c].pc = "flagindex" THEN "index" ELSE "graph", key>>}
      BY <2>5 DEF SkipWrite, stores
    <3>1. CASE cmd[c].pc = "graph"
      <4>1. cmd'[c].pc \in {"link", "commit"} /\ spoiled' = spoiled \cup {<<"graph", key>>}
        BY <1>0, <3>0, <3>1 DEF Follows
      <4> QED
        BY <1>0, <2>0, <3>0, <3>1, <4>1 DEF Copied, Flags
    <3>2. CASE cmd[c].pc = "flagindex"
      <4>1. cmd'[c].pc = "flaggraph" /\ spoiled' = spoiled \cup {<<"index", key>>}
        BY <1>0, <3>0, <3>2 DEF Follows
      <4> QED
        BY <1>0, <2>0, <3>0, <3>2, <4>1 DEF Copied, Flags
    <3>3. CASE cmd[c].pc = "flaggraph"
      <4>1. cmd'[c].pc = "commit" /\ spoiled' = spoiled \cup {<<"graph", key>>}
        BY <1>0, <3>0, <3>3 DEF Follows
      <4> QED
        BY <1>0, <2>0, <3>0, <3>3, <4>1 DEF Copied, Flags
    <3> QED
      BY <3>0, <3>1, <3>2, <3>3
  <2> QED
    BY <2>1, <2>2, <2>3, <2>4, <2>5 DEF CopyStep
<1>4. ASSUME NEW k \in Keys, \A d \in Commands : k \notin Written(d)' PROVE InStep(k)'
  <2>1. k # key /\ InStep(k)
    BY <1>0, <1>1, <1>4 DEF CopiesFit
  <2> QED
    BY <1>0, <1>2, <2>1, InStepKept
<1>5. ASSUME NEW d \in Commands, NEW k \in Written(d)' PROVE Copied(d, k)'
  <2>0. k \in Keys /\ k \in Written(d) /\ Copied(d, k)
    BY <1>1 DEF CopiesFit, Written
  <2>1. CASE d # c
    <3>1. k # key
      BY <1>0, <2>0, <2>1 DEF LocksFit
    <3>2. cmd'[d] = cmd[d] /\ pend'[d] = pend[d]
      BY <1>0, <2>1 DEF Alone
    <3> QED
      BY <1>0, <1>2, <2>0, <3>1, <3>2, CopiedKept
  <2>2. CASE d = c /\ k # key
    <3>1. /\ <<"index", k>> \notin spoiled => points[k] = pend[c].rows[k]
          /\ <<"graph", k>> \notin spoiled => nodes[k] = pend[c].rows[k]
      BY <2>0, <2>2, AllCopied
    <3> QED
      BY <1>0, <1>2, <2>0, <2>2, <3>1 DEF Copied, Flags
  <2>3. CASE d = c /\ k = key
    <3>1. k = cmd'[c].key
      BY <1>0, <2>3
    <3> QED
      BY <1>3, <2>3, <3>1
  <2> QED
    BY <2>1, <2>2, <2>3
<1> QED
  BY <1>4, <1>5 DEF CopiesFit
\* A command fails: the copies that it has made, or not, are spoiled.
LEMMA RollbackCopies ==
  ASSUME CommandsInv, LocksFit, CopiesFit, NEW c \in Commands, Rollback(c)
  PROVE  CopiesFit'
<1>0. /\ UNCHANGED <<facts, points, nodes>> /\ Result(c) /\ Written(c)' = {} /\ Alone(c)
      /\ spoiled' = spoiled \cup {"index", "graph"} \X Written(c)
  BY RollbackSafe DEF Rollback, stores, Result
<1>1. \A d \in Commands : d # c => Written(d)' = Written(d)
  BY <1>0, OthersFit
<1>2. spoiled \subseteq spoiled'
  BY <1>0
<1>3. ASSUME NEW k \in Keys, \A d \in Commands : k \notin Written(d)' PROVE InStep(k)'
  <2>1. CASE k \in Written(c)
    <3>1. <<"index", k>> \in spoiled' /\ <<"graph", k>> \in spoiled'
      BY <1>0, <2>1
    <3> QED
      BY <3>1 DEF InStep
  <2>2. CASE k \notin Written(c)
    <3>1. InStep(k)
      BY <1>1, <1>3, <2>2 DEF CopiesFit
    <3> QED
      BY <1>0, <1>2, <3>1, InStepKept
  <2> QED
    BY <2>1, <2>2
<1>4. ASSUME NEW d \in Commands, NEW k \in Written(d)' PROVE Copied(d, k)'
  <2>1. d # c
    BY <1>0
  <2>2. Copied(d, k) /\ cmd'[d] = cmd[d] /\ pend'[d] = pend[d]
    BY <1>0, <1>1, <2>1 DEF CopiesFit, Alone
  <2> QED
    BY <1>0, <1>2, <2>2, CopiedKept
<1> QED
  BY <1>3, <1>4 DEF CopiesFit

\* A commit: the rows catch up with the copies.
LEMMA CommitCopies ==
  ASSUME CommandsInv, LocksFit, CopiesFit, NEW c \in Commands, Commit(c)
  PROVE  CopiesFit'
<1>0. /\ UNCHANGED <<points, nodes, spoiled>> /\ cmd[c].pc = "commit" /\ PendingType /\ RowsType
      /\ facts' = [k \in Keys |-> find_by_key(c, k)] /\ Written(c)' = {}
      /\ \A d \in Commands : d # c => Overtaken(c, d) /\ Written(d)' = Written(d)
  BY CommitForm, IdleFits, OvertakenFits DEF Commit, CommandsInv
<1>1. \A k \in Keys : /\ k \notin Written(c) => facts'[k] = facts[k]
                      /\ k \in Written(c) => facts'[k] = pend[c].rows[k]
  BY <1>0, Finds
<1>2. ASSUME NEW k \in Keys, \A d \in Commands : k \notin Written(d)' PROVE InStep(k)'
  <2>1. CASE k \in Written(c)
    <3>1. Copied(c, k) /\ cmd[c].pc \notin Copying
      BY <1>0, <2>1 DEF CopiesFit, Copying
    <3>2. /\ <<"index", k>> \notin spoiled => points[k] = pend[c].rows[k]
          /\ <<"graph", k>> \notin spoiled => nodes[k] = pend[c].rows[k]
      BY <3>1, AllCopied
    <3> QED
      BY <1>0, <1>1, <2>1, <3>2 DEF InStep
  <2>2. CASE k \notin Written(c)
    <3>1. InStep(k)
      BY <1>0, <1>2, <2>2 DEF CopiesFit
    <3> QED
      BY <1>0, <1>1, <2>2, <3>1, InStepKept
  <2> QED
    BY <2>1, <2>2
<1>3. ASSUME NEW d \in Commands, NEW k \in Written(d)' PROVE Copied(d, k)'
  <2>1. d # c /\ k \in Written(d) /\ k \in Keys /\ Copied(d, k)
    BY <1>0 DEF CopiesFit, Written
  <2>2. k \notin Written(c)
    BY <2>1 DEF LocksFit
  <2>3. Overtaken(c, d)
    BY <1>0, <2>1
  <2> QED
    BY <1>0, <1>1, <2>1, <2>2, <2>3, CopiedKept DEF Overtaken
<1> QED
  BY <1>2, <1>3 DEF CopiesFit

\* CopiesFit is inductive.
LEMMA CopiesStep == CommandsInv /\ LocksFit /\ CopiesFit /\ [Next]_vars => CopiesFit'
<1> SUFFICES ASSUME CommandsInv, LocksFit, CopiesFit, [Next]_vars PROVE CopiesFit'
  OBVIOUS
<1>1. CASE Next
  <2>1. PICK c \in Commands : StepForm(c)
    BY <1>1, NextForms
  <2>2. CASE Save(c)
    <3>1. /\ Result(c) /\ Flushed(c, Recorded(c)) /\ cmd'[c].pc = "index" /\ cmd[c].pc \notin Copying
          /\ \A d \in Commands : cmd[c].key \notin Written(d)
      BY <2>2, SaveSafe, FlushLocks DEF Save, Copying
    <3>2. Copied(c, cmd[c].key)'
      BY <3>1 DEF Copied, Flags, Flushed
    <3> QED
      BY <3>1, <3>2, FlushCopies
  <2>3. CASE Flag(c)
    <3> DEFINE row == Flagged(cmd[c].op, facts[cmd[c].key])
    <3>1. /\ Result(c) /\ Flushed(c, row) /\ cmd'[c].pc = "flagindex" /\ cmd[c].pc \notin Copying
          /\ cmd'[c].op = cmd[c].op /\ facts[cmd[c].key] # None
          /\ \A d \in Commands : cmd[c].key \notin Written(d)
      BY <2>3, FlagSafe, FlushLocks DEF Flag, Copying
    <3>2. pend[c].rows \in [Keys -> Row \cup {None}]
      BY DEF CommandsInv, PendingType, Pending
    <3>3. /\ pend'[c].rows[cmd[c].key] = row /\ cmd'[c].key = cmd[c].key
          /\ UNCHANGED <<facts, points, nodes, spoiled>>
      BY <3>1, <3>2 DEF Flushed
    <3>4. InStep(cmd[c].key) => Copied(c, cmd[c].key)'
      BY <3>1, <3>3 DEF InStep, Copied, Flags
    <3> HIDE DEF row
    <3> QED
      BY <3>1, <3>4, FlushCopies
  <2> QED
    BY <2>1, <2>2, <2>3, QuietCopies, CopyCopies, RollbackCopies, CommitCopies DEF StepForm
<1>2. CASE UNCHANGED vars
  <2>1. UNCHANGED <<facts, points, nodes, spoiled, cmd, pend>>
    BY <1>2 DEF vars, stores
  <2>2. \A d \in Commands : Written(d)' = Written(d)
    BY <2>1 DEF Written
  <2>3. \A k \in Keys : InStep(k) => InStep(k)'
    BY <2>1, InStepKept
  <2>4. \A d \in Commands : \A k \in Written(d) : Copied(d, k) => Copied(d, k)'
    BY <2>1, CopiedKept
  <2> QED
    BY <2>2, <2>3, <2>4 DEF CopiesFit
<1> QED
  BY <1>1, <1>2

-----------------------------------------------------------------------------
(* The graph of the episodes. *)

EdgesFit ==
  /\ epNodes \subseteq Nat
  /\ \A l \in edges : l[1] = "follows" => l[2] > l[3] /\ l[3] \in DOMAIN episodes

\* Episodes are never taken back.
LEMMA EpisodesGrow == ASSUME CommandsInv, Next PROVE DOMAIN episodes \subseteq DOMAIN episodes'
<1>1. PICK c \in Commands : StepForm(c)
  BY NextForms
<1>2. CASE CopyStep(c)
  BY <1>2, CopyForm
<1>3. CASE Rollback(c)
  BY <1>3 DEF Rollback, stores
<1> QED
  BY <1>1, <1>2, <1>3, SaveSafe, FlagSafe, CommitForm DEF StepForm, QuietStep, Result

\* Only a capture and a consolidation draw edges.
LEMMA EdgeWriters ==
  ASSUME Next
  PROVE  UNCHANGED <<edges, epNodes>> \/ \E c \in Commands : GraphEpisode(c) \/ Link(c)
<1> DEFINE Same == UNCHANGED <<edges, epNodes>>
<1>1. PICK c \in Commands :
        \/ \E op \in Ops : \E i \in Inputs(op) : Start(c, op, i[1], i[2])
        \/ Step(c) \/ SkipWrite(c) \/ Raise(c) \/ DeadlockAbort(c)
  BY DEF Next
<1>2. Rollback(c) => Same
  BY DEF Rollback, stores
<1>3. ASSUME NEW op \in Ops, NEW i \in Inputs(op), Start(c, op, i[1], i[2]) PROVE Same
  BY <1>3 DEF Start, stores
<1>4. SkipWrite(c) \/ IndexUpsert(c) \/ GraphUpsert(c) \/ FlagIndex(c) \/ FlagGraph(c) => Same
  BY CopyForm DEF CopyStep
<1>5. ASSUME Classify(c) PROVE Same
  <2>1. Rollback(c) \/ UNCHANGED <<stores, pend, locks, clock, started, spoiled>>
    BY <1>5, Zenon DEF Classify
  <2> QED
    BY <1>2, <2>1 DEF stores
<1>6. ASSUME Find(c) PROVE Same
  <2>1. Rollback(c) \/ UNCHANGED <<stores, pend, locks, clock, started, spoiled>>
    BY <1>6, Zenon DEF Find
  <2> QED
    BY <1>2, <2>1 DEF stores
<1>7. SaveHistory(c) \/ Save(c) \/ Flag(c) \/ Recent(c) \/ Stamp(c) \/ SaveEpisode(c) => Same
  BY DEF SaveHistory, Save, Flag, Recent, Stamp, SaveEpisode, stores
<1>8. IndexEpisode(c) \/ Commit(c) => Same
  BY DEF IndexEpisode, Commit
<1>9. Fetch(c) \/ Mark(c) \/ Gather(c) \/ SaveProcedure(c) => Same
  BY DEF Fetch, Mark, Gather, SaveProcedure, stores
<1>10. Raise(c) \/ DeadlockAbort(c) => Same
  BY <1>2 DEF Raise, DeadlockAbort
<1> HIDE DEF Same
<1>11. Same \/ GraphEpisode(c) \/ Link(c)
  BY <1>1, <1>3, <1>4, <1>5, <1>6, <1>7, <1>8, <1>9, <1>10 DEF Step
<1> QED
  BY <1>11 DEF Same

\* EdgesFit is inductive.
LEMMA EdgesStep == CommandsInv /\ EdgesFit /\ [Next]_vars => EdgesFit'
<1> SUFFICES ASSUME CommandsInv, EdgesFit, [Next]_vars PROVE EdgesFit'
  OBVIOUS
<1>1. CASE UNCHANGED vars
  BY <1>1 DEF vars, stores, EdgesFit
<1>2. ASSUME DOMAIN episodes \subseteq DOMAIN episodes', UNCHANGED <<edges, epNodes>> PROVE EdgesFit'
  BY <1>2 DEF EdgesFit
<1>3. ASSUME NEW c \in Commands, GraphEpisode(c) PROVE EdgesFit'
  <2>a. edges' = edges \cup {<<"participated">>}
                   \cup {<<"mentions", e>> : e \in epNodes' \cap {cmd[c].ep}}
                   \cup {<<"follows", e, p>> : e \in epNodes' \cap {cmd[c].ep},
                                               p \in epNodes' \cap {cmd[c].prev}}
    BY <1>3 DEF GraphEpisode
  <2>1. /\ cmd[c].pc = "epgraph"
        /\ UNCHANGED <<facts, history, episodes, procedures, points, epPoints, nodes,
                       pend, locks, clock, started, spoiled>>
    BY <1>3, Zenon DEF GraphEpisode
  <2>2. epNodes' = epNodes \cup {cmd[c].ep} \/ epNodes' = epNodes
    BY <1>3, Zenon DEF GraphEpisode
  <2>3. /\ cmd[c].ep \in Nat /\ (cmd[c].prev # None => cmd[c].prev < cmd[c].ep)
        /\ cmd[c].prev \in DOMAIN episodes \cup {None}
    BY <2>1 DEF CommandsInv, EpisodesFit, Capturing
  <2>4. epNodes' \subseteq Nat
    BY <2>2, <2>3 DEF EdgesFit
  <2>5. episodes' = episodes
    BY <2>1
  <2>6. ASSUME NEW l \in edges', l[1] = "follows" PROVE l[2] > l[3] /\ l[3] \in DOMAIN episodes
    <3>1. CASE l \in edges
      BY <2>6, <3>1 DEF EdgesFit
    <3>2. l # <<"participated">> /\ \A e : l # <<"mentions", e>>
      BY <2>6
    <3>3. CASE l \notin edges
      <4>1. PICK e \in epNodes' \cap {cmd[c].ep}, p \in epNodes' \cap {cmd[c].prev} :
              l = <<"follows", e, p>>
        BY <2>a, <3>2, <3>3
      <4>2. e = cmd[c].ep /\ p = cmd[c].prev /\ p # None
        BY <2>4, <4>1, Constants
      <4> QED
        BY <2>3, <2>4, <4>1, <4>2
    <3> QED
      BY <3>1, <3>3
  <2> QED
    BY <2>4, <2>5, <2>6 DEF EdgesFit
<1>4. ASSUME NEW c \in Commands, Link(c) PROVE EdgesFit'
  <2>1. \A l \in edges' : l \in edges \/ \E e \in epNodes : l = <<"abstracts", e, cmd[c].key>>
    BY <1>4 DEF Link
  <2>2. \A l \in edges' : l[1] = "follows" => l \in edges
    BY <2>1
  <2> QED
    BY <1>4, <2>2 DEF EdgesFit, Link
<1> QED
  BY <1>1, <1>2, <1>3, <1>4, EpisodesGrow, EdgeWriters

-----------------------------------------------------------------------------
(* The theorems. *)

IInv == CommandsInv /\ LocksFit /\ CopiesFit /\ EdgesFit

\* The stores are empty, no command runs.
LEMMA Initially == Init => IInv
<1> SUFFICES ASSUME Init PROVE IInv
  OBVIOUS
<1>0. /\ facts = [k \in Keys |-> None] /\ points = facts /\ nodes = facts /\ locks = {} /\ clock = 1
      /\ edges = {} /\ epNodes = {} /\ DOMAIN episodes = {}
      /\ \A c \in Commands : cmd[c] = Idle /\ pend[c] = NothingPending
  BY DEF Init
<1>1. CommandsType /\ PendingType
  <2>1. Idle \in Command /\ NothingPending \in Pending
    BY DEF Idle, Command, StepNames, NothingPending, Pending
  <2> HIDE DEF Idle, NothingPending
  <2> QED
    BY <2>1 DEF Init, CommandsType, PendingType
<1>2. RowsType /\ EpisodesType
  BY <1>0 DEF RowsType, EpisodesType
<1>3. ASSUME NEW c \in Commands
      PROVE  /\ CommandFits(c) /\ WritesFit(c) /\ ReadsFit(c) /\ EpisodesFit(c) /\ Written(c) = {}
  <2>1. /\ cmd[c].pc = "idle" /\ cmd[c].op = None /\ cmd[c].key = None /\ cmd[c].todo = {}
        /\ cmd[c].batch = {} /\ cmd[c].prev = None
    BY <1>0 DEF Idle
  <2>2. Written(c) = {} /\ pend[c].eps = {} /\ pend[c].done = {} /\ pend[c] = NothingPending
    BY <1>0, NothingFlushed
  <2>3. cmd[c].op \notin Contents \cup {"record", "update", "evolve", "consolidate"}
    BY <2>1, Constants DEF Contents, Operations
  <2>4. CommandFits(c)
    BY <2>1, <2>2, <2>3 DEF CommandFits
  <2>5. WritesFit(c)
    BY <2>1, <2>2, <2>3 DEF WritesFit, Copying
  <2>6. ReadsFit(c)
    BY <2>1, <2>2 DEF ReadsFit, Reads
  <2>7. EpisodesFit(c)
    BY <2>1, <2>2 DEF EpisodesFit, Capturing
  <2> QED
    BY <2>2, <2>4, <2>5, <2>6, <2>7
<1>4. LocksFit
  BY <1>0, <1>3 DEF LocksFit, Holds
<1>5. CopiesFit
  BY <1>0, <1>3 DEF CopiesFit, InStep
<1>6. EdgesFit
  BY <1>0 DEF EdgesFit
<1> QED
  BY <1>1, <1>2, <1>3, <1>4, <1>5, <1>6 DEF IInv, CommandsInv

\* The invariant holds of every reachable state.
LEMMA Invariant == Spec => []IInv
<1>1. Init => IInv
  BY Initially
<1>2. IInv /\ [Next]_vars => IInv'
  BY CommandsStep, LocksStep, CopiesStep, EdgesStep DEF IInv
<1> QED
  BY <1>1, <1>2, PTL DEF Spec

\* For any number of commands, facts and values, and whichever calls fail: while no transaction
\* holds a fact, its point in Qdrant and its node in Neo4j are those of its row, and hence the
\* searches of both stores find the same, unless a failed or rolled back call has spoiled the copy
\* (RecordSemanticFact, InvalidateMemory, ArchiveMemory).
THEOREM StoresStayInStep == Spec => []StoresAgree
<1>1. IInv => StoresAgree
  <2> SUFFICES ASSUME IInv, NEW k \in Keys, ~Writing(k)
               PROVE  /\ <<"index", k>> \notin spoiled =>
                           /\ points[k] = facts[k]
                           /\ index_search(points[k]) <=> search_by_similarity(facts[k])
                      /\ <<"graph", k>> \notin spoiled => nodes[k] = facts[k]
    BY DEF StoresAgree
  <2>1. \A c \in Commands : ~Holds(c, k)
    BY DEF Writing, Holds
  <2>2. InStep(k)
    BY <2>1 DEF IInv, LocksFit, CopiesFit
  <2> QED
    BY <2>2 DEF InStep, index_search, search_by_similarity
<1> QED
  BY <1>1, Invariant, PTL

\* For any number of captures at once, and whichever fail: TEMPORALLY_FOLLOWS leads from an episode
\* to an older, committed one, and what a consolidation marks is committed (CaptureEpisode,
\* ConsolidateEpisodes).
THEOREM EpisodesStayOrdered == Spec => []FollowsOlderCommitted
<1>1. IInv => FollowsOlderCommitted
  BY DEF IInv, EdgesFit, CommandsInv, EpisodesFit, FollowsOlderCommitted
<1> QED
  BY <1>1, Invariant, PTL

\* A commit of new content (UpdateMemory, RefineMemory, ConsolidateEpisodes) keeps the status of the
\* fact, and an update or refinement its old value in the history, unless another command has
\* committed the fact since this one read it.
THEOREM WritesLoseNothing == Spec => UncontendedWriteLosesNothing
<1>1. ASSUME IInv, NEW c \in Commands, NEW k \in Keys, Commit(c), cmd[c].op \in ContentOps,
             k \in Written(c) \ cmd[c].raced, facts[k] # None
      PROVE  /\ facts'[k].until = facts[k].until
             /\ facts'[k].archived = facts[k].archived
             /\ cmd[c].op # "consolidate" => <<k, facts[k].value>> \in history'
  <2>0. /\ PendingType /\ RowsType /\ WritesFit(c) /\ ReadsFit(c) /\ cmd[c].pc = "commit"
        /\ facts' = [x \in Keys |-> find_by_key(c, x)] /\ history' = history \cup pend[c].hist
    BY <1>1 DEF IInv, CommandsInv, Commit
  <2>1. facts'[k] = pend[c].rows[k]
    BY <1>1, <2>0, Finds
  <2>2. pend[c].rows[k].until = facts[k].until /\ pend[c].rows[k].archived = facts[k].archived
    BY <1>1, <2>0 DEF ReadsFit
  <2>3. ASSUME cmd[c].op # "consolidate" PROVE <<k, facts[k].value>> \in history'
    <3>1. cmd[c].op \in Contents /\ k = cmd[c].key
      BY <1>1, <2>0, <2>3 DEF ContentOps, Contents, WritesFit
    <3>2. cmd[c].old = facts[k]
      BY <1>1, <2>0, <3>1 DEF ReadsFit, Reads
    <3>3. <<k, facts[k].value>> \in pend[c].hist
      BY <2>0, <3>1, <3>2 DEF WritesFit
    <3> QED
      BY <2>0, <3>3
  <2> QED
    BY <2>1, <2>2, <2>3
<1> DEFINE Kept ==
      \A c \in Commands, k \in Keys :
        (/\ Commit(c) /\ cmd[c].op \in ContentOps
         /\ k \in Written(c) \ cmd[c].raced /\ facts[k] # None) =>
           /\ facts'[k].until = facts[k].until
           /\ facts'[k].archived = facts[k].archived
           /\ cmd[c].op # "consolidate" => <<k, facts[k].value>> \in history'
<1>2. IInv => Kept
  BY <1>1
<1>3. IInv => [Kept]_vars
  BY <1>2
<1> HIDE DEF Kept
<1>4. Spec => [][Kept]_vars
  BY <1>3, Invariant, PTL
<1> QED
  BY <1>4 DEF UncontendedWriteLosesNothing, Kept
=============================================================================
