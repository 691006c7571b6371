------------------------------ MODULE MCTiering ------------------------------
(* Small instances of Tiering.                                              *)
EXTENDS Tiering

Suite(ops, users, docs, evaluators, read, changed, last, failing) ==
    [ops |-> ops, users |-> users, docs |-> docs, evaluators |-> evaluators,
     accesses |-> read, changes |-> changed, clock |-> last, faults |-> failing]

One(S) == {CHOOSE x \in S : TRUE}

SmallSuites ==
    {Suite({"hot"}, {}, Docs, {}, 4, 1, 3, 0),
     Suite({"warm"}, One(Users), One(Docs), Evaluators, 2, 1, 2, 1),
     Suite({"warm", "own"}, Users, One(Docs), One(Evaluators), 2, 1, 1, 0)}
=============================================================================
