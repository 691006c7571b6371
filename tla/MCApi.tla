-------------------------------- MODULE MCApi --------------------------------
(* Api instantiated for TLC: the routes that share state, together. *)
EXTENDS Api, TLC

CONSTANTS u1, u2

Suite(ops, who, requests, ticks) ==
    [ops |-> ops, users |-> who, started |-> requests, clock |-> ticks]

SmallSuites ==
    {Suite({"register", "login"}, {u1}, 3, 2),
     Suite({"refresh", "logout"}, {u1}, 3, 3),
     Suite({"chat", "answer"}, {u1, u2}, 3, 1),
     Suite({"ingest", "job_status"}, {u1, u2}, 3, 2),
     Suite({"upload", "upload_parents", "search", "create_session"}, {u1}, 2, 1)}
=============================================================================
