---------------------------- MODULE RefreshTokens ----------------------------
(***************************************************************************)
(* RedisRefreshTokenStore: refresh tokens as expiring keys.  A chain is    *)
(* the tokens that one login led to by rotation, named by its first token. *)
(***************************************************************************)
EXTENDS ApiBase

CONSTANT RefreshLife     \* ticks a refresh token lives

Token == [user : Users, expires : Nat, chain : Ids]

ASSUME TokensAssumption == RefreshLife \in Nat /\ None \notin Token

VARIABLES tokens,         \* id -> [user, expires, chain], None if never issued
          deletes,        \* history: how often each token was deleted
          late            \* history: chain -> deletes that came second, and so ended
                          \* another request's turn

tokenVars == <<tokens, deletes, late>>

(* A login of `user` before, if there is one. *)
TokensInit(user) ==
              /\ tokens = [t \in Ids |-> IF t > 0 \/ user = None THEN None
                              ELSE [user |-> user, expires |-> RefreshLife, chain |-> 0]]
              /\ deletes = [t \in Ids |-> 0] /\ late = [c \in Ids |-> 0]

Live(t, now) == tokens[t] # None /\ tokens[t].expires > now

get_user_id(t, now) == IF Live(t, now) THEN tokens[t].user ELSE None

save(t, user, chain, now) ==
    /\ tokens' = [tokens EXCEPT ![t] = [user |-> user, expires |-> now + RefreshLife,
                                        chain |-> chain]]
    /\ UNCHANGED <<deletes, late>>

(* A key that is gone is one that has expired. *)
Without(t) == [tokens EXCEPT ![t].expires = 0]

(* Redis does not say whether there was a key to delete. *)
delete(t) == /\ tokens' = Without(t)
             /\ deletes' = [deletes EXCEPT ![t] = @ + 1]
             /\ late' = IF deletes[t] = 0 THEN late ELSE [late EXCEPT ![tokens[t].chain] = @ + 1]
=============================================================================
