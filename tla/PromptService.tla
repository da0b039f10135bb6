---------------------------- MODULE PromptService ----------------------------
(***************************************************************************)
(* What the worker pool promises its caller, completeClaudeCode of         *)
(* server.mjs: each call of complete() is handed to the execFile overflow  *)
(* at once, or accepted; an accepted call is then settled exactly once,    *)
(* with the answer to its own prompt or with an error, unless the proxy    *)
(* stops first.                                                            *)
(***************************************************************************)
CONSTANTS Request, None

VARIABLES
  accepted, \* the calls that await their settling
  outcome,  \* request -> how its call ended, "none" until then
  answer,   \* request -> the request whose prompt its result answers
  up        \* the proxy runs

svars == <<accepted, outcome, answer, up>>

SInit ==
  /\ accepted = {}
  /\ outcome = [r \in Request |-> "none"]
  /\ answer = [r \in Request |-> None]
  /\ up = TRUE

New(r) == up /\ r \notin accepted /\ outcome[r] = "none" /\ UNCHANGED <<answer, up>>

Accept(r) == New(r) /\ accepted' = accepted \cup {r} /\ UNCHANGED outcome
Divert(r) == New(r) /\ outcome' = [outcome EXCEPT ![r] = "overflowed"] /\ UNCHANGED accepted

Ends(r, how) ==
  /\ up /\ r \in accepted
  /\ accepted' = accepted \ {r} /\ outcome' = [outcome EXCEPT ![r] = how]
  /\ UNCHANGED up

Fail(r)    == Ends(r, "rejected") /\ UNCHANGED answer
Resolve(r) == Ends(r, "resolved") /\ answer' = [answer EXCEPT ![r] = r]

Settle(r) == Fail(r) \/ Resolve(r)

Stop == up /\ up' = FALSE /\ UNCHANGED <<accepted, outcome, answer>>

SNext == (\E r \in Request : Accept(r) \/ Divert(r) \/ Settle(r)) \/ Stop

SSafe == SInit /\ [][SNext]_svars
SSpec == SSafe /\ \A r \in Request : WF_svars(Settle(r))
=============================================================================
