----------------------------- MODULE Completers -----------------------------
(***************************************************************************)
(* One call to one provider, as the completers of proxy-bridge/server.mjs  *)
(* make it: the token, the request and its ceiling, the answer's head and  *)
(* body, and for claude the subprocess it falls back to. The calls of an   *)
(* account share a token that is remembered here, while the place it was   *)
(* read from is written by others: the user logs in, claude refreshes it.  *)
(*                                                                         *)
(* What claude's subprocess does is WorkerPool's.                          *)
(***************************************************************************)
CONSTANTS Call, \* calls of one account; each is made again and again
          Token, NoToken

Account == {"copilot", "claude", "key"}
LegsOf(a) == IF a = "copilot" THEN {"chat", "responses"} ELSE {a}

VARIABLES
  account,  \* the account: its token is copilot's, claude's, or a key that stands
  leg,      \* call -> completer: completeCopilot, completeCopilotResponses, ...
  stored,   \* the token on disk or in the keychain, NoToken when none can be read
  accepted, \* the tokens the provider accepts
  held,     \* copilotAuth, _claudeOAuthCache: [tok, fresh]
  call      \* call -> [pc, tok, timer, why, gone]: what failed it, or is about to

cvars == <<account, leg, stored, accepted, held, call>>

Idle == [pc |-> "new", tok |-> NoToken, timer |-> FALSE, why |-> "", gone |-> FALSE]
Over == {"done", "failed"}

CInit ==
  /\ account \in Account /\ leg \in [Call -> LegsOf(account)]
  /\ stored \in Token \cup {NoToken} /\ accepted \in SUBSET Token
  /\ held = [tok |-> NoToken, fresh |-> FALSE]
  /\ call = [c \in Call |-> Idle]

Becomes(c, f) == call' = [call EXCEPT ![c] = f]
Failed(c, why) ==
  [Idle EXCEPT !.pc = "failed", !.why = why]

\* loadCopilotOAuth and getClaudeOAuthToken: what is held while it is fresh, what is
\* stored when it can be read, or else what is held. Claude's may be about to expire.
Loaded ==
  IF (held.tok # NoToken /\ held.fresh) \/ stored = NoToken THEN {held}
  ELSE [tok : {stored}, fresh : IF account = "claude" THEN BOOLEAN ELSE {TRUE}]

ByCli(c) == [Idle EXCEPT !.pc = "cli", !.gone = call[c].gone]

Start(c) ==
  /\ call[c].pc = "new"
  /\ \E h \in IF account = "key" THEN {held} ELSE Loaded :
       /\ held' = h
       /\ IF account = "key" \/ h.tok # NoToken
          THEN Becomes(c, [Idle EXCEPT !.pc = "headers", !.tok = h.tok, !.timer = TRUE])
          ELSE Becomes(c, IF account = "claude" THEN ByCli(c) ELSE Failed(c, "auth"))
  /\ UNCHANGED <<account, leg, stored, accepted>>

\* Whether the ceiling still holds once the head of the answer is in.
TimerKept(c, good) == leg[c] = "responses" \/ (leg[c] = "chat" /\ good)

\* The head is in.
HeadIn(c) ==
  /\ call[c].pc = "headers"
  /\ \E why \in IF account = "key" THEN {"", "auth", "rate", "other"}
                ELSE IF call[c].tok \in accepted THEN {"", "rate", "other"} ELSE {"auth"} :
       Becomes(c, [call[c] EXCEPT !.pc = IF why = "" THEN "body" ELSE "error", !.why = why,
                                  !.tok = NoToken, !.timer = TimerKept(c, why = "")])
  /\ UNCHANGED <<account, leg, stored, accepted, held>>

Body(c) ==
  /\ call[c].pc = "body"
  /\ Becomes(c, [Idle EXCEPT !.pc = "done"])
  /\ UNCHANGED <<account, leg, stored, accepted, held>>

\* Mutant: what is remembered is kept.
DisownNever(c) == held
\* A refusal: the token is read anew for the next call. The responses leg does not.
Disown(c) ==
  IF call[c].why = "auth" /\ leg[c] \in {"chat", "claude"}
  THEN IF leg[c] = "chat" THEN [held EXCEPT !.fresh = FALSE] ELSE [tok |-> NoToken, fresh |-> FALSE]
  ELSE held

\* shouldFallbackToCLI.
FallsBack(c) == account = "claude" /\ call[c].why \in {"auth", "rate"}

\* The body of a refusal has been read, or cannot be.
ErrorRead(c) ==
  /\ held' = Disown(c)
  /\ Becomes(c, IF FallsBack(c) THEN ByCli(c) ELSE Failed(c, call[c].why))
  /\ UNCHANGED <<account, leg, stored, accepted>>
Error(c) == call[c].pc = "error" /\ ErrorRead(c)

\* The connection fails or breaks.
Breaks(c) ==
  /\ call[c].pc \in {"headers", "body"} /\ Becomes(c, Failed(c, "other"))
  /\ UNCHANGED <<account, leg, stored, accepted, held>>

\* The ceiling. Reading the body of a refusal ends, the refusal stands.
Timeout(c) ==
  /\ call[c].timer
  /\ IF call[c].pc = "error" THEN ErrorRead(c)
     ELSE Becomes(c, Failed(c, "other")) /\ UNCHANGED <<account, leg, stored, accepted, held>>

\* The client leaves; only claude's completers are given its signal.
Leaves(c) ==
  /\ call[c].pc \notin Over \cup {"new"} /\ ~call[c].gone
  /\ Becomes(c, [call[c] EXCEPT !.gone = TRUE])
  /\ UNCHANGED <<account, leg, stored, accepted, held>>

\* Mutant: the signal is dropped with the timer.
AbortedEarly(c) ==
  /\ account = "claude" /\ call[c].gone /\ call[c].pc \in {"headers", "cli"}
  /\ Becomes(c, Failed(c, "other")) /\ UNCHANGED <<account, leg, stored, accepted, held>>
Aborted(c) ==
  /\ account = "claude" /\ call[c].gone /\ call[c].pc \in {"headers", "body", "error", "cli"}
  /\ IF call[c].pc = "error" THEN ErrorRead(c)
     ELSE Becomes(c, Failed(c, "other")) /\ UNCHANGED <<account, leg, stored, accepted, held>>

\* The subprocess ends. It may have refreshed the token.
Cli(c) ==
  /\ call[c].pc = "cli"
  /\ \/ Becomes(c, [Idle EXCEPT !.pc = "done"])
     \/ \E why \in {"auth", "rate", "other"} : Becomes(c, Failed(c, why))
  /\ stored' \in {stored} \cup Token
  /\ UNCHANGED <<account, leg, accepted, held>>

\* The same call is made again.
Again(c) ==
  /\ call[c].pc \in Over /\ Becomes(c, Idle)
  /\ UNCHANGED <<account, leg, stored, accepted, held>>

\* A minute has passed since it was read, or claude's is about to expire.
Ages ==
  /\ held.fresh /\ held' = [held EXCEPT !.fresh = FALSE]
  /\ UNCHANGED <<account, leg, stored, accepted, call>>

\* A login, a logout, a refresh by another program; the provider revokes or grants.
Outside ==
  /\ account # "key"
  /\ \/ stored' \in Token \cup {NoToken} /\ UNCHANGED accepted
     \/ accepted' \in SUBSET Token /\ UNCHANGED stored
  /\ UNCHANGED <<account, leg, held, call>>

CNext ==
  \/ Ages \/ Outside
  \/ \E c \in Call :
       \/ Start(c) \/ HeadIn(c) \/ Body(c) \/ Error(c) \/ Breaks(c) \/ Timeout(c)
       \/ Leaves(c) \/ Aborted(c) \/ Cli(c) \/ Again(c)

\* Timers fire, a signal arrives, a subprocess has a timeout of its own. No provider
\* has to answer. How long claude's token lasts is not known here.
CFairness ==
  /\ WF_cvars(account = "copilot" /\ Ages)
  /\ \A c \in Call : WF_cvars(Timeout(c)) /\ WF_cvars(Aborted(c)) /\ WF_cvars(Cli(c))

-----------------------------------------------------------------------------
(* Properties.                                                             *)

Refused(c) == call[c].pc = "headers" /\ call'[c].pc = "error" /\ call'[c].why = "auth"

\* Once the token that is stored stays, and is accepted, the calls stop being refused:
\* no stale token is used for ever, whatever calls were under way when it changed.
RefusalsEnd ==
  \A t \in Token :
    <>[](stored = t /\ t \in accepted) => <>[][\A c \in Call : ~Refused(c)]_cvars

Capped(c) ==
  call[c].pc = "headers" \/ (call[c].pc = "body" /\ account = "copilot")

\* The provider may keep silent: no call waits for the head of an answer for ever, and
\* on the copilot legs not for its body either.
NeverStuck == \A c \in Call : Capped(c) ~> ~Capped(c)

\* A claude call whose client has left comes to its end, in whatever phase it was, and
\* although nothing else bounds how long a body may take.
GoneEnds == \A c \in Call : (account = "claude" /\ call[c].gone) ~> call[c].pc \in Over \cup {"new"}

\* server.mjs:1731 says of a declared ceiling that it caps the call: nothing but
\* claude's subprocess is waited for without one.
CeilingCaps ==
  \A c \in Call : call[c].pc \in {"headers", "body", "error"} => call[c].timer
=============================================================================
