---------------------------- MODULE MCLLMService ----------------------------
(* Instances of LLMService for TLC, and beside it of the quota tracker that *)
(* it asks and of the start it waits for: a behaviour is one of the three.  *)
EXTENDS LLMService, QuotaTracker, Registry

CONSTANTS r1, r2, r3, claude, copilot, ollama, groq, k1, k2

MCLocal == <<ollama>>
MCSubscription == <<claude, copilot>>
MCChain == [r \in Request |-> <<claude, copilot>>]
MCPromptOf == [r \in Request |-> IF r = r3 THEN k2 ELSE k1]
MCBackoff == <<1, 2>>

VARIABLE part

mcvars == <<vars, past, qvars, rvars, part>>

MCInit ==
  /\ part \in {"service", "quota", "start"} /\ HInit /\ QInit /\ RInit
  /\ part # "start" => hung = [s \in Starter |-> {}]

MCNext ==
  /\ UNCHANGED part
  /\ \/ part = "service" /\ HNext /\ UNCHANGED <<qvars, rvars>>
     \/ part = "quota" /\ QNext /\ UNCHANGED <<vars, past, rvars>>
     \/ part = "start" /\ RNext /\ UNCHANGED <<vars, past, qvars>>

MCSpec == MCInit /\ [][MCNext]_mcvars /\ Fairness /\ RFairness
=============================================================================
