------------------------------ MODULE Registry ------------------------------
(***************************************************************************)
(* The start of the SDK: initialize() of src/llm-service.ts, which every   *)
(* call runs that finds the service not initialised, and the registry that *)
(* each run makes, puts in place of the last one and then fills            *)
(* (src/provider-registry.ts). A provider's own initialisation may hang;   *)
(* the mode of the network is remembered for five minutes.                 *)
(***************************************************************************)
CONSTANTS Starter,   \* calls that may run initialize(), each the maker of a registry
          Vendor,    \* providers
          Blocked,   \* corpBlockedProviders
          NoStarter  \* the constructor's registry, that is never filled

ASSUME RegistryAssumption == Blocked \subseteq Vendor /\ NoStarter \notin Starter

VARIABLES
  started,     \* initialized
  registry,    \* the registry in use, by its maker
  registered,  \* registry -> the providers in it
  left,        \* registry -> the providers that are blocked or did not come up
  starter,     \* call -> [pc, todo]: its phase, the providers it waits for
  hung,        \* call -> the providers of its registry that will not come back
  mode         \* the remembered mode, or "unknown" once it is too old

rvars == <<started, registry, registered, left, starter, hung, mode>>

Modes == {"corporate", "public"}

RInit ==
  /\ started = FALSE /\ registry = NoStarter /\ mode = "unknown"
  /\ registered = [s \in Starter |-> {}] /\ left = [s \in Starter |-> {}]
  /\ starter = [s \in Starter |-> [pc |-> "new", todo |-> {}]]
  /\ hung \in [Starter -> SUBSET Vendor]

\* complete() or initialize() of the service.
Begin(s) ==
  /\ starter[s].pc = "new"
  /\ starter' = [starter EXCEPT ![s].pc = IF started THEN "ready" ELSE "loading"]
  /\ UNCHANGED <<started, registry, registered, left, hung, mode>>

\* The configuration is loaded: a new registry takes the place of the one in use.
Replace(s) ==
  /\ starter[s].pc = "loading" /\ registry' = s
  /\ starter' = [starter EXCEPT ![s].pc = "detecting"]
  /\ UNCHANGED <<started, registered, left, hung, mode>>

\* Mutant: initialised meanwhile, nothing is left to do.
FillsOnce(s, m) == IF started THEN {} ELSE IF m = "corporate" THEN Vendor \ Blocked ELSE Vendor
\* The providers that are created.
Fills(s, m) == IF m = "corporate" THEN Vendor \ Blocked ELSE Vendor

\* detectNetworkMode ends: what is remembered, or a look at the network.
Detect(s) ==
  /\ starter[s].pc = "detecting"
  /\ mode' \in IF mode = "unknown" THEN Modes ELSE {mode}
  /\ starter' = [starter EXCEPT ![s] = [pc |-> "filling", todo |-> Fills(s, mode')]]
  /\ left' = [left EXCEPT ![s] = IF mode' = "corporate" THEN Blocked ELSE {}]
  /\ UNCHANGED <<started, registry, registered, hung>>

\* A provider is up and available in time.
Up(s, v) ==
  /\ v \in starter[s].todo \ hung[s]
  /\ registered' = [registered EXCEPT ![s] = @ \cup {v}]
  /\ starter' = [starter EXCEPT ![s].todo = @ \ {v}]
  /\ UNCHANGED <<started, registry, left, hung, mode>>

GivenUp(s, v) == v \in starter[s].todo
\* It fails, is not available, or its time is over; later it is not looked at again.
Down(s, v) ==
  /\ GivenUp(s, v)
  /\ left' = [left EXCEPT ![s] = @ \cup {v}]
  /\ starter' = [starter EXCEPT ![s].todo = @ \ {v}]
  /\ UNCHANGED <<started, registry, registered, hung, mode>>

\* initializeAll has settled.
Done(s) ==
  /\ starter[s].pc = "filling" /\ starter[s].todo = {} /\ started' = TRUE
  /\ starter' = [starter EXCEPT ![s].pc = "ready"]
  /\ UNCHANGED <<registry, registered, left, hung, mode>>

Outdated == mode # "unknown" /\ mode' = "unknown" /\ UNCHANGED <<started, registry, registered, left, starter, hung>>

RNext ==
  \/ Outdated
  \/ \E s \in Starter :
       \/ Begin(s) \/ Replace(s) \/ Detect(s) \/ Done(s)
       \/ \E v \in Vendor : Up(s, v) \/ Down(s, v)

RSpec == RInit /\ [][RNext]_rvars

\* A look at the network and every provider's start have a timeout; an await goes on.
RFairness ==
  \A s \in Starter :
    /\ WF_rvars(Replace(s)) /\ WF_rvars(Detect(s)) /\ WF_rvars(Done(s))
    /\ \A v \in Vendor : WF_rvars(Down(s, v))

-----------------------------------------------------------------------------
(* Properties.                                                             *)

Unfilled == {"detecting", "filling"}

\* However many calls initialise the service at once, each in the place of the last: once
\* it is initialised, and no call is between putting its registry in place and having
\* filled it, the registry in use has every provider but those its own start left out.
RegistryWhole ==
  started /\ (\A s \in Starter : starter[s].pc \notin Unfilled) =>
    /\ registry # NoStarter
    /\ registered[registry] = Vendor \ left[registry]

\* A call that initialises the service gets there, whatever its providers do.
StartsEnd == \A s \in Starter : starter[s].pc = "loading" ~> starter[s].pc = "ready"

\* However many calls initialise the service at once, each in the place of the last:
\* the registry left in use is one that was filled, and lacks no provider but those that
\* the network blocks and those that did not come up.
RegistryFilled ==
  <>[](registry # NoStarter => registered[registry] \cup left[registry] = Vendor)

\* However many calls initialise the service at once: all go on, with a whole registry.
StartSucceeds == StartsEnd /\ RegistryFilled
=============================================================================
