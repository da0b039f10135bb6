---------------------------- MODULE QuotaTracker ----------------------------
(***************************************************************************)
(* The subscription quota of src/subscription-quota-tracker.ts and the     *)
(* file it is kept in, under concurrent calls of the service and restarts. *)
(* The first calls load the file, each on its own; a save makes the        *)
(* directory, then takes the data as it is by then, and writes it over the *)
(* file. Saves overlap and end in any order; a crash may cut one.          *)
(*                                                                         *)
(* Time is kept as ages: that of a mark, up to the longest wait. A call is *)
(* about one provider. The hourly counts, which refuse nothing, are left   *)
(* out.                                                                    *)
(***************************************************************************)
EXTENDS Naturals, Sequences

CONSTANTS Caller,       \* calls under way at once; each is made again and again
          Plan,         \* subscription providers
          Backoff,      \* backoffSchedule
          MaxRestarts   \* bound

ASSUME QuotaAssumption ==
  Backoff \in Seq(Nat) /\ Backoff # <<>> /\ \A i \in DOMAIN Backoff : Backoff[i] <= Backoff[Len(Backoff)]

VARIABLES
  data,      \* provider -> [out, age, fails]: quotaExhausted, exhaustedAt, consecutiveFailures
  loaded,    \* initialized
  file,      \* [ok, d]: the data it holds; not ok when missing or cut
  saves,     \* <<call, kind>> -> its persist(), [pc, d]: "none", "mkdir", or "write" of d
  caller,    \* call -> [pc, p]
  restarts,
  since      \* history: provider -> the age of its last mark, over restarts

qvars == <<data, loaded, file, saves, caller, restarts, since>>

Longest == Backoff[Len(Backoff)]
Never == Longest
Fresh == [out |-> FALSE, age |-> Never, fails |-> 0]
Nothing == [p \in Plan |-> Fresh]
Kinds == {"own", "mark"}
Bad == [ok |-> FALSE, d |-> Nothing]
NoSave == [pc |-> "none", d |-> Nothing]

QInit ==
  /\ data = Nothing /\ loaded = FALSE /\ file = Bad
  /\ saves = [s \in Caller \X Kinds |-> NoSave]
  /\ caller \in [Caller -> [pc : {"new"}, p : Plan]]
  /\ restarts = 0 /\ since = [p \in Plan |-> Never]

To(c, pc) == caller' = [caller EXCEPT ![c].pc = pc]
Saves(c, kind) == saves' = [saves EXCEPT ![<<c, kind>>].pc = "mkdir"]

\* Mutant: the schedule has no last entry that stands for all that follow.
CanRetryScheduled(d) == d.fails \in DOMAIN Backoff /\ d.age >= Backoff[d.fails]
CanRetry(d) == d.age >= IF d.fails \in DOMAIN Backoff THEN Backoff[d.fails] ELSE Longest
Refuses(d) == d.out /\ ~CanRetry(d)

\* The rest of isAvailable, with the data in memory: a provider whose wait has passed
\* is let through once that is saved.
Judge(c, d) ==
  LET p == caller[c].p IN
  IF d[p].out /\ CanRetry(d[p])
  THEN /\ data' = [d EXCEPT ![p].out = FALSE, ![p].age = Never]
       /\ Saves(c, "own") /\ To(c, "passing")
  ELSE /\ data' = d /\ UNCHANGED saves
       /\ To(c, IF Refuses(d[p]) THEN "refused" ELSE "asking")

\* isAvailable. A first call reads the file, whoever else does.
Ask(c) ==
  /\ caller[c].pc = "new" /\ \A k \in Kinds : saves[<<c, k>>] = NoSave
  /\ IF loaded THEN Judge(c, data) ELSE To(c, "reading") /\ UNCHANGED <<data, saves>>
  /\ UNCHANGED <<loaded, file, restarts, since>>

Read == file.d

\* initialize() goes on: the file's data replaces what is in memory, and is saved.
Load(c) ==
  /\ caller[c].pc = "reading" /\ loaded' = TRUE
  /\ IF file.ok THEN data' = Read /\ Saves(c, "own") /\ To(c, "pruning") ELSE Judge(c, Nothing)
  /\ UNCHANGED <<file, restarts, since>>

\* The provider has answered: recordUsage.
Used(c) ==
  /\ caller[c].pc \in {"asking", "refused"}
  /\ data' = [data EXCEPT ![caller[c].p] = Fresh]
  /\ Saves(c, "own") /\ To(c, "booking")
  /\ UNCHANGED <<loaded, file, restarts, since>>

\* The provider says that the quota is exhausted: markQuotaExhausted, not awaited.
Mark(c) ==
  /\ caller[c].pc \in {"asking", "refused"}
  /\ data' = [data EXCEPT ![caller[c].p] =
                [out |-> TRUE, age |-> 0,
                 fails |-> IF @.fails > Len(Backoff) THEN @.fails ELSE @.fails + 1]]
  /\ since' = [since EXCEPT ![caller[c].p] = 0]
  /\ Saves(c, "mark") /\ To(c, "done")
  /\ UNCHANGED <<loaded, file, restarts>>

\* The provider is not asked, or fails otherwise.
Passed(c) ==
  /\ caller[c].pc \in {"asking", "refused"} /\ To(c, "done")
  /\ UNCHANGED <<data, loaded, file, saves, restarts, since>>

Anew(c) ==
  /\ caller[c].pc = "done" /\ \E p \in Plan : caller' = [caller EXCEPT ![c] = [pc |-> "new", p |-> p]]
  /\ UNCHANGED <<data, loaded, file, saves, restarts, since>>

\* persist(): the directory is there, the data is taken.
Write(s) ==
  /\ saves[s].pc = "mkdir" /\ saves' = [saves EXCEPT ![s] = [pc |-> "write", d |-> data]]
  /\ UNCHANGED <<data, loaded, file, caller, restarts, since>>

Writing == {s \in Caller \X Kinds : saves[s].pc = "write"}

\* persist() ends, and the call that awaits it goes on. It may have failed half way,
\* or have met another one.
Saved(c, kind) ==
  /\ <<c, kind>> \in Writing
  /\ file' \in {[ok |-> TRUE, d |-> saves[<<c, kind>>].d], file, Bad}
  /\ saves' = [saves EXCEPT ![<<c, kind>>] = NoSave]
  /\ IF kind = "mark" THEN UNCHANGED caller
     ELSE To(c, CASE caller[c].pc = "pruning" -> "checking"
                  [] caller[c].pc = "passing" -> "asking"
                  [] OTHER -> "done") \* booking
  /\ UNCHANGED <<data, loaded, restarts, since>>

\* isAvailable goes on after its initialize().
Initialized(c) ==
  /\ caller[c].pc = "checking" /\ Judge(c, data)
  /\ UNCHANGED <<loaded, file, restarts, since>>

Restart ==
  /\ restarts < MaxRestarts /\ restarts' = restarts + 1
  /\ data' = Nothing /\ loaded' = FALSE
  /\ file' \in {file} \cup (IF Writing = {} THEN {} ELSE {Bad})
  /\ saves' = [s \in Caller \X Kinds |-> NoSave]
  /\ caller' = [c \in Caller |-> [caller[c] EXCEPT !.pc = "new"]]
  /\ UNCHANGED since

Later(age) == IF age < Longest THEN age + 1 ELSE age
Aged(d) == [p \in Plan |-> [d[p] EXCEPT !.age = Later(@)]]
Passes ==
  /\ data' = Aged(data) /\ file' = [file EXCEPT !.d = Aged(@)]
  /\ saves' = [s \in Caller \X Kinds |-> [saves[s] EXCEPT !.d = Aged(@)]]
  /\ since' = [p \in Plan |-> Later(since[p])]
  /\ UNCHANGED <<loaded, caller, restarts>>

QNext ==
  \/ Passes \/ Restart
  \/ \E c \in Caller :
       \/ Ask(c) \/ Load(c) \/ Initialized(c) \/ Used(c) \/ Mark(c) \/ Passed(c) \/ Anew(c)
       \/ \E kind \in Kinds : Write(<<c, kind>>) \/ Saved(c, kind)

QSpec == QInit /\ [][QNext]_qvars

-----------------------------------------------------------------------------
(* Properties.                                                             *)

\* Whichever load comes last, whichever save, and whatever a crash left: a provider is
\* refused only within the longest wait after it last said that its quota is gone.
RefusedForReason == \A p \in Plan : Refuses(data[p]) => since[p] < Longest
=============================================================================
