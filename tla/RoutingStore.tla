---------------------------- MODULE RoutingStore ----------------------------
(***************************************************************************)
(* The two routing files, the configuration the proxy holds in memory, and *)
(* everybody who changes them: PUT and PATCH of /api/llm/routing, a person *)
(* with an editor, a crash in the middle of a save (proxy-bridge/          *)
(* routing-config.mjs "Loading", server.mjs). The rules of a document and  *)
(* what a document does with a request are Routing's.                      *)
(*                                                                         *)
(* "fresh" says that the files have not changed since the configuration in *)
(* memory was read: the comparison of the modification times, which two    *)
(* changes within a millisecond could defeat.                              *)
(***************************************************************************)
EXTENDS Routing, Integers

CONSTANTS Saver,      \* requests that save
          RDocs,      \* routing documents that are written, valid or not
          FDocs,      \* fallback documents that are written
          FirstPairs, \* the pairs there may be at the start
          Patches,    \* bodies of PATCH
          Requests,   \* requests that are routed
          Drop,       \* in a PATCH: this key goes
          Explored,   \* bound: the routing documents a PUT meets on disk
          MaxEdits    \* bound: edits by hand and crashes within a save

ASSUME StoreAssumption == MaxEdits \in Nat

VARIABLES disk,    \* the two files: [r, f]
          cache,   \* _cached: the set of the pair that was read last
          fresh,   \* _cachedMtimes is the stamp of the files
          up,      \* the process runs
          save,    \* a saver's PUT: idle, or the pair that it will check and write
          tended,  \* the last change of the files was a whole save
          reply,   \* the answer to the last PATCH, and whether what it asked for is valid
          edits

vars == <<disk, cache, fresh, up, save, tended, reply, edits>>

Pair(r, f) == [r |-> r, f |-> f]
Sound(p) == Valid(p.r, p.f)
Idle == [pc |-> "idle"]
NoReply == [code |-> 0, sound |-> FALSE]

\* What loadRoutingConfig returns: nothing when it throws.
Loaded == IF cache # {} /\ fresh THEN cache ELSE {p \in {disk} : Sound(p)}

\* Its effect on the memory. A throw keeps what was there, and its stamp.
Load ==
  /\ cache' = IF Loaded = {} THEN cache ELSE Loaded
  /\ fresh' = (Loaded # {})

\* Mutant: an edit of the files is not noticed.
StampHolds == TRUE
\* The stamp after somebody else wrote a file.
StampKept == FALSE

\* What a save writes: both files, the one it was not given as it read it.
Written(s) == save[s].pair

Init ==
  /\ disk \in {p \in FirstPairs : Sound(p)}
  /\ cache = {} /\ fresh = FALSE /\ up = FALSE
  /\ save = [s \in Saver |-> Idle]
  /\ tended = TRUE /\ reply = NoReply /\ edits = 0

\* The start reads the files and exits when it cannot.
BootReads == Loaded # {}
Boot ==
  /\ ~up /\ BootReads
  /\ up' = TRUE /\ Load
  /\ UNCHANGED <<disk, save, tended, reply, edits>>

\* Any request that is routed: it notices a change, or fails with the reason.
Request ==
  /\ up /\ ~fresh /\ Load
  /\ UNCHANGED <<disk, up, save, tended, reply, edits>>

-----------------------------------------------------------------------------
(* PUT: the text of either file or of both.                                *)

\* It loads the configuration in force (a 400 when that fails), then reads the
\* file it was not given, then waits for an import.
PutBegins(s, given, r, f) ==
  /\ up /\ save[s] = Idle /\ given # {} /\ disk.r \in Explored
  /\ Loaded # {} /\ Load
  /\ save' = [save EXCEPT ![s] = [pc |-> "checking", given |-> given,
                                  pair |-> Pair(IF "r" \in given THEN r ELSE disk.r,
                                                IF "f" \in given THEN f ELSE disk.f)]]
  /\ UNCHANGED <<disk, up, tended, reply, edits>>

\* The candidate is not valid: nothing is written.
PutRejected(s) ==
  /\ up /\ save[s] # Idle /\ ~Sound(save[s].pair)
  /\ save' = [save EXCEPT ![s] = Idle]
  /\ UNCHANGED <<disk, cache, fresh, up, tended, reply, edits>>

\* Both files are written and the configuration is read again, without a pause.
PutSaved(s) ==
  /\ up /\ save[s] # Idle /\ Sound(save[s].pair)
  /\ disk' = Written(s) /\ tended' = TRUE
  /\ cache' = {Written(s)} /\ fresh' = TRUE
  /\ save' = [save EXCEPT ![s] = Idle]
  /\ UNCHANGED <<up, reply, edits>>

\* The process dies between the two writes, or within the first.
TornSave(s) ==
  /\ up /\ save[s] # Idle /\ Sound(save[s].pair) /\ edits < MaxEdits
  /\ \E whole \in BOOLEAN : disk' = Pair([Written(s).r EXCEPT !.shape = @ /\ whole], disk.f)
  /\ tended' = FALSE /\ up' = FALSE /\ cache' = {} /\ fresh' = FALSE
  /\ save' = [x \in Saver |-> Idle] /\ reply' = NoReply /\ edits' = edits + 1

-----------------------------------------------------------------------------
(* PATCH: fields of either file. A body is [routes, on, targets, chains,   *)
(* enforce]: routes and chains map what is touched to its new value, or to *)
(* Drop; on and enforce are sets of at most one value; targets is the set  *)
(* of at most one list of [provider, on, net, scope, bands], where an      *)
(* empty scope or bands stands for one left out.                           *)

PatchedRoutes(old, new) ==
  [k \in (DOMAIN old \cup DOMAIN new) \ {x \in DOMAIN new : new[x] = Drop} |->
     IF k \notin DOMAIN new THEN old[k]
     ELSE IF k \in DOMAIN old THEN [old[k] EXCEPT !.provider = new[k].provider, !.band = new[k].band]
     ELSE new[k]]

Names(targets) == [i \in DOMAIN targets |-> targets[i].provider]

\* The same providers in the same order: field by field, what is left out stays.
InPlace(t, new) ==
  LET scope == IF new.scope = {} THEN t.scope ELSE new.scope
  IN  [t EXCEPT !.on = new.on, !.net = new.net, !.scope = scope,
                !.bands = IF new.bands = {} THEN @ ELSE [b \in new.bands |-> scope]]

\* Otherwise a new list, with the scope and the bands of a provider's old entry
\* where the body has none; a limit is not carried over, nor a band's own scope.
Rebuilt(old, new) ==
  LET was   == {old[i] : i \in {x \in DOMAIN old : old[x].provider = new.provider}}
      scope == IF new.scope # {} THEN new.scope
               ELSE IF was # {} THEN (CHOOSE t \in was : TRUE).scope ELSE Scope
      bands == IF new.bands # {} THEN new.bands ELSE UNION {DOMAIN t.bands : t \in was}
  IN  [provider |-> new.provider, on |-> new.on, net |-> new.net, scope |-> scope,
       bands |-> [b \in bands |-> scope], limited |-> FALSE]

PatchedTargets(old, new) ==
  IF Names(old) = Names(new) THEN [i \in DOMAIN new |-> InPlace(old[i], new[i])]
  ELSE [i \in DOMAIN new |-> Rebuilt(old, new[i])]

PatchedChains(old, new) ==
  [h \in (DOMAIN old \cup DOMAIN new) \ {x \in DOMAIN new : new[x] = Drop} |->
     IF h \in DOMAIN new THEN new[h] ELSE old[h]]

Chosen(set, old) == IF set = {} THEN old ELSE CHOOSE x \in set : TRUE

PatchedPair(p) ==
  Pair([disk.r EXCEPT !.routes = PatchedRoutes(@, p.routes),
                      !.semantic.on = Chosen(p.on, @),
                      !.semantic.targets = IF p.targets = {} THEN @
                                           ELSE PatchedTargets(@, CHOOSE l \in p.targets : TRUE)],
       [disk.f EXCEPT !.chains = PatchedChains(@, p.chains), !.enforce = Chosen(p.enforce, @)])

\* The check of the candidate names withLocalProviders, which is only in scope in
\* the handler of PUT: the error is caught and reported as a rejected patch.
Patch(p) ==
  /\ up /\ Loaded # {} /\ Load
  /\ reply' = [code |-> 400, sound |-> Sound(PatchedPair(p))]
  /\ UNCHANGED <<disk, up, save, tended, edits>>

-----------------------------------------------------------------------------

HandEdit ==
  /\ edits < MaxEdits
  /\ \E r \in RDocs \cup {disk.r}, f \in FDocs \cup {disk.f} :
       /\ Pair(r, f) # disk
       /\ disk' = Pair(r, f)
  /\ fresh' = (fresh /\ StampKept) /\ tended' = FALSE /\ edits' = edits + 1
  /\ UNCHANGED <<cache, up, save, reply>>

Next ==
  \/ Boot \/ Request \/ HandEdit
  \/ \E s \in Saver :
       \/ \E given \in SUBSET {"r", "f"}, r \in RDocs, f \in FDocs : PutBegins(s, given, r, f)
       \/ PutRejected(s) \/ PutSaved(s) \/ TornSave(s)
  \/ \E p \in Patches : Patch(p)

Spec == Init /\ [][Next]_vars

-----------------------------------------------------------------------------
(* Properties.                                                             *)

\* The variables have their types, and a process that runs has a configuration.
TypeOK ==
  /\ Cardinality(cache) <= 1 /\ fresh \in BOOLEAN /\ tended \in BOOLEAN
  /\ up => cache # {}
  /\ \A s \in Saver : save[s].pc \in {"idle", "checking"}
  /\ reply.code \in {0, 200, 400} /\ edits \in 0 .. MaxEdits

\* After a whole save the two files are a pair that loads, whatever other saves,
\* each of one file only, ran beside it: a start never fails on saved files.
DiskValid == tended => Sound(disk)

\* What is taken from memory is what the files say, and it is valid.
CacheIsDisk == fresh => cache = {disk} /\ Sound(disk)

\* Every step preserves the three together.
IInv == TypeOK /\ DiskValid /\ CacheIsDisk

\* The configuration in force while nothing is being saved.
InForce ==
  IF up /\ fresh /\ reply = NoReply /\ \A s \in Saver : save[s] = Idle
  THEN {Parsed(p.r, p.f) : p \in cache} ELSE {}

\* No hop of a chain is a provider that is off or that came before, and each hop
\* has a model its provider offers. (A head that a route's profile gave its model
\* may be another provider than the one the profile was checked against.)
HopsServed ==
  \A c \in InForce : \A q \in Requests :
    LET chain == ChainOf(c, q) IN
    \A i \in DOMAIN chain :
      /\ c.providers[chain[i].provider].on
      /\ \A j \in 1 .. i - 1 : chain[j].provider # chain[i].provider
      /\ chain[i].model # NoModel
      /\ \/ Offers(c.providers[chain[i].provider], chain[i].model)
         \/ i = 1 /\ Resolve(c, q).profiled /\ Resolve(c, q).moved

\* A call that was moved to a local target and fails there goes first to where it
\* came from, whatever the target's own chain says.
OriginFirst ==
  \A c \in InForce : \A q \in Requests :
    LET route == Resolve(c, q)
        chain == ChainOf(c, q)
    IN  (route.moved /\ chain # << >> /\ chain[1].provider = route.provider
           /\ Eligible4(c, q, Unguarded(route.from)))
        => Len(chain) > 1 /\ chain[2].provider = route.from

\* A call is moved only to a target that has a model for its very band, in a scope
\* and on a network the target was given for.
BandServed ==
  \A c \in InForce : \A q \in Requests :
    LET route == Resolve(c, q) IN
    (route.moved /\ ~route.profiled)
    => /\ route.model = c.providers[route.provider].models[route.band]
       /\ route.model # NoModel
       /\ \E i \in DOMAIN c.semantic.targets :
            LET t == c.semantic.targets[i]
            IN  t.provider = route.provider /\ t.net \in {"any", q.net} /\ ScopeFor(q) \in t.scope

\* Foreground Claude turns are never routed to a provider that its wire cannot
\* reach, as long as there is a route for them.
ClaudeWire ==
  \A c \in InForce : \A q \in Requests :
    (ClaudeKey \in DOMAIN c.routes /\ <<q.job, q.agent>> = ClaudeKey) => ~Refused(c, q)

\* A valid configuration has a provider to ask for every call without tools.
NeverStranded ==
  \A c \in InForce : \A q \in Requests : ~q.tools => ChainOf(c, q) # << >>

\* Whatever the declarations that validation let through one by one, a route meets
\* them all: it is never without a provider, and never at one that cannot serve it.
RoutesServed == HopsServed /\ NeverStranded

\* Moving a call to a local target costs it neither its way back, nor its band, nor
\* its wire.
OffloadsServed == OriginFirst /\ BandServed /\ ClaudeWire

\* Expected to fail: "Surgical field-level edits ... The dashboard uses THIS rather
\* than PUT" (server.mjs, at the PATCH handler): a patch that leads to a valid pair
\* is saved.
PatchSaves == reply.sound => reply.code = 200
=============================================================================
