----------------------------- MODULE TokenUsage -----------------------------
(***************************************************************************)
(* The rows of src/token-usage.ts: a completion's row is probed for, given *)
(* an id and inserted, statement by statement, while the coding side       *)
(* writes rows of the same calls into the same database. The machine's own *)
(* rows are exported to a file per window of time, a moment later, and     *)
(* read back at every start, for the database may have been deleted.       *)
(*                                                                         *)
(* A row is its key, its request, whether it carries the cache's split of  *)
(* tokens, its window and the call it is of. A call of the coding side     *)
(* probes and inserts in one step; its module is not in this repository.   *)
(* The statements that merge, repair and ingest are taken to succeed.      *)
(***************************************************************************)
EXTENDS Naturals, FiniteSetsExt

CONSTANTS Call,
          Coding,    \* calls the coding side logs
          Hash,      \* call -> "machine" or "adapter"
          Req, NoReq,\* call -> the provider's id of the request
          Split,     \* calls whose row carries the split
          OldRows,   \* the rows of a database from before the unique index
          Windows,   \* bound: the clock runs through 1..Windows
          Attempts,  \* MAX_ID_RETRIES
          MaxFaults  \* bound: crashes and deletions of the database

Requests == {Req[c] : c \in Call} \cup {NoReq}
Row == [hash : {"machine", "adapter"}, id : Nat, req : Requests, split : BOOLEAN, win : Nat, of : Call]

ASSUME RowsAssumption ==
  /\ Coding \subseteq Call /\ Split \subseteq Call
  /\ Hash \in [Call -> {"machine", "adapter"}]
  /\ \A c \in Coding : Hash[c] = "adapter"
  /\ OldRows \subseteq Row /\ IsFiniteSet(OldRows)
  /\ \A r \in OldRows :
       r.hash = Hash[r.of] /\ r.req = Req[r.of] /\ (r.of \in Split => r.split)
  /\ \A r, x \in OldRows : r.hash = x.hash /\ r.id = x.id => r = x
  /\ Windows \in Nat

VARIABLES
  proxy,   \* "down", the steps of initTokenDb, or "up"
  db,      \* "absent", "open", "indexed"
  rows,    \* [hash, id, req, split, win, of]
  seq,     \* _localIdSeq
  log,     \* the logCall under way: [call, id, tries], or NoLog
  logged,  \* calls whose row has been taken care of
  clock,   \* the window it is
  window,  \* _cachedWindow, 0 when it is to be found out
  timers,  \* _exportTimers: key -> the window it is when it is set
  files,   \* window -> exported rows, or Torn
  faults

rvars == <<proxy, db, rows, seq, log, logged, clock, window, timers, files, faults>>

NoLog == [call |-> NoReq, id |-> 0, tries |-> 0]
Torn == {[id |-> 0, split |-> FALSE, of |-> NoReq]} \* a file that does not parse
Win == 1..Windows

RInit ==
  /\ proxy = "down"
  /\ \/ db = "absent" /\ rows = {}
     \/ db = "open" /\ rows = OldRows
  /\ seq = 1 /\ log = NoLog /\ logged = {r.of : r \in rows}
  /\ clock = 1 /\ window = 0 /\ timers = [w \in Win |-> 0]
  /\ files = [w \in Win |-> {}] /\ faults = 0

Keyed(rs, h, id) == \E r \in rs : r.hash = h /\ r.id = id
NextId(rs, h) == IF \E r \in rs : r.hash = h THEN Max({r.id : r \in {x \in rs : x.hash = h}}) + 1 ELSE 1

Same(r, c) == r.hash = Hash[c] /\ r.req = Req[c]
\* isDupRequestId.
Dup(c) == Req[c] # NoReq /\ \E r \in rows : Same(r, c)
RowOf(c, id) ==
  [hash |-> Hash[c], id |-> id, req |-> Req[c], split |-> c \in Split, win |-> clock, of |-> c]

\* mergeOnCacheIfRicher: a row without the split is given the duplicate's.
Enriched(c) ==
  {IF Same(r, c) THEN [r EXCEPT !.split = @ \/ c \in Split] ELSE r : r \in rows}

\* currentWindow(now): what it was some seconds ago, or what the coordinator says it is,
\* or, when that is silent, the window of now.
Found(now) == IF window # 0 THEN {window} ELSE {clock, now}
\* scheduleExport: one timer for a key, which keeps the time it was set at.
Scheduled(now) ==
  \E w \in Found(now) :
    /\ window' = w
    /\ timers' = IF timers[w] = 0 THEN [timers EXCEPT ![w] = now] ELSE timers

-----------------------------------------------------------------------------
(* initTokenDb.                                                            *)

\* The table and its columns exist from here on.
Open ==
  /\ proxy = "down"
  /\ proxy' = IF db = "indexed" THEN "hydrate" ELSE "fill"
  /\ db' = IF db = "absent" THEN "open" ELSE db
  /\ UNCHANGED <<rows, seq, log, logged, clock, window, timers, files, faults>>

Twins(r) == {x \in rows : x.hash = r.hash /\ x.req = r.req /\ r.req # NoReq}
Survivor(r) == \A x \in Twins(r) : r.id <= x.id

Filled(r) == [r EXCEPT !.split = @ \/ \E x \in Twins(r) : x.split]

\* The one-shot repair: the earliest of the duplicates is given the split,
Fill ==
  /\ proxy = "fill" /\ proxy' = "collapse"
  /\ rows' = {IF Survivor(r) THEN Filled(r) ELSE r : r \in rows}
  /\ UNCHANGED <<db, seq, log, logged, clock, window, timers, files, faults>>

\* the others are deleted,
Collapse ==
  /\ proxy = "collapse" /\ proxy' = "index"
  /\ rows' = {r \in rows : r.req = NoReq \/ Survivor(r)}
  /\ UNCHANGED <<db, seq, log, logged, clock, window, timers, files, faults>>

\* and the index is built, unless there are duplicates again.
Index ==
  /\ proxy = "index" /\ proxy' = "hydrate"
  /\ db' = IF \A r \in rows : r.req = NoReq \/ Twins(r) = {r} THEN "indexed" ELSE db
  /\ UNCHANGED <<rows, seq, log, logged, clock, window, timers, files, faults>>

Imported ==
  UNION {{[hash |-> "machine", id |-> f.id, req |-> NoReq, split |-> f.split, win |-> w, of |-> f.of] :
            f \in IF files[w] = Torn THEN {} ELSE files[w]} : w \in Win}

\* Mutant: a database that is not empty is left as it is.
HydratedOnce == IF rows = {} THEN Imported ELSE rows
\* hydrateFromExports: INSERT OR IGNORE, always.
Hydrated == rows \cup {r \in Imported : ~Keyed(rows, r.hash, r.id)}

\* The counter is seeded last.
Hydrate ==
  /\ proxy = "hydrate" /\ proxy' = "up"
  /\ rows' = Hydrated /\ seq' = NextId(Hydrated, "machine")
  /\ UNCHANGED <<db, log, logged, clock, window, timers, files, faults>>

-----------------------------------------------------------------------------
(* logCall and the export.                                                 *)

Done(c) == logged' = logged \cup {c} /\ log' = NoLog

\* The probe: a duplicate enriches the row that is there, or is dropped. A call that is
\* given up may come again, as another one.
Begin(c) ==
  /\ proxy = "up" /\ log = NoLog /\ c \in Call \ (Coding \cup logged)
  /\ \A r \in rows : r.of # c
  /\ IF Dup(c)
     THEN /\ rows' = Enriched(c) /\ Done(c)
          /\ IF Enriched(c) # rows THEN Scheduled(clock) ELSE UNCHANGED <<window, timers>>
          /\ UNCHANGED seq
     ELSE /\ log' = [call |-> c, id |-> IF Hash[c] = "machine" THEN seq ELSE NextId(rows, Hash[c]), tries |-> 1]
          /\ seq' = IF Hash[c] = "machine" THEN seq + 1 ELSE seq
          /\ UNCHANGED <<rows, logged, window, timers>>
  /\ UNCHANGED <<proxy, db, clock, files, faults>>

Clash(c, id) == Keyed(rows, Hash[c], id) \/ (db = "indexed" /\ Dup(c))

Inserted ==
  LET c == log.call IN
  /\ rows' = rows \cup {RowOf(c, log.id)} /\ Done(c) /\ Scheduled(clock)
  /\ seq' = IF Hash[c] = "machine" /\ log.id >= seq THEN log.id + 1 ELSE seq

\* The duplicate that is found now is dropped, and what it carries with it.
RefusedPlain(c) ==
  IF Dup(c) THEN Done(c) /\ UNCHANGED <<rows, window, timers>>
  ELSE /\ log' = [log EXCEPT !.id = NextId(rows, Hash[c]), !.tries = @ + 1]
       /\ UNCHANGED <<rows, logged, window, timers>>
\* A constraint fails: by a duplicate, or another row has the id meanwhile.
Refused(c) ==
  IF Dup(c)
  THEN /\ rows' = Enriched(c) /\ Done(c)
       /\ IF Enriched(c) # rows THEN Scheduled(clock) ELSE UNCHANGED <<window, timers>>
  ELSE /\ IF log.tries < Attempts
          THEN log' = [log EXCEPT !.id = NextId(rows, Hash[c]), !.tries = @ + 1]
          ELSE log' = NoLog
       /\ UNCHANGED <<rows, logged, window, timers>>

Insert ==
  /\ log # NoLog
  /\ IF Clash(log.call, log.id) THEN Refused(log.call) /\ UNCHANGED seq ELSE Inserted
  /\ UNCHANGED <<proxy, db, clock, files, faults>>

\* insertTokenRowDeduped of the coding side.
CodingLogs(c) ==
  /\ db # "absent" /\ c \in Coding \ logged
  /\ rows' = IF Dup(c) THEN Enriched(c) ELSE rows \cup {RowOf(c, NextId(rows, Hash[c]))}
  /\ logged' = logged \cup {c}
  /\ UNCHANGED <<proxy, db, seq, log, clock, window, timers, files, faults>>

Exported(r) == [id |-> r.id, split |-> r.split, of |-> r.of]
\* exportToHourFile: the rows of the window, and those of the file they do not replace.
Export(w) ==
  LET mine == {Exported(r) : r \in {x \in rows : x.hash = "machine" /\ x.win = w}}
      kept == IF files[w] = Torn THEN {} ELSE {f \in files[w] : \A m \in mine : m.id # f.id}
  IN [files EXCEPT ![w] = kept \cup mine]

Flush(k) ==
  /\ proxy = "up" /\ log = NoLog /\ timers[k] # 0
  /\ timers' = [timers EXCEPT ![k] = 0]
  /\ \E w \in Found(timers[k]) : window' = w /\ files' = Export(w)
  /\ UNCHANGED <<proxy, db, rows, seq, log, logged, clock, faults>>

-----------------------------------------------------------------------------
(* Time, crashes, a deleted database.                                      *)

Tick ==
  /\ clock < Windows /\ clock' = clock + 1
  /\ UNCHANGED <<proxy, db, rows, seq, log, logged, window, timers, files, faults>>

\* WINDOW_CACHE_TTL_MS.
Forget ==
  /\ window # 0 /\ window' = 0
  /\ UNCHANGED <<proxy, db, rows, seq, log, logged, clock, timers, files, faults>>

\* The process ends, perhaps in the middle of writing a file.
Crash ==
  /\ proxy # "down" /\ faults < MaxFaults
  /\ proxy' = "down" /\ log' = NoLog /\ window' = 0 /\ timers' = [w \in Win |-> 0]
  /\ \/ UNCHANGED files
     \/ /\ proxy = "up"
        /\ \E k \in {x \in Win : timers[x] # 0} : \E w \in Found(timers[k]) :
             Export(w) # files /\ files' = [files EXCEPT ![w] = Torn]
  /\ faults' = faults + 1
  /\ UNCHANGED <<db, rows, seq, logged, clock>>

DeleteDb ==
  /\ proxy = "down" /\ db # "absent" /\ faults < MaxFaults
  /\ db' = "absent" /\ rows' = {} /\ logged' = {} /\ faults' = faults + 1
  /\ UNCHANGED <<proxy, seq, log, clock, window, timers, files>>

RNext ==
  \/ Open \/ Fill \/ Collapse \/ Index \/ Hydrate \/ Insert \/ Tick \/ Forget \/ Crash \/ DeleteDb
  \/ \E c \in Call : Begin(c) \/ CodingLogs(c)
  \/ \E k \in Win : Flush(k)

RSpec == RInit /\ [][RNext]_rvars

-----------------------------------------------------------------------------
(* Properties.                                                             *)

\* Every call that was logged has its row, or the row of its request: a row that loses
\* a race for an id gets another, and a repair deletes duplicates only. A call that
\* runs out of second ids (MAX_ID_RETRIES) counts as not logged.
NoRowLost ==
  \A c \in logged : \E r \in rows : r.of = c \/ (Req[c] # NoReq /\ Same(r, c))

\* The split of a request is kept, whether the row that carries it comes first or
\* second, between the probe and the insert, or is one the repair deletes.
CacheKept ==
  \A c \in logged \cap Split : \E r \in rows : (r.of = c \/ (Req[c] # NoReq /\ Same(r, c))) /\ r.split

\* Neither a call nor what is known of it is lost.
RowsKept == NoRowLost /\ CacheKept

\* A row that is in a file stays in it, under its id: neither a deleted database nor
\* an export after it puts another row in its place.
HistoryKept ==
  [][\A w \in Win : files[w] # Torn /\ files'[w] # Torn =>
       \A f \in files[w] : \E g \in files'[w] : g.id = f.id /\ g.of = f.of]_files

\* token-usage.ts:1173 says that a row lands in its window's file even if the flush runs
\* after the window's end: when no flush is due, every row of a window is in its file.
BoundaryExported ==
  proxy = "up" /\ log = NoLog /\ faults = 0 /\ (\A k \in Win : timers[k] = 0) =>
    \A r \in rows : r.hash = "machine" => \E f \in files[r.win] : f.of = r.of
=============================================================================
