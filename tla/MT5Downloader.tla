---------------------------- MODULE MT5Downloader ----------------------------
(***************************************************************************)
(* MT5DataDownloader (mt5connect/downloader.py) and the historical         *)
(* requests of the data client (mt5connect/data.py): two readers of the    *)
(* broker's history that look their instruments up in one provider.        *)
(*                                                                         *)
(* download_all() is a queue of downloads, one per symbol and kind of      *)
(* data.  A download walks over the chunks of its range; every library     *)
(* call, conversion and write of a chunk may fail.  Instants are 0..End;   *)
(* a row is told apart by its instant only.                                *)
(***************************************************************************)
EXTENDS MT5Provider

CONSTANTS
  End,        \* the range asked for is 0..End
  ChunkDays,  \* length of a chunk
  Rows,       \* per listed name, the instants the broker has data of
  MaxQueue,   \* bound: downloads of one download_all()
  MaxCalls,   \* bound: calls of download_all()
  NamesAsked, \* the lists of symbols it may be given
  Specs       \* bar specifications a strategy may request

Times == 0..End

ASSUME DownloaderAssumption ==
  /\ End \in Nat \ {0}    \* a range of no length has no chunks
  /\ ChunkDays \in Nat \ {0}
  /\ Rows \in [Listed -> SUBSET Times]
  /\ MaxQueue \in Nat
  /\ MaxCalls \in Nat
  /\ NamesAsked \subseteq Seq(Names)
  /\ Specs \subseteq (Nat \ {0}) \X {"SECOND", "MINUTE", "HOUR", "DAY", "WEEK", "MONTH"}
                          \X {"BID", "ASK", "MID", "LAST"}
  \* a broker has no two names that differ only by case
  /\ \A m, n \in Listed : Upper(m) = Upper(n) => m = n

VARIABLES
  calls,      \* calls of download_all() so far
  queue,      \* its downloads, the current one first
  fetching,   \* the current download is past its preparations
  filedAs,    \* the instrument its rows are filed under
  current,    \* start of its next chunk
  result,     \* its DownloadResult
  results,    \* the results of this call so far
  catalog,    \* rows written: how often, per instrument, series and instant
  answer      \* what the data client is answering, else NoAnswer

jobVars == <<calls, queue, fetching, filedAs, current, result, results, catalog>>
downloadVars == <<providerVars, jobVars, answer>>

NoName == [stem |-> "", stemUpper |-> TRUE, suffix |-> "", suffixUpper |-> TRUE]

(* The series of a catalog: quote ticks, or bars of a specification. *)
TICKS == 0
Kinds == {TICKS, HOUR_1, DAY_1}
Series(timeframe) ==
  IF timeframe = TICKS THEN <<0, "TICK", "QUOTE">> ELSE BarSpec(timeframe)

JobType == [name : Names, timeframe : Kinds]

(* DownloadResult; lost is a history field: the instants of the chunks     *)
(* that were counted but not written.                                      *)
ResultType ==
  [processed : Nat, empty : Nat, errors : Nat, written : Nat,
   lost : SUBSET Times]
NewResult ==
  [processed |-> 0, empty |-> 0, errors |-> 0, written |-> 0, lost |-> {}]

NoAnswer == [rows |-> {}, name |-> NoName, asked |-> <<0, "TICK", "QUOTE">>,
             filedAs |-> NoName, series |-> <<0, "TICK", "QUOTE">>]

DownloadInit ==
  /\ ProviderInit
  /\ calls = 0
  /\ queue = <<>>
  /\ fetching = FALSE
  /\ filedAs = NoName
  /\ current = 0
  /\ result = NewResult
  /\ results = <<>>
  /\ catalog = [n \in Listed |-> [s \in {Series(k) : k \in Kinds} |->
                                    [t \in Times |-> 0]]]
  /\ answer = NoAnswer

(* What the broker has for a name: nothing for one it does not list. *)
RowsOf(n) == IF n \in Listed THEN Rows[n] ELSE {}

-----------------------------------------------------------------------------
(* download_all() *)

(* Ticks, then bars of each timeframe; H1 and D1 when none is named. *)
KindsOf(ticks, bars, timeframes) ==
  (IF ticks THEN <<TICKS>> ELSE <<>>) \o
  (IF ~bars THEN <<>> ELSE IF timeframes = <<>> THEN <<HOUR_1, DAY_1>>
                                                ELSE timeframes)

(* Symbol by symbol, and for each symbol kind by kind. *)
Queue(names, kinds) ==
  [i \in 1..(Len(names) * Len(kinds)) |->
     [name |-> names[((i - 1) \div Len(kinds)) + 1],
      timeframe |-> kinds[((i - 1) % Len(kinds)) + 1]]]

DownloadAll(names, kinds) ==
  /\ queue = <<>> /\ answer = NoAnswer
  /\ calls < MaxCalls
  /\ Len(names) * Len(kinds) \in 1..MaxQueue
  /\ calls' = calls + 1
  /\ queue' = Queue(names, kinds)
  /\ results' = <<>>
  /\ wanted' = {}
  /\ UNCHANGED <<link, cache, failed, fetching, filedAs, current, result, catalog>>

Job == Head(queue)

(* Go on with the next download after this one ended in r. *)
Done(r) ==
  /\ queue' = Tail(queue)
  /\ fetching' = FALSE
  /\ filedAs' = NoName
  /\ current' = 0
  /\ result' = NewResult
  /\ results' = Append(results, [job |-> Job, as |-> filedAs, counts |-> r])

(* ensure_connected() raises, out of download_all() too. *)
StartRaises ==
  /\ queue # <<>> /\ ~fetching
  /\ ~link
  /\ queue' = <<>>
  /\ results' = <<>>
  /\ UNCHANGED <<providerVars, calls, fetching, filedAs, current, result, catalog>>

(* _ensure_instrument(): from the cache, or loaded now. *)
Start ==
  /\ queue # <<>> /\ ~fetching
  /\ link
  /\ \/ Found(Job.name) /\ filedAs' = InstrumentOf(Job.name).id /\ UNCHANGED cache
     \/ ~Found(Job.name) /\ LoadSymbol(Job.name) /\ filedAs' = Job.name
  /\ fetching' = TRUE
  /\ UNCHANGED <<link, failed, wanted, calls, queue, current, result, results,
                 catalog>>

(* Mutant: a symbol the broker does not know is skipped without an error. *)
StartFailsQuietly ==
  /\ queue # <<>> /\ ~fetching
  /\ link
  /\ ~Found(Job.name) /\ LoadSymbolRaises(Job.name)
  /\ Done(result)
  /\ UNCHANGED <<link, failed, wanted, calls, catalog>>

(* ... or not to be had: one error, and no chunk. *)
StartFails ==
  /\ queue # <<>> /\ ~fetching
  /\ link
  /\ ~Found(Job.name) /\ LoadSymbolRaises(Job.name)
  /\ Done([result EXCEPT !.errors = 1])
  /\ UNCHANGED <<link, failed, wanted, calls, catalog>>

-----------------------------------------------------------------------------
(* The loop over _date_chunks(). *)

(* Mutant: the last chunk is as long as the others. *)
ChunkEndUncapped(start) == start + ChunkDays

(* min(current + delta, end) *)
ChunkEnd(start) == IF start + ChunkDays < End THEN start + ChunkDays ELSE End

(* Mutant: a range ends before its last instant. *)
ChunkRowsHalfOpen == RowsOf(Job.name) \cap (current..(ChunkEnd(current) - 1))

(* copy_*_range() includes both ends. *)
ChunkRows == RowsOf(Job.name) \cap (current..ChunkEnd(current))

(* Nothing came back: no data, or None from a call that failed. *)
ChunkEmpty ==
  /\ result' = [result EXCEPT !.processed = @ + 1, !.empty = @ + 1,
                              !.lost = @ \cup ChunkRows]
  /\ UNCHANGED catalog

(* Mutant: the rows are counted before the write that then fails. *)
ChunkFailsCounted ==
  /\ ChunkRows # {}
  /\ result' = [result EXCEPT !.processed = @ + 1, !.errors = @ + 1,
                              !.written = @ + Cardinality(ChunkRows),
                              !.lost = @ \cup ChunkRows]
  /\ UNCHANGED catalog

(* The call, a conversion or the write raises. *)
ChunkFails ==
  /\ result' = [result EXCEPT !.processed = @ + 1, !.errors = @ + 1,
                              !.lost = @ \cup ChunkRows]
  /\ UNCHANGED catalog

ChunkWritten ==
  /\ ChunkRows # {}
  /\ result' = [result EXCEPT !.processed = @ + 1,
                              !.written = @ + Cardinality(ChunkRows)]
  /\ catalog' = [catalog EXCEPT ![filedAs][Series(Job.timeframe)] =
                   [t \in Times |-> IF t \in ChunkRows THEN @[t] + 1 ELSE @[t]]]

FetchChunk ==
  /\ fetching
  /\ current < End
  /\ ChunkEmpty \/ ChunkFails \/ ChunkWritten
  /\ current' = ChunkEnd(current)
  /\ UNCHANGED <<providerVars, calls, queue, fetching, filedAs, results>>

Finish ==
  /\ fetching
  /\ current >= End
  /\ Done(result)
  /\ UNCHANGED <<providerVars, calls, catalog>>

-----------------------------------------------------------------------------
(* _request_quote_ticks() and _request_bars() *)

(* The series delivered for a request: bars are asked for by timeframe and *)
(* come back under the specification of that timeframe.                    *)
Delivered(asked) ==
  IF asked = Series(TICKS) THEN asked
                           ELSE BarSpec(bar_spec_to_mt5_timeframe(asked))

(* A request that is answered, with rows or with none. *)
Request(n, asked) ==
  /\ queue = <<>> /\ answer = NoAnswer
  /\ link
  /\ Found(n)
  /\ \E rows \in {{}, RowsOf(n)} :
       answer' = [rows |-> rows, name |-> n, asked |-> asked,
                  filedAs |-> InstrumentOf(n).id, series |-> Delivered(asked)]
  /\ UNCHANGED <<providerVars, jobVars>>

(* The answer reaches the engine.  (Without an instrument or a connection  *)
(* there is none, and the request is never answered.)                      *)
Deliver ==
  /\ answer # NoAnswer
  /\ answer' = NoAnswer
  /\ UNCHANGED <<providerVars, jobVars>>

-----------------------------------------------------------------------------
Downloading ==
  /\ StartRaises \/ Start \/ StartFails \/ FetchChunk \/ Finish
  /\ UNCHANGED answer

KindsAsked ==
  {KindsOf(ticks, bars, tfs) :
     ticks, bars \in BOOLEAN, tfs \in {<<>>, <<HOUR_1>>}}

(* A download never gives up control, so the clients wait for its end. *)
DownloadNext ==
  \/ /\ \E names \in NamesAsked, kinds \in KindsAsked : DownloadAll(names, kinds)
     /\ UNCHANGED answer
  \/ Downloading
  \/ /\ queue = <<>> /\ answer = NoAnswer
     /\ ProviderStep
     /\ UNCHANGED <<jobVars, answer>>
  \/ Deliver
  \/ \E n \in Names, asked \in Specs \cup {Series(TICKS)} :
       Request(n, asked)

DownloadSpec == DownloadInit /\ [][DownloadNext]_downloadVars

-----------------------------------------------------------------------------
(* Correctness. *)

(* Every variable keeps its type; rows are filed under listed names only. *)
DownloadTypeOK ==
  /\ ProviderTypeOK
  /\ calls \in 0..MaxCalls
  /\ queue \in Seq(JobType)
  /\ fetching \in BOOLEAN
  /\ filedAs \in IF fetching THEN Listed ELSE {NoName}
  /\ current \in Times
  /\ result \in ResultType
  /\ results \in Seq([job : JobType, as : Listed \cup {NoName}, counts : ResultType])
  /\ catalog \in [Listed -> [{Series(k) : k \in Kinds} -> [Times -> Nat]]]

(* The rows of a series as they were written, each as often as it was. *)
Copies(row) == UNION {{t} \X (1..row[t]) : t \in DOMAIN row}

(* The downloads of this call that are over and filed rows of series s     *)
(* under n.                                                                *)
Over(n, s) ==
  {i \in DOMAIN results : results[i].as = n /\ Series(results[i].job.timeframe) = s}

(* Every row of a finished download is in the catalog or belongs to a      *)
(* chunk that was counted as empty or as an error, however the chunks of a *)
(* range, failed calls and failed writes follow each other.                *)
RowsAccounted ==
  \A i \in DOMAIN results :
    LET r == results[i] IN
    r.as # NoName =>
      /\ \A t \in RowsOf(r.job.name) \ r.counts.lost :
           catalog[r.as][Series(r.job.timeframe)][t] > 0
      /\ r.counts.lost # {} => r.counts.empty + r.counts.errors > 0

(* Where one chunk of a range ends and another starts. *)
InnerBoundary(t) == t # End /\ \E i \in 1..End : t = i * ChunkDays

(* How often one download may write the row of an instant. *)
MostWrites(t) == IF InnerBoundary(t) THEN 2 ELSE 1

(* total_written counts rows that are in the catalog, not those whose      *)
(* write failed, and one download writes a row twice only on the boundary  *)
(* of two chunks.                                                          *)
WrittenAsCounted ==
  /\ \A i \in DOMAIN results :
       LET r == results[i] IN
       r.as # NoName =>
         r.counts.written <= Cardinality(Copies(catalog[r.as][Series(r.job.timeframe)]))
  /\ calls = 1 /\ queue = <<>> =>
       \A n \in Listed, k \in Kinds, t \in Times :
         catalog[n][Series(k)][t] <= Cardinality(Over(n, Series(k))) * MostWrites(t)

(* A download of a name the broker does not list is reported as failed,    *)
(* unless another casing of the name is loaded: then it succeeds with      *)
(* nothing.                                                                *)
MisspeltIsNoticed ==
  \A i \in DOMAIN results :
    LET r == results[i] IN
    r.job.name \notin Listed /\ r.counts.errors = 0
      => r.as = Upper(r.job.name) /\ r.counts.written = 0

(* Rows of one symbol are never filed, or delivered to a strategy, under   *)
(* the instrument of another: the lookup goes by the upper-cased name, the *)
(* library call by the name as given.                                      *)
FiledUnderOwnName ==
  /\ \A i \in DOMAIN results :
       results[i].counts.written > 0 => results[i].as = results[i].job.name
  /\ answer.rows # {} => answer.filedAs = answer.name

(* Specifications MetaTrader 5 has a timeframe for. *)
Supported == {BarSpec(tf) : tf \in MT5_TIMEFRAMES} \cup {Series(TICKS)}

(* The bars a request gets instead when MetaTrader 5 does not have its own. *)
Defaults == {1} \X {"HOUR", "DAY", "WEEK", "MONTH"} \X {"LAST"}

(* The specification without its price type. *)
AtLast(spec) == <<spec[1], spec[2], "LAST">>

(* Quotes come back as quotes, and bars through the two tables kept in two *)
(* files with the step and the unit that were asked for if MetaTrader 5    *)
(* has them.  They come back as LAST prices also when BID, ASK or MID were *)
(* asked for; what it does not have is answered with one hour, day, week   *)
(* or month.                                                               *)
DeliversAskedBars ==
  /\ answer.asked \in Supported => answer.series = answer.asked
  /\ answer.asked \notin Supported =>
       IF AtLast(answer.asked) \in Supported
         THEN answer.series = AtLast(answer.asked)
         ELSE answer.series \in Defaults

=============================================================================
