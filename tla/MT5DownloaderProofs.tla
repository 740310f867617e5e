------------------------- MODULE MT5DownloaderProofs -------------------------
(***************************************************************************)
(* Proofs about the provider, the downloader and the historical requests:  *)
(* for every set of names, every history and every length of range, what   *)
(* was asked for is accounted for and filed under its own instrument.      *)
(*                                                                         *)
(* The inductive invariant says of the cache that every instrument is the  *)
(* one parsed from its own name, and of the download under way how far it  *)
(* has come and whose rows it writes.                                      *)
(***************************************************************************)
EXTENDS MT5Downloader, FiniteSetTheorems, TLAPS

(* Every cached instrument is the one its name and digits give. *)
CacheTrue == \A n \in Loaded : cache[n] = parse_symbol_info(n, Digits[n])

(* Between downloads nothing is counted yet. *)
Rested == ~fetching => result = NewResult /\ current = 0

(* A download past its preparations files under its own name, or under the *)
(* upper-cased one of a name the broker does not list, and then nothing.   *)
OwnName ==
  fetching =>
    /\ queue # <<>>
    /\ Job.name \in Listed => filedAs = Job.name
    /\ Job.name \notin Listed => filedAs = Upper(Job.name) /\ result.written = 0

(* The rows up to the next chunk are written or counted as lost. *)
Progress ==
  fetching =>
    /\ \A t \in RowsOf(Job.name) \ result.lost :
         t < current \/ (t = current /\ current > 0)
           => catalog[filedAs][Series(Job.timeframe)][t] > 0
    /\ result.lost # {} => result.empty + result.errors > 0

ProviderInv == ProviderTypeOK /\ CacheTrue /\ AskedIsAccounted

DownloadInv ==
  /\ DownloadTypeOK
  /\ CacheTrue
  /\ AskedIsAccounted
  /\ Rested
  /\ OwnName
  /\ Progress
  /\ RowsAccounted
  /\ MisspeltIsNoticed
  /\ FiledUnderOwnName
  /\ DeliversAskedBars

-----------------------------------------------------------------------------
(* Facts about the conversions. *)

(* Upper-casing is done once and for all, and tells listed names apart. *)
LEMMA UpperFacts ==
  /\ \A n \in Names : Upper(n) \in Names /\ Upper(Upper(n)) = Upper(n)
  /\ \A n \in Listed : Upper(n) \in Listed => Upper(n) = n
<1>1. \A n \in Names : Upper(n) \in Names /\ Upper(Upper(n)) = Upper(n)
  BY ProviderAssumption DEF Upper, NameType
<1>2. \A n \in Listed : Upper(n) \in Listed => Upper(n) = n
  BY <1>1, ProviderAssumption, DownloaderAssumption
<1> QED BY <1>1, <1>2

(* There and back: the timeframe asked for a supported specification       *)
(* yields bars of that specification.                                      *)
LEMMA TimeframesAgree ==
  ASSUME NEW tf \in MT5_TIMEFRAMES
  PROVE  BarSpec(bar_spec_to_mt5_timeframe(BarSpec(tf))) = BarSpec(tf)
<1>1. CASE tf \in MinuteSteps
  BY <1>1 DEF BarSpec, bar_spec_to_mt5_timeframe, MinuteSteps
<1>2. CASE tf - 16384 \in HourSteps
  <2>1. tf \in Int /\ tf \notin MinuteSteps
    BY <1>2 DEF MT5_TIMEFRAMES, MinuteSteps, HourSteps, DAY_1, WEEK_1, MONTH_1
  <2>2. BarSpec(tf) = <<tf - 16384, "HOUR", "LAST">>
    BY <1>2, <2>1 DEF BarSpec
  <2>3. bar_spec_to_mt5_timeframe(BarSpec(tf)) = tf
    BY <1>2, <2>1, <2>2 DEF bar_spec_to_mt5_timeframe
  <2> QED BY <2>3
<1>3. CASE tf \in {DAY_1, WEEK_1, MONTH_1}
  BY <1>3 DEF BarSpec, bar_spec_to_mt5_timeframe, MinuteSteps, HourSteps,
              DAY_1, WEEK_1, MONTH_1
<1>4. tf \in MinuteSteps \/ tf - 16384 \in HourSteps
        \/ tf \in {DAY_1, WEEK_1, MONTH_1}
  BY DEF MT5_TIMEFRAMES, HourSteps
<1> QED BY <1>1, <1>2, <1>3, <1>4

(* The price type plays no part in which timeframe is asked for. *)
LEMMA PriceTypeIgnored ==
  ASSUME NEW step \in Nat, NEW unit, NEW price
  PROVE  bar_spec_to_mt5_timeframe(<<step, unit, price>>)
           = bar_spec_to_mt5_timeframe(AtLast(<<step, unit, price>>))
BY DEF bar_spec_to_mt5_timeframe, AtLast

(* What a request is answered with, for every specification. *)
LEMMA DeliveredFacts ==
  ASSUME NEW asked \in Specs \cup {Series(TICKS)}
  PROVE  /\ asked \in Supported => Delivered(asked) = asked
         /\ asked \notin Supported =>
              IF AtLast(asked) \in Supported THEN Delivered(asked) = AtLast(asked)
                                             ELSE Delivered(asked) \in Defaults
<1>1. ASSUME asked \in Supported
      PROVE  Delivered(asked) = asked
  BY <1>1, TimeframesAgree DEF Supported, Delivered
<1>2. ASSUME asked \notin Supported
      PROVE  IF AtLast(asked) \in Supported THEN Delivered(asked) = AtLast(asked)
                                            ELSE Delivered(asked) \in Defaults
  <2>1. asked # Series(TICKS) /\ asked \in Specs
    BY <1>2 DEF Supported
  <2>2. PICK step \in Nat,
             unit \in {"SECOND", "MINUTE", "HOUR", "DAY", "WEEK", "MONTH"},
             price \in {"BID", "ASK", "MID", "LAST"} :
          asked = <<step, unit, price>>
    BY <2>1, DownloaderAssumption
  <2>3. AtLast(asked) = <<step, unit, "LAST">>
    BY <2>2 DEF AtLast
  <2>4. Delivered(asked) = BarSpec(bar_spec_to_mt5_timeframe(AtLast(asked)))
    BY <2>1, <2>2, PriceTypeIgnored DEF Delivered
  <2>5. CASE AtLast(asked) \in Supported
    <3>1. AtLast(asked) # Series(TICKS)
      BY <2>3 DEF Series, TICKS
    <3>2. PICK tf \in MT5_TIMEFRAMES : AtLast(asked) = BarSpec(tf)
      BY <2>5, <3>1 DEF Supported
    <3> QED BY <2>4, <2>5, <3>2, TimeframesAgree
  <2>6. CASE AtLast(asked) \notin Supported
    <3>1. ~(unit = "MINUTE" /\ step \in MinuteSteps)
      BY <2>3, <2>6 DEF Supported, MT5_TIMEFRAMES, BarSpec
    <3>2. ~(unit = "HOUR" /\ step \in HourSteps)
      <4> SUFFICES ASSUME unit = "HOUR", step \in HourSteps PROVE FALSE
        OBVIOUS
      <4>1. 16384 + step \in MT5_TIMEFRAMES
        BY DEF MT5_TIMEFRAMES
      <4>2. 16384 + step \notin MinuteSteps /\ (16384 + step) - 16384 = step
        BY <2>2 DEF MinuteSteps, HourSteps
      <4>3. BarSpec(16384 + step) = AtLast(asked)
        BY <2>3, <4>2 DEF BarSpec
      <4> QED BY <2>6, <4>1, <4>3 DEF Supported
    <3>3. bar_spec_to_mt5_timeframe(AtLast(asked)) \in {HOUR_1, DAY_1, WEEK_1, MONTH_1}
      BY <2>2, <2>3, <3>1, <3>2 DEF bar_spec_to_mt5_timeframe
    <3>4. BarSpec(bar_spec_to_mt5_timeframe(AtLast(asked))) \in Defaults
      BY <3>3 DEF BarSpec, HOUR_1, DAY_1, WEEK_1, MONTH_1, MinuteSteps, HourSteps, Defaults
    <3> QED BY <2>4, <2>6, <3>4
  <2> QED BY <2>5, <2>6
<1> QED BY <1>1, <1>2

(* A lookup that hits finds the instrument of the upper-cased name. *)
LEMMA NamesOnlyUpper ==
  ASSUME CacheTrue, ProviderTypeOK, NEW n \in Names, Found(n)
  PROVE  /\ InstrumentOf(n).id = Upper(n)
         /\ Upper(n) \in Listed
         /\ n \in Listed => Upper(n) = n
<1>1. Upper(n) \in Loaded /\ Upper(n) \in Listed
  BY DEF Found, Lookup, ProviderTypeOK
<1>2. InstrumentOf(n).id = Upper(n)
  <2>1. cache[Upper(n)] = parse_symbol_info(Upper(n), Digits[Upper(n)])
    BY <1>1 DEF CacheTrue
  <2>2. parse_symbol_info(Upper(n), Digits[Upper(n)]).id = Upper(n)
    BY DEF parse_symbol_info
  <2> QED BY <2>1, <2>2 DEF InstrumentOf, Lookup
<1> QED BY <1>1, <1>2, UpperFacts

-----------------------------------------------------------------------------
(* The provider. *)

(* Registering listed names keeps the cache true and forgets nothing. *)
LEMMA Registering ==
  ASSUME CacheTrue, Loaded \subseteq Listed,
         NEW added \in SUBSET Listed, cache' = WithAdded(added)
  PROVE  /\ Loaded' = Loaded \cup added
         /\ Loaded' \subseteq Listed
         /\ CacheTrue'
<1>1. Loaded' = Loaded \cup added
  BY DEF WithAdded, Loaded
<1>2. \A n \in Loaded' : cache'[n] = parse_symbol_info(n, Digits[n])
  <2> SUFFICES ASSUME NEW n \in Loaded'
               PROVE  cache'[n] = parse_symbol_info(n, Digits[n])
    OBVIOUS
  <2>1. cache'[n] = IF n \in added THEN parse_symbol_info(n, Digits[n]) ELSE cache[n]
    BY <1>1 DEF WithAdded
  <2> QED BY <1>1, <2>1 DEF CacheTrue
<1> QED BY <1>1, <1>2 DEF CacheTrue

(* Loading more, without a full load, loses no name asked for. *)
LEMMA LoadingMore ==
  ASSUME ProviderInv, NEW added \in SUBSET Listed,
         cache' = WithAdded(added), UNCHANGED <<failed, wanted>>, link' \in BOOLEAN
  PROVE  ProviderInv'
<1>1. /\ Loaded' = Loaded \cup added
      /\ Loaded' \subseteq Listed
      /\ CacheTrue'
  BY Registering DEF ProviderInv, ProviderTypeOK
<1>2. ProviderTypeOK'
  BY <1>1 DEF ProviderInv, ProviderTypeOK
<1>3. AskedIsAccounted'
  BY <1>1 DEF ProviderInv, AskedIsAccounted
<1> QED BY <1>1, <1>2, <1>3 DEF ProviderInv

(* A full load deals with every name it selects. *)
LEMMA FullLoad ==
  ASSUME ProviderInv, NEW selection \in SUBSET Listed, NEW filter \in SUBSET Names,
         LoadAll(selection, filter),
         \A n \in filter \cap Listed : Upper(n) = n => n \in selection
  PROVE  ProviderInv'
<1>1. PICK answers \in [selection -> InfoType] :
        /\ failed' = Recorded(selection, answers)
        /\ cache' = WithAdded({n \in selection : Parses(n, answers[n])})
  BY DEF LoadAll
<1>2. wanted' = filter /\ link' = link
  BY DEF LoadAll
<1> DEFINE added == {n \in selection : Parses(n, answers[n])}
<1>3. added \in SUBSET Listed
  OBVIOUS
<1>4. /\ Loaded' = Loaded \cup added
      /\ Loaded' \subseteq Listed
      /\ CacheTrue'
  <2> HIDE DEF added
  <2>1. cache' = WithAdded(added)
    BY <1>1 DEF added
  <2> QED BY <1>3, <2>1, Registering DEF ProviderInv, ProviderTypeOK
<1>5. failed' = selection \ added
  BY <1>1 DEF Recorded
<1>6. ProviderTypeOK'
  BY <1>2, <1>4, <1>5 DEF ProviderInv, ProviderTypeOK
<1>7. AskedIsAccounted'
  BY <1>2, <1>4, <1>5 DEF AskedIsAccounted
<1> QED BY <1>4, <1>6, <1>7 DEF ProviderInv

(* A full load that ends early promises nothing. *)
LEMMA EarlyEnd ==
  ASSUME ProviderInv, NEW selection \in SUBSET Listed, LoadAllRaises(selection)
  PROVE  ProviderInv'
<1>1. PICK done \in SUBSET selection : \E answers \in [done -> InfoType] :
        /\ failed' = Recorded(done, answers)
        /\ cache' = WithAdded({n \in done : Parses(n, answers[n])})
  BY DEF LoadAllRaises
<1>2. PICK answers \in [done -> InfoType] :
        /\ failed' = Recorded(done, answers)
        /\ cache' = WithAdded({n \in done : Parses(n, answers[n])})
  BY <1>1
<1>3. wanted' = {} /\ link' = link
  BY DEF LoadAllRaises
<1> DEFINE added == {n \in done : Parses(n, answers[n])}
<1>4. added \in SUBSET Listed
  OBVIOUS
<1>5. /\ Loaded' \subseteq Listed
      /\ CacheTrue'
  <2> HIDE DEF added
  <2>1. cache' = WithAdded(added)
    BY <1>2 DEF added
  <2> QED BY <1>4, <2>1, Registering DEF ProviderInv, ProviderTypeOK
<1>6. ProviderTypeOK'
  BY <1>2, <1>3, <1>5 DEF ProviderInv, ProviderTypeOK, Recorded
<1>7. AskedIsAccounted'
  BY <1>3 DEF AskedIsAccounted
<1> QED BY <1>5, <1>6, <1>7 DEF ProviderInv

LEMMA ProviderStepKeeps ==
  ASSUME ProviderInv, ProviderStep
  PROVE  ProviderInv'
<1>1. CASE LinkChanges
  <2>1. link' \in BOOLEAN /\ cache' = cache /\ failed' = failed /\ wanted' = wanted
    BY <1>1 DEF LinkChanges, ProviderInv, ProviderTypeOK
  <2> QED BY <2>1 DEF ProviderInv, ProviderTypeOK, CacheTrue, AskedIsAccounted, Loaded
<1>2. CASE LoadAll(Listed, {})
  BY <1>2, FullLoad
<1>3. CASE LoadAllRaises(Listed)
  BY <1>3, EarlyEnd
<1>4. ASSUME NEW filter \in Filters, LoadAll(Selected(filter), filter)
      PROVE  ProviderInv'
  <2>1. filter \in SUBSET Names /\ Selected(filter) \in SUBSET Listed
    BY ProviderAssumption DEF Selected
  <2>2. \A n \in filter \cap Listed : Upper(n) = n => n \in Selected(filter)
    BY DEF Selected
  <2> QED BY <1>4, <2>1, <2>2, FullLoad
<1>5. ASSUME NEW filter \in Filters, LoadAllRaises(Selected(filter))
      PROVE  ProviderInv'
  <2>1. Selected(filter) \in SUBSET Listed
    BY DEF Selected
  <2> QED BY <1>5, <2>1, EarlyEnd
<1>6. ASSUME NEW a \in Names, NEW b \in Names, LoadIds(<<a, b>>)
      PROVE  ProviderInv'
  <2>1. PICK upto \in 0..Len(<<a, b>>) :
          /\ {<<a, b>>[i] : i \in 1..upto} \subseteq Listed
          /\ cache' = WithAdded({<<a, b>>[i] : i \in 1..upto})
    BY <1>6 DEF LoadIds
  <2>2. link' \in BOOLEAN /\ UNCHANGED <<failed, wanted>>
    BY <1>6 DEF LoadIds, ProviderInv, ProviderTypeOK
  <2> QED BY <2>1, <2>2, LoadingMore
<1> QED BY <1>1, <1>2, <1>3, <1>4, <1>5, <1>6 DEF ProviderStep

-----------------------------------------------------------------------------
(* The downloads. *)

OutcomeType == [job : JobType, as : Listed \cup {NoName}, counts : ResultType]

(* What a list of results holds after one more was appended. *)
LEMMA AppendedElements ==
  ASSUME NEW S, NEW s \in Seq(S), NEW x \in S
  PROVE  \A i \in DOMAIN Append(s, x) :
           Append(s, x)[i] = x \/ \E j \in DOMAIN s : Append(s, x)[i] = s[j]
OBVIOUS

(* Every index of a queue falls on a name and on a kind. *)
LEMMA IndexFalls ==
  ASSUME NEW a \in Nat, NEW b \in Nat, NEW k \in {0, 1, 2, 3}, a < b * k
  PROVE  a \div k \in 0..(b - 1) /\ a % k \in 0..(k - 1)
<1>1. CASE k = 0
  BY <1>1
<1>2. CASE k = 1
  BY <1>2
<1>3. CASE k = 2
  BY <1>3
<1>4. CASE k = 3
  BY <1>4
<1> QED BY <1>1, <1>2, <1>3, <1>4

LEMMA KindsType ==
  ASSUME NEW kinds \in KindsAsked
  PROVE  kinds \in Seq(Kinds) /\ Len(kinds) \in {0, 1, 2, 3}
<1>1. PICK ticks \in BOOLEAN, bars \in BOOLEAN, tfs \in {<<>>, <<HOUR_1>>} :
        kinds = KindsOf(ticks, bars, tfs)
  BY DEF KindsAsked
<1> DEFINE first == IF ticks THEN <<TICKS>> ELSE <<>>
           second == IF ~bars THEN <<>>
                     ELSE IF tfs = <<>> THEN <<HOUR_1, DAY_1>> ELSE tfs
<1>2. <<>> \in Seq(Kinds) /\ Len(<<>>) = 0
  OBVIOUS
<1>3. ASSUME NEW k \in Kinds
      PROVE  <<k>> \in Seq(Kinds) /\ Len(<<k>>) = 1
  OBVIOUS
<1>4. ASSUME NEW k \in Kinds, NEW l \in Kinds
      PROVE  <<k, l>> \in Seq(Kinds) /\ Len(<<k, l>>) = 2
  OBVIOUS
<1>5. TICKS \in Kinds /\ HOUR_1 \in Kinds /\ DAY_1 \in Kinds
  BY DEF Kinds
<1>6. first \in Seq(Kinds) /\ Len(first) \in {0, 1}
  BY <1>2, <1>3, <1>5
<1>7. second \in Seq(Kinds) /\ Len(second) \in {0, 1, 2}
  BY <1>2, <1>3, <1>4, <1>5
<1>8. kinds = first \o second
  BY <1>1 DEF KindsOf
<1> HIDE DEF first, second
<1> QED BY <1>6, <1>7, <1>8

LEMMA QueueType ==
  ASSUME NEW names \in NamesAsked, NEW kinds \in KindsAsked
  PROVE  Queue(names, kinds) \in Seq(JobType)
<1>1. names \in Seq(Names)
  BY DownloaderAssumption
<1>2. kinds \in Seq(Kinds) /\ Len(kinds) \in {0, 1, 2, 3}
  BY KindsType
<1> DEFINE jobs == Len(names) * Len(kinds)
<1>3. jobs \in Nat
  BY <1>1, <1>2
<1>4. ASSUME NEW i \in 1..jobs
      PROVE  [name |-> names[((i - 1) \div Len(kinds)) + 1],
              timeframe |-> kinds[((i - 1) % Len(kinds)) + 1]] \in JobType
  <2>1. (i - 1) \div Len(kinds) \in 0..(Len(names) - 1)
        /\ (i - 1) % Len(kinds) \in 0..(Len(kinds) - 1)
    <3>1. i - 1 \in Nat /\ i - 1 < jobs /\ Len(names) \in Nat
      BY <1>1, <1>3
    <3>2. i - 1 < Len(names) * Len(kinds)
      BY <3>1
    <3> QED BY <1>2, <3>1, <3>2, IndexFalls
  <2>2. ((i - 1) \div Len(kinds)) + 1 \in 1..Len(names)
    BY <1>1, <2>1
  <2>3. ((i - 1) % Len(kinds)) + 1 \in 1..Len(kinds)
    BY <1>2, <2>1
  <2>4. names[((i - 1) \div Len(kinds)) + 1] \in Names
    BY <1>1, <2>2
  <2>5. kinds[((i - 1) % Len(kinds)) + 1] \in Kinds
    BY <1>2, <2>3
  <2> QED BY <2>4, <2>5 DEF JobType
<1>5. Queue(names, kinds) \in [1..jobs -> JobType]
  BY <1>4 DEF Queue
<1> QED BY <1>3, <1>5

(* The range is finite ... *)
LEMMA TimesFinite == IsFiniteSet(Times)
<1>1. 0 \in Int /\ End \in Int
  BY DownloaderAssumption
<1> QED BY <1>1, FS_Interval DEF Times

(* ... and so is a chunk. *)
LEMMA ChunkFacts ==
  ASSUME DownloadTypeOK, queue # <<>>
  PROVE  /\ Job \in JobType
         /\ ChunkRows \subseteq Times
         /\ Cardinality(ChunkRows) \in Nat
         /\ ChunkRows # {} => Job.name \in Listed
         /\ RowsOf(Job.name) \subseteq Times
<1>1. Job \in JobType
  BY DEF DownloadTypeOK, Job
<1>2. RowsOf(Job.name) \subseteq Times /\ (RowsOf(Job.name) # {} => Job.name \in Listed)
  BY DownloaderAssumption DEF RowsOf
<1>3. ChunkRows \subseteq RowsOf(Job.name)
  BY DEF ChunkRows
<1>4. IsFiniteSet(ChunkRows)
  BY <1>2, <1>3, TimesFinite, FS_Subset
<1>5. Cardinality(ChunkRows) \in Nat
  BY <1>4, FS_CardinalityType
<1> QED BY <1>1, <1>2, <1>3, <1>5

(* What one result must satisfy, given the catalog and whose rows it is. *)
Sound(o) ==
  /\ o.as # NoName =>
       /\ \A t \in RowsOf(o.job.name) \ o.counts.lost :
            catalog[o.as][Series(o.job.timeframe)][t] > 0
       /\ o.counts.lost # {} => o.counts.empty + o.counts.errors > 0
  /\ o.job.name \notin Listed /\ o.counts.errors = 0
       => o.as = Upper(o.job.name) /\ o.counts.written = 0
  /\ o.counts.written > 0 => o.as = o.job.name

AnswerOwn == answer.rows # {} => answer.filedAs = answer.name

(* The properties of the results are those of each result. *)
LEMMA ResultByResult ==
  RowsAccounted /\ MisspeltIsNoticed /\ FiledUnderOwnName
    <=> (\A i \in DOMAIN results : Sound(results[i])) /\ AnswerOwn
BY DEF RowsAccounted, MisspeltIsNoticed, FiledUnderOwnName, Sound, AnswerOwn

(* The invariant in the shape the proofs of the actions need. *)
LEMMA InvParts ==
  DownloadInv <=>
    /\ DownloadTypeOK
    /\ ProviderInv
    /\ Rested
    /\ OwnName
    /\ Progress
    /\ \A i \in DOMAIN results : Sound(results[i])
    /\ AnswerOwn
    /\ DeliversAskedBars
BY ResultByResult DEF DownloadInv, ProviderInv, DownloadTypeOK

(* A step that leaves the jobs alone and keeps the provider right. *)
LEMMA JobsUntouched ==
  ASSUME DownloadInv, ProviderInv', UNCHANGED jobVars,
         AnswerOwn', DeliversAskedBars'
  PROVE  DownloadInv'
<1>1. DownloadTypeOK'
  BY DEF DownloadInv, DownloadTypeOK, ProviderInv, jobVars
<1>2. Rested' /\ OwnName' /\ Progress'
  BY DEF DownloadInv, Rested, OwnName, Progress, jobVars, Job
<1>3. (\A i \in DOMAIN results : Sound(results[i]))'
  BY InvParts DEF Sound, jobVars
<1> QED BY <1>1, <1>2, <1>3, InvParts, PTL

LEMMA DownloadAllKeeps ==
  ASSUME DownloadInv, NEW names \in NamesAsked, NEW kinds \in KindsAsked,
         DownloadAll(names, kinds), UNCHANGED answer
  PROVE  DownloadInv'
<1>1. /\ calls < MaxCalls /\ calls' = calls + 1
      /\ queue' = Queue(names, kinds) /\ queue = <<>>
      /\ results' = <<>> /\ wanted' = {}
      /\ UNCHANGED <<link, cache, failed, fetching, filedAs, current, result, catalog>>
  BY DEF DownloadAll
<1>2. ProviderInv'
  BY <1>1, InvParts
  DEF ProviderInv, ProviderTypeOK, CacheTrue, AskedIsAccounted, Loaded
<1>3. DownloadTypeOK'
  <2>1. calls' \in 0..MaxCalls
    BY <1>1, DownloaderAssumption DEF DownloadInv, DownloadTypeOK
  <2>2. queue' \in Seq(JobType)
    BY <1>1, QueueType
  <2>3. results' \in Seq([job : JobType, as : Listed \cup {NoName},
                          counts : ResultType])
    BY <1>1
  <2>4. /\ fetching' \in BOOLEAN
        /\ filedAs' \in IF fetching' THEN Listed ELSE {NoName}
        /\ current' \in Times /\ result' \in ResultType
        /\ catalog' \in [Listed -> [{Series(k) : k \in Kinds} -> [Times -> Nat]]]
    BY <1>1 DEF DownloadInv, DownloadTypeOK
  <2> QED BY <1>2, <2>1, <2>2, <2>3, <2>4 DEF DownloadTypeOK, ProviderInv
<1>4. ~fetching
  BY <1>1 DEF DownloadInv, OwnName
<1>5. Rested' /\ OwnName' /\ Progress'
  BY <1>1, <1>4 DEF DownloadInv, Rested, OwnName, Progress
<1>6. (\A i \in DOMAIN results : Sound(results[i]))'
  BY <1>1
<1>7. AnswerOwn' /\ DeliversAskedBars'
  BY InvParts DEF AnswerOwn, DeliversAskedBars
<1> QED BY <1>2, <1>3, <1>5, <1>6, <1>7, InvParts, PTL

LEMMA StartRaisesKeeps ==
  ASSUME DownloadInv, StartRaises, UNCHANGED answer
  PROVE  DownloadInv'
<1>1. /\ ~fetching /\ queue' = <<>> /\ results' = <<>>
      /\ UNCHANGED <<providerVars, calls, fetching, filedAs, current, result, catalog>>
  BY DEF StartRaises
<1>2. ProviderInv'
  BY <1>1, InvParts
  DEF ProviderInv, ProviderTypeOK, CacheTrue, AskedIsAccounted, Loaded, providerVars
<1>3. DownloadTypeOK'
  <2>1. queue' \in Seq(JobType)
    BY <1>1
  <2>2. results' \in Seq([job : JobType, as : Listed \cup {NoName},
                          counts : ResultType])
    BY <1>1
  <2>3. /\ calls' \in 0..MaxCalls /\ fetching' \in BOOLEAN
        /\ filedAs' \in IF fetching' THEN Listed ELSE {NoName}
        /\ current' \in Times /\ result' \in ResultType
        /\ catalog' \in [Listed -> [{Series(k) : k \in Kinds} -> [Times -> Nat]]]
    BY <1>1 DEF DownloadInv, DownloadTypeOK
  <2> QED BY <1>2, <2>1, <2>2, <2>3 DEF DownloadTypeOK, ProviderInv
<1>4. Rested' /\ OwnName' /\ Progress'
  BY <1>1 DEF DownloadInv, Rested, OwnName, Progress
<1>5. (\A i \in DOMAIN results : Sound(results[i]))'
  BY <1>1
<1>6. AnswerOwn' /\ DeliversAskedBars'
  BY InvParts DEF AnswerOwn, DeliversAskedBars
<1> QED BY <1>2, <1>3, <1>4, <1>5, <1>6, InvParts, PTL

LEMMA StartKeeps ==
  ASSUME DownloadInv, Start, UNCHANGED answer
  PROVE  DownloadInv'
<1>1. /\ queue # <<>> /\ ~fetching /\ fetching' = TRUE
      /\ UNCHANGED <<link, failed, wanted, calls, queue, current, result, results,
                     catalog>>
  BY DEF Start
<1>2. Job \in JobType /\ Job.name \in Names
  BY <1>1, ChunkFacts DEF DownloadInv, JobType
<1>3. result = NewResult /\ current = 0
  BY <1>1 DEF DownloadInv, Rested
<1>4. ProviderInv' /\ filedAs' \in Listed
      /\ (Job.name \in Listed => filedAs' = Job.name)
      /\ (Job.name \notin Listed => filedAs' = Upper(Job.name))
  <2>1. CASE Found(Job.name) /\ filedAs' = InstrumentOf(Job.name).id /\ UNCHANGED cache
    <3>1. ProviderInv'
      BY <1>1, <2>1, InvParts
      DEF ProviderInv, ProviderTypeOK, CacheTrue, AskedIsAccounted, Loaded
    <3> QED BY <1>2, <2>1, <3>1, NamesOnlyUpper DEF DownloadInv, DownloadTypeOK
  <2>2. CASE ~Found(Job.name) /\ LoadSymbol(Job.name) /\ filedAs' = Job.name
    <3>1. Job.name \in Listed /\ cache' = WithAdded({Job.name})
      BY <2>2 DEF LoadSymbol
    <3>2. link' \in BOOLEAN
      BY <1>1 DEF DownloadInv, DownloadTypeOK, ProviderTypeOK
    <3>3. ProviderInv'
      BY <1>1, <3>1, <3>2, InvParts, LoadingMore
    <3> QED BY <2>2, <3>1, <3>3
  <2> QED BY <2>1, <2>2 DEF Start
<1>5. DownloadTypeOK'
  BY <1>1, <1>4 DEF DownloadInv, DownloadTypeOK, ProviderInv
<1>6. Rested'
  BY <1>1 DEF Rested
<1>7. OwnName'
  BY <1>1, <1>3, <1>4 DEF OwnName, Job, NewResult
<1>8. Progress'
  <2>1. current' = 0 /\ result'.lost = {} /\ Job' = Job
    BY <1>1, <1>3 DEF NewResult, Job
  <2>2. \A t \in RowsOf(Job.name) : t \in Nat
    BY <1>1, ChunkFacts, DownloaderAssumption DEF DownloadInv, Times
  <2>3. \A t \in RowsOf(Job.name) : ~(t < 0) /\ ~(t = 0 /\ 0 > 0)
    BY <2>2
  <2> QED BY <2>1, <2>3 DEF Progress
<1>9. (\A i \in DOMAIN results : Sound(results[i]))'
  BY <1>1, InvParts DEF Sound
<1>10. AnswerOwn' /\ DeliversAskedBars'
  BY InvParts DEF AnswerOwn, DeliversAskedBars
<1> QED BY <1>4, <1>5, <1>6, <1>7, <1>8, <1>9, <1>10, InvParts, PTL

(* The end of a download: its outcome joins the results. *)
LEMMA EndingKeeps ==
  ASSUME DownloadInv, queue # <<>>, NEW r \in ResultType, Done(r),
         UNCHANGED <<providerVars, calls, catalog, answer>>,
         Sound([job |-> Job, as |-> filedAs, counts |-> r])
  PROVE  DownloadInv'
<1> DEFINE o == [job |-> Job, as |-> filedAs, counts |-> r]
<1>1. /\ queue' = Tail(queue) /\ ~fetching' /\ fetching' \in BOOLEAN
      /\ filedAs' = NoName /\ current' = 0
      /\ result' = NewResult /\ results' = Append(results, o)
  BY DEF Done
<1>2. o \in OutcomeType /\ results \in Seq(OutcomeType)
  BY ChunkFacts DEF DownloadInv, DownloadTypeOK, OutcomeType
<1>3. ProviderInv'
  BY InvParts
  DEF ProviderInv, ProviderTypeOK, CacheTrue, AskedIsAccounted, Loaded, providerVars
<1>4. DownloadTypeOK'
  <2>1. results' \in Seq(OutcomeType)
    <3> HIDE DEF o
    <3> QED BY <1>1, <1>2
  <2>2. queue' \in Seq(JobType)
    BY <1>1 DEF DownloadInv, DownloadTypeOK
  <2>3. NewResult \in ResultType
    BY DEF NewResult, ResultType
  <2>4. current' \in Times
    BY <1>1, DownloaderAssumption DEF Times
  <2>5. /\ calls' \in 0..MaxCalls
        /\ catalog' \in [Listed -> [{Series(k) : k \in Kinds} -> [Times -> Nat]]]
    BY DEF DownloadInv, DownloadTypeOK
  <2> QED BY <1>1, <1>3, <2>1, <2>2, <2>3, <2>4, <2>5
          DEF DownloadTypeOK, ProviderInv, OutcomeType
<1>5. Rested' /\ OwnName' /\ Progress'
  BY <1>1 DEF Rested, OwnName, Progress
<1>6. (\A i \in DOMAIN results : Sound(results[i]))'
  <2> HIDE DEF o
  <2>1. \A i \in DOMAIN results' :
          results'[i] = o \/ \E j \in DOMAIN results : results'[i] = results[j]
    BY <1>1, <1>2, AppendedElements
  <2>2. Sound(o) /\ \A j \in DOMAIN results : Sound(results[j])
    BY InvParts DEF o
  <2>3. \A i \in DOMAIN results' : Sound(results'[i])
    BY <2>1, <2>2
  <2>4. catalog' = catalog
    OBVIOUS
  <2> QED BY <2>3, <2>4 DEF Sound
<1>7. AnswerOwn' /\ DeliversAskedBars'
  BY InvParts DEF AnswerOwn, DeliversAskedBars
<1> QED BY <1>3, <1>4, <1>5, <1>6, <1>7, InvParts, PTL

LEMMA StartFailsKeeps ==
  ASSUME DownloadInv, StartFails, UNCHANGED answer
  PROVE  DownloadInv'
<1> DEFINE r == [result EXCEPT !.errors = 1]
<1>1. queue # <<>> /\ ~fetching /\ Done(r)
      /\ UNCHANGED <<providerVars, calls, catalog>>
  BY DEF StartFails, LoadSymbolRaises, providerVars
<1>2. result = NewResult /\ filedAs = NoName
  BY <1>1 DEF DownloadInv, Rested, DownloadTypeOK
<1>3. r \in ResultType /\ r.errors = 1 /\ r.written = 0
  BY <1>2 DEF NewResult, ResultType
<1> HIDE DEF r
<1>4. Sound([job |-> Job, as |-> filedAs, counts |-> r])
  <2>1. ~(r.errors = 0) /\ ~(r.written > 0)
    BY <1>3
  <2> QED BY <1>2, <2>1 DEF Sound
<1> QED BY <1>1, <1>3, <1>4, EndingKeeps

LEMMA FinishKeeps ==
  ASSUME DownloadInv, Finish, UNCHANGED answer
  PROVE  DownloadInv'
<1>1. fetching /\ current >= End /\ Done(result)
      /\ UNCHANGED <<providerVars, calls, catalog>>
  BY DEF Finish
<1>2. queue # <<>> /\ result \in ResultType
  BY <1>1 DEF DownloadInv, OwnName, DownloadTypeOK
<1>3. current = End /\ End > 0 /\ End \in Nat
  BY <1>1, DownloaderAssumption DEF DownloadInv, DownloadTypeOK, Times
<1>4. \A t \in RowsOf(Job.name) \ result.lost :
        catalog[filedAs][Series(Job.timeframe)][t] > 0
  <2>1. \A t \in RowsOf(Job.name) : t \in Times
    BY <1>2, ChunkFacts DEF DownloadInv
  <2>2. \A t \in Times : t < current \/ (t = current /\ current > 0)
    BY <1>3 DEF Times
  <2> QED BY <1>1, <2>1, <2>2 DEF DownloadInv, Progress
<1>5. result.lost # {} => result.empty + result.errors > 0
  BY <1>1 DEF DownloadInv, Progress
<1>6. /\ Job.name \in Listed => filedAs = Job.name
      /\ Job.name \notin Listed => filedAs = Upper(Job.name) /\ result.written = 0
  BY <1>1 DEF DownloadInv, OwnName
<1>7. Sound([job |-> Job, as |-> filedAs, counts |-> result])
  BY <1>4, <1>5, <1>6 DEF Sound
<1> QED BY <1>1, <1>2, <1>7, EndingKeeps

(* One more chunk: what is true of it whatever became of it. *)
LEMMA FetchChunkKeeps ==
  ASSUME DownloadInv, FetchChunk, UNCHANGED answer
  PROVE  DownloadInv'
<1>1. /\ fetching /\ fetching' = fetching /\ current < End
      /\ ChunkEmpty \/ ChunkFails \/ ChunkWritten
      /\ current' = ChunkEnd(current)
      /\ UNCHANGED <<providerVars, calls, queue, fetching, filedAs, results>>
  BY DEF FetchChunk
<1>2. queue # <<>> /\ filedAs \in Listed /\ result \in ResultType
  BY <1>1 DEF DownloadInv, OwnName, DownloadTypeOK
<1>3. /\ Job \in JobType /\ Job' = Job
      /\ ChunkRows \subseteq Times /\ Cardinality(ChunkRows) \in Nat
      /\ ChunkRows # {} => Job.name \in Listed
      /\ RowsOf(Job.name) \subseteq Times
  BY <1>1, <1>2, ChunkFacts DEF DownloadInv, Job
<1> DEFINE s == Series(Job.timeframe)
           AllSeries == {Series(k) : k \in Kinds}
<1>4. s \in AllSeries
  BY <1>3 DEF JobType
<1>5. catalog \in [Listed -> [AllSeries -> [Times -> Nat]]]
  BY DEF DownloadInv, DownloadTypeOK
<1>6. current \in Nat /\ current' \in Times /\ current' \in Nat /\ current < current'
      /\ current' > 0
  BY <1>1, DownloaderAssumption DEF DownloadInv, DownloadTypeOK, Times, ChunkEnd
<1>7. /\ result' \in ResultType
      /\ result'.lost = result.lost \/ result'.lost = result.lost \cup ChunkRows
      /\ result'.empty + result'.errors >= result.empty + result.errors
      /\ result'.lost # result.lost => result'.empty + result'.errors > 0
      /\ result'.written # result.written => ChunkRows # {}
  <2>1. /\ result.processed \in Nat /\ result.empty \in Nat /\ result.errors \in Nat
        /\ result.written \in Nat /\ result.lost \in SUBSET Times
    BY <1>2 DEF ResultType
  <2>2. CASE ChunkEmpty
    <3>1. result' = [processed |-> result.processed + 1, empty |-> result.empty + 1,
                     errors |-> result.errors, written |-> result.written,
                     lost |-> result.lost \cup ChunkRows]
      BY <1>2, <2>2 DEF ChunkEmpty, ResultType
    <3> QED BY <1>3, <2>1, <3>1 DEF ResultType
  <2>3. CASE ChunkFails
    <3>1. result' = [processed |-> result.processed + 1, empty |-> result.empty,
                     errors |-> result.errors + 1, written |-> result.written,
                     lost |-> result.lost \cup ChunkRows]
      BY <1>2, <2>3 DEF ChunkFails, ResultType
    <3> QED BY <1>3, <2>1, <3>1 DEF ResultType
  <2>4. CASE ChunkWritten
    <3>1. result' = [processed |-> result.processed + 1, empty |-> result.empty,
                     errors |-> result.errors,
                     written |-> result.written + Cardinality(ChunkRows),
                     lost |-> result.lost]
      BY <1>2, <2>4 DEF ChunkWritten, ResultType
    <3> QED BY <1>3, <2>1, <2>4, <3>1 DEF ChunkWritten, ResultType
  <2> QED BY <1>1, <2>2, <2>3, <2>4
<1>8. /\ catalog' \in [Listed -> [AllSeries -> [Times -> Nat]]]
      /\ \A n \in Listed, u \in AllSeries, t \in Times :
           catalog'[n][u][t] >= catalog[n][u][t]
      /\ \A t \in ChunkRows \ result'.lost : catalog'[filedAs][s][t] > 0
  <2> HIDE DEF s, AllSeries
  <2>1. CASE catalog' = catalog /\ ChunkRows \subseteq result'.lost
    BY <1>5, <2>1
  <2>2. CASE ChunkWritten
    <3> DEFINE row == [t \in Times |-> IF t \in ChunkRows THEN catalog[filedAs][s][t] + 1
                                        ELSE catalog[filedAs][s][t]]
    <3>1. catalog[filedAs] \in [AllSeries -> [Times -> Nat]]
          /\ catalog[filedAs][s] \in [Times -> Nat]
      BY <1>2, <1>4, <1>5
    <3>2. row \in [Times -> Nat] /\ \A t \in Times : row[t] >= catalog[filedAs][s][t]
      BY <3>1
    <3>3. \A t \in ChunkRows : row[t] > 0
      BY <1>3, <3>1
    <3> HIDE DEF row
    <3>4. catalog' = [catalog EXCEPT ![filedAs][s] = row]
      BY <2>2 DEF ChunkWritten, row, s
    <3>5. catalog' = [catalog EXCEPT ![filedAs] = [catalog[filedAs] EXCEPT ![s] = row]]
      BY <3>4
    <3>6. [catalog[filedAs] EXCEPT ![s] = row] \in [AllSeries -> [Times -> Nat]]
      BY <3>1, <3>2
    <3>7. catalog' \in [Listed -> [AllSeries -> [Times -> Nat]]]
      BY <1>5, <3>5, <3>6
    <3>8. catalog'[filedAs][s] = row
      BY <1>2, <1>4, <1>5, <3>1, <3>5
    <3>9. ASSUME NEW n \in Listed, NEW u \in AllSeries, NEW t \in Times
          PROVE  catalog'[n][u][t] >= catalog[n][u][t]
      <4>1. CASE n = filedAs /\ u = s
        BY <3>2, <3>8, <4>1
      <4>2. CASE ~(n = filedAs /\ u = s)
        <5>1. catalog'[n][u] = catalog[n][u]
          BY <1>2, <1>4, <1>5, <3>1, <3>5, <4>2
        <5>2. catalog[n][u][t] \in Nat
          BY <1>5
        <5> QED BY <5>1, <5>2
      <4> QED BY <4>1, <4>2
    <3> QED BY <3>3, <3>7, <3>8, <3>9
  <2>3. ChunkEmpty \/ ChunkFails => catalog' = catalog /\ ChunkRows \subseteq result'.lost
    BY <1>2 DEF ChunkEmpty, ChunkFails, ResultType
  <2> QED BY <1>1, <2>1, <2>2, <2>3
<1>9. ProviderInv'
  BY <1>1, InvParts
  DEF ProviderInv, ProviderTypeOK, CacheTrue, AskedIsAccounted, Loaded, providerVars
<1>10. DownloadTypeOK'
  <2>1. /\ calls' \in 0..MaxCalls /\ queue' \in Seq(JobType) /\ fetching' \in BOOLEAN
        /\ filedAs' \in IF fetching' THEN Listed ELSE {NoName}
    BY <1>1 DEF DownloadInv, DownloadTypeOK
  <2>2. results' \in Seq(OutcomeType)
    BY <1>1 DEF DownloadInv, DownloadTypeOK, OutcomeType
  <2> QED BY <1>6, <1>7, <1>8, <1>9, <2>1, <2>2
          DEF DownloadTypeOK, ProviderInv, OutcomeType
<1>11. Rested'
  BY <1>1 DEF Rested
<1>12. OwnName'
  <2>1. Job.name \notin Listed => result'.written = result.written
    BY <1>3, <1>7
  <2> QED BY <1>1, <1>3, <2>1 DEF DownloadInv, OwnName
<1>13. Progress'
  <2>1. ASSUME NEW t \in RowsOf(Job.name) \ result'.lost,
               t < current' \/ (t = current' /\ current' > 0)
        PROVE  catalog'[filedAs][s][t] > 0
    <3>1. t \in Times /\ t \in Nat /\ t <= current' /\ t \notin result.lost
      BY <1>3, <1>6, <1>7, <2>1, DownloaderAssumption DEF Times
    <3>2. CASE t < current
      <4>1. catalog[filedAs][s][t] > 0
        BY <1>1, <3>1, <3>2 DEF DownloadInv, Progress
      <4>2. catalog'[filedAs][s][t] >= catalog[filedAs][s][t]
        BY <1>2, <1>4, <1>8, <3>1
      <4>3. catalog[filedAs][s][t] \in Nat /\ catalog'[filedAs][s][t] \in Nat
        <5> HIDE DEF s, AllSeries
        <5> QED BY <1>2, <1>4, <1>5, <1>8, <3>1
      <4> HIDE DEF s
      <4> QED BY <4>1, <4>2, <4>3
    <3>3. CASE t >= current
      <4>1. t \in current..ChunkEnd(current)
        BY <1>1, <1>6, <3>1, <3>3
      <4>2. t \in ChunkRows
        BY <2>1, <4>1 DEF ChunkRows
      <4> QED BY <1>8, <2>1, <4>2
    <3> QED BY <1>6, <3>1, <3>2, <3>3
  <2>2. result'.lost # {} => result'.empty + result'.errors > 0
    <3>1. result.lost # {} => result.empty + result.errors > 0
      BY <1>1 DEF DownloadInv, Progress
    <3>2. CASE result'.lost = result.lost
      <4>1. /\ result.empty \in Nat /\ result.errors \in Nat
            /\ result'.empty \in Nat /\ result'.errors \in Nat
        BY <1>2, <1>7 DEF ResultType
      <4> QED BY <1>7, <3>1, <3>2, <4>1
    <3> QED BY <1>7, <3>2
  <2> QED BY <1>1, <1>3, <2>1, <2>2 DEF Progress
<1>14. (\A i \in DOMAIN results : Sound(results[i]))'
  <2> SUFFICES ASSUME NEW i \in DOMAIN results
               PROVE  Sound(results[i])'
    BY <1>1
  <2> DEFINE o == results[i]
  <2>1. o \in OutcomeType /\ results' = results
    <3>1. results \in Seq(OutcomeType)
      BY DEF DownloadInv, DownloadTypeOK, OutcomeType
    <3> QED BY <1>1, <3>1
  <2>2. Sound(o)
    BY InvParts
  <2>3. ASSUME o.as # NoName, NEW t \in RowsOf(o.job.name) \ o.counts.lost
        PROVE  catalog'[o.as][Series(o.job.timeframe)][t] > 0
    <3>1. o.as \in Listed /\ Series(o.job.timeframe) \in AllSeries
      BY <2>1, <2>3 DEF OutcomeType, JobType
    <3>2. t \in Times
      BY DownloaderAssumption DEF RowsOf
    <3>3. catalog[o.as][Series(o.job.timeframe)][t] > 0
      BY <2>2, <2>3 DEF Sound
    <3>4. /\ catalog'[o.as][Series(o.job.timeframe)][t]
               >= catalog[o.as][Series(o.job.timeframe)][t]
          /\ catalog[o.as][Series(o.job.timeframe)][t] \in Nat
          /\ catalog'[o.as][Series(o.job.timeframe)][t] \in Nat
      <4> HIDE DEF o, AllSeries
      <4> QED BY <1>5, <1>8, <3>1, <3>2
    <3> HIDE DEF o
    <3> QED BY <3>3, <3>4
  <2> QED BY <2>1, <2>2, <2>3 DEF Sound
<1>15. AnswerOwn' /\ DeliversAskedBars'
  BY InvParts DEF AnswerOwn, DeliversAskedBars
<1> QED BY <1>9, <1>10, <1>11, <1>12, <1>13, <1>14, <1>15, InvParts, PTL

-----------------------------------------------------------------------------
(* The specification. *)

LEMMA RequestKeeps ==
  ASSUME DownloadInv, NEW n \in Names, NEW asked \in Specs \cup {Series(TICKS)},
         Request(n, asked)
  PROVE  DownloadInv'
<1>1. UNCHANGED <<providerVars, jobVars>>
  BY DEF Request
<1>2. PICK rows \in {{}, RowsOf(n)} :
        answer' = [rows |-> rows, name |-> n, asked |-> asked,
                   filedAs |-> InstrumentOf(n).id, series |-> Delivered(asked)]
  BY DEF Request
<1>3. ProviderInv'
  BY <1>1, InvParts
  DEF ProviderInv, ProviderTypeOK, CacheTrue, AskedIsAccounted, Loaded, providerVars
<1>4. AnswerOwn'
  <2>1. rows # {} => n \in Listed
    BY DEF RowsOf
  <2>2. n \in Listed => InstrumentOf(n).id = n
    BY NamesOnlyUpper DEF Request, DownloadInv, DownloadTypeOK
  <2> QED BY <1>2, <2>1, <2>2 DEF AnswerOwn
<1>5. DeliversAskedBars'
  BY <1>2, DeliveredFacts DEF DeliversAskedBars
<1> QED BY <1>1, <1>3, <1>4, <1>5, JobsUntouched

LEMMA DownloadInitOK ==
  ASSUME DownloadInit
  PROVE  DownloadInv
<1>1. ProviderInv
  BY DEF DownloadInit, ProviderInit, ProviderInv, ProviderTypeOK, CacheTrue,
         AskedIsAccounted, Loaded
<1>2. DownloadTypeOK
  <2>1. NewResult \in ResultType
    BY DEF NewResult, ResultType
  <2>2. catalog \in [Listed -> [{Series(k) : k \in Kinds} -> [Times -> Nat]]]
    BY DEF DownloadInit
  <2>3. queue \in Seq(JobType) /\ results \in Seq(OutcomeType)
    BY DEF DownloadInit
  <2>4. calls \in 0..MaxCalls /\ current \in Times
    BY DownloaderAssumption DEF DownloadInit, Times
  <2>5. fetching \in BOOLEAN /\ filedAs \in IF fetching THEN Listed ELSE {NoName}
    BY DEF DownloadInit
  <2>6. result \in ResultType
    BY <2>1 DEF DownloadInit
  <2> QED BY <1>1, <2>2, <2>3, <2>4, <2>5, <2>6
          DEF DownloadTypeOK, ProviderInv, OutcomeType
<1>3. Rested /\ OwnName /\ Progress
  BY DEF DownloadInit, Rested, OwnName, Progress
<1>4. \A i \in DOMAIN results : Sound(results[i])
  BY DEF DownloadInit
<1>5. AnswerOwn /\ DeliversAskedBars
  BY DEF DownloadInit, NoAnswer, AnswerOwn, DeliversAskedBars, Series, Supported
<1> QED BY <1>1, <1>2, <1>3, <1>4, <1>5, InvParts

LEMMA DownloadInvStep ==
  ASSUME DownloadInv, [DownloadNext]_downloadVars
  PROVE  DownloadInv'
<1>1. ASSUME NEW names \in NamesAsked, NEW kinds \in KindsAsked,
             DownloadAll(names, kinds), UNCHANGED answer
      PROVE  DownloadInv'
  BY <1>1, DownloadAllKeeps
<1>2. CASE Downloading
  BY <1>2, StartRaisesKeeps, StartKeeps, StartFailsKeeps, FetchChunkKeeps, FinishKeeps
  DEF Downloading
<1>3. CASE ProviderStep /\ UNCHANGED <<jobVars, answer>>
  <2>1. ProviderInv'
    BY <1>3, InvParts, ProviderStepKeeps
  <2>2. AnswerOwn' /\ DeliversAskedBars'
    BY <1>3, InvParts DEF AnswerOwn, DeliversAskedBars
  <2> QED BY <1>3, <2>1, <2>2, JobsUntouched
<1>4. CASE Deliver
  <2>1. answer' = NoAnswer /\ UNCHANGED <<providerVars, jobVars>>
    BY <1>4 DEF Deliver
  <2>2. ProviderInv'
    BY <2>1, InvParts
    DEF ProviderInv, ProviderTypeOK, CacheTrue, AskedIsAccounted, Loaded, providerVars
  <2>3. AnswerOwn' /\ DeliversAskedBars'
    BY <2>1 DEF NoAnswer, AnswerOwn, DeliversAskedBars, Series, Supported
  <2> QED BY <2>1, <2>2, <2>3, JobsUntouched
<1>5. ASSUME NEW n \in Names, NEW asked \in Specs \cup {Series(TICKS)},
             Request(n, asked)
      PROVE  DownloadInv'
  BY <1>5, RequestKeeps
<1>6. CASE UNCHANGED downloadVars
  <2>1. ProviderInv'
    BY <1>6, InvParts
    DEF ProviderInv, ProviderTypeOK, CacheTrue, AskedIsAccounted, Loaded,
        providerVars, downloadVars
  <2>2. AnswerOwn' /\ DeliversAskedBars'
    BY <1>6, InvParts DEF AnswerOwn, DeliversAskedBars, downloadVars
  <2> QED BY <1>6, <2>1, <2>2, JobsUntouched DEF downloadVars
<1> QED BY <1>1, <1>2, <1>3, <1>4, <1>5, <1>6 DEF DownloadNext

LEMMA DownloadInvariant == DownloadSpec => []DownloadInv
<1>1. DownloadInit => DownloadInv
  BY DownloadInitOK
<1>2. DownloadInv /\ [DownloadNext]_downloadVars => DownloadInv'
  BY DownloadInvStep
<1> QED BY <1>1, <1>2, PTL DEF DownloadSpec

(* Every variable keeps its type: queues of any length hold jobs, chunks   *)
(* never leave the range, and rows are filed under listed names only.      *)
THEOREM DownloadTypeCorrect == DownloadSpec => []DownloadTypeOK
<1>1. DownloadInv => DownloadTypeOK
  BY DEF DownloadInv
<1> QED BY <1>1, DownloadInvariant, PTL

(* load_all_async() loses no name its filter asks for without a trace, but *)
(* for those the broker does not write in upper case.                      *)
THEOREM AskedNamesAccounted == DownloadSpec => []AskedIsAccounted
<1>1. DownloadInv => AskedIsAccounted
  BY DEF DownloadInv
<1> QED BY <1>1, DownloadInvariant, PTL

(* Every row of a finished download is in the catalog or in a chunk that   *)
(* was counted as empty or failed.                                         *)
THEOREM RowsAllAccounted == DownloadSpec => []RowsAccounted
<1>1. DownloadInv => RowsAccounted
  BY DEF DownloadInv
<1> QED BY <1>1, DownloadInvariant, PTL

(* A download of a name the broker does not list reports an error, or no   *)
(* row under the upper-cased name.                                         *)
THEOREM MisspellingsNoticed == DownloadSpec => []MisspeltIsNoticed
<1>1. DownloadInv => MisspeltIsNoticed
  BY DEF DownloadInv
<1> QED BY <1>1, DownloadInvariant, PTL

(* No row is ever filed, or delivered, under another instrument, though    *)
(* the instrument is looked up by the upper-cased name and the rows are    *)
(* fetched by the name as given.                                           *)
THEOREM RowsFiledRight == DownloadSpec => []FiledUnderOwnName
<1>1. DownloadInv => FiledUnderOwnName
  BY DEF DownloadInv
<1> QED BY <1>1, DownloadInvariant, PTL

(* Every specification MetaTrader 5 has is answered with bars of that      *)
(* specification, and any other with one of four.                          *)
THEOREM AskedBarsDelivered == DownloadSpec => []DeliversAskedBars
<1>1. DownloadInv => DeliversAskedBars
  BY DEF DownloadInv
<1> QED BY <1>1, DownloadInvariant, PTL

-----------------------------------------------------------------------------
(* What is counted as written.  The rows of a series, with their            *)
(* repetitions, are a finite set, which a written chunk makes larger by its *)
(* own rows and nothing ever makes smaller.                                *)

LEMMA CopiesFinite ==
  ASSUME NEW row \in [Times -> Nat]
  PROVE  IsFiniteSet(Copies(row)) /\ Cardinality(Copies(row)) \in Nat
<1> DEFINE f == [t \in Times |-> {t} \X (1..row[t])]
           parts == {{t} \X (1..row[t]) : t \in Times}
<1>1. IsFiniteSet(Times)
  BY TimesFinite
<1>2. IsFiniteSet(parts)
  <2>1. f \in Surjection(Times, parts)
    BY DEF Surjection
  <2> QED BY <1>1, <2>1, FS_Surjection
<1>3. \A part \in parts : IsFiniteSet(part)
  <2> SUFFICES ASSUME NEW t \in Times PROVE IsFiniteSet({t} \X (1..row[t]))
    OBVIOUS
  <2>1. row[t] \in Int /\ 1 \in Int
    OBVIOUS
  <2>2. IsFiniteSet(1..row[t])
    BY <2>1, FS_Interval
  <2>3. IsFiniteSet({t})
    BY FS_Singleton
  <2> QED BY <2>2, <2>3, FS_Product
<1>4. Copies(row) = UNION parts
  BY DEF Copies
<1>5. IsFiniteSet(UNION parts)
  <2> HIDE DEF parts
  <2> QED BY <1>2, <1>3, FS_UNION
<1> QED BY <1>4, <1>5, FS_CardinalityType

LEMMA CopiesAre ==
  ASSUME NEW row \in [Times -> Nat]
  PROVE  \A c : c \in Copies(row) <=> \E t \in Times : \E k \in 1..row[t] : c = <<t, k>>
<1> SUFFICES ASSUME NEW c
             PROVE  c \in Copies(row) <=> \E t \in Times : \E k \in 1..row[t] : c = <<t, k>>
  OBVIOUS
<1>1. c \in Copies(row) <=> \E t \in Times : c \in {t} \X (1..row[t])
  BY DEF Copies
<1>2. \A t \in Times : c \in {t} \X (1..row[t]) <=> \E k \in 1..row[t] : c = <<t, k>>
  OBVIOUS
<1> QED BY <1>1, <1>2

LEMMA CopiesGrow ==
  ASSUME NEW row \in [Times -> Nat], NEW more \in [Times -> Nat],
         \A t \in Times : more[t] >= row[t]
  PROVE  Cardinality(Copies(row)) <= Cardinality(Copies(more))
<1>1. Copies(row) \in SUBSET Copies(more)
  <2> SUFFICES ASSUME NEW t \in Times, NEW k \in 1..row[t]
               PROVE  <<t, k>> \in Copies(more)
    BY CopiesAre
  <2>1. k \in 1..more[t]
    OBVIOUS
  <2> QED BY <2>1, CopiesAre
<1> QED BY <1>1, CopiesFinite, FS_Subset

LEMMA CopiesAdded ==
  ASSUME NEW row \in [Times -> Nat], NEW rows \in SUBSET Times,
         NEW more, more = [t \in Times |-> IF t \in rows THEN row[t] + 1 ELSE row[t]]
  PROVE  Cardinality(Copies(more)) = Cardinality(Copies(row)) + Cardinality(rows)
<1> DEFINE new == {<<t, row[t] + 1>> : t \in rows}
           f == [t \in rows |-> <<t, row[t] + 1>>]
<1>1. more \in [Times -> Nat]
  OBVIOUS
<1>2. IsFiniteSet(rows)
  BY TimesFinite, FS_Subset
<1>3. IsFiniteSet(new) /\ Cardinality(new) = Cardinality(rows)
  <2>1. f \in Bijection(rows, new)
    BY DEF Bijection, Injection, Surjection, IsInjective
  <2> QED BY <1>2, <2>1, FS_Bijection DEF ExistsBijection
<1>4. Copies(row) \cap new = {}
  <2> SUFFICES ASSUME NEW t \in rows, <<t, row[t] + 1>> \in Copies(row) PROVE FALSE
    OBVIOUS
  <2>1. row[t] + 1 \in 1..row[t]
    BY CopiesAre
  <2> QED BY <2>1
<1>5. Copies(more) = Copies(row) \cup new
  <2>1. ASSUME NEW t \in Times, NEW k \in 1..more[t]
        PROVE  <<t, k>> \in Copies(row) \cup new
    <3>1. CASE k \in 1..row[t]
      BY <3>1, CopiesAre
    <3>2. CASE k \notin 1..row[t]
      <4>1. t \in rows /\ k = row[t] + 1
        BY <3>2
      <4> QED BY <4>1
    <3> QED BY <3>1, <3>2
  <2>2. ASSUME NEW t \in Times, NEW k \in 1..row[t]
        PROVE  <<t, k>> \in Copies(more)
    <3>1. k \in 1..more[t]
      OBVIOUS
    <3> QED BY <1>1, <3>1, CopiesAre
  <2>3. ASSUME NEW t \in rows
        PROVE  <<t, row[t] + 1>> \in Copies(more)
    <3>1. row[t] + 1 \in 1..more[t]
      OBVIOUS
    <3> QED BY <1>1, <3>1, CopiesAre
  <2> HIDE DEF new
  <2>4. Copies(more) \subseteq Copies(row) \cup new
    BY <1>1, <2>1, CopiesAre
  <2>5. Copies(row) \subseteq Copies(more)
    BY <2>2, CopiesAre
  <2>6. new \subseteq Copies(more)
    BY <2>3 DEF new
  <2> QED BY <2>4, <2>5, <2>6
<1> HIDE DEF new
<1>6. Cardinality(Copies(more))
        = Cardinality(Copies(row)) + Cardinality(new) - Cardinality(Copies(row) \cap new)
  BY <1>3, <1>5, CopiesFinite, FS_Union
<1>7. Cardinality(Copies(row) \cap new) = 0
  BY <1>4, FS_EmptySet
<1>8. Cardinality(Copies(row)) \in Nat /\ Cardinality(rows) \in Nat
  BY <1>2, CopiesFinite, FS_CardinalityType
<1> QED BY <1>3, <1>6, <1>7, <1>8

-----------------------------------------------------------------------------
(* The invariant of the counting.                                          *)

AllSeries == {Series(k) : k \in Kinds}

CountedAs(o) ==
  o.as # NoName =>
    o.counts.written
      <= Cardinality(Copies(catalog[o.as][Series(o.job.timeframe)]))

(* Finished or not, a download has counted no more than the catalog holds. *)
Counted ==
  /\ \A i \in DOMAIN results : CountedAs(results[i])
  /\ fetching =>
       result.written
         <= Cardinality(Copies(catalog[filedAs][Series(Job.timeframe)]))

(* Chunks start at multiples of their length. *)
Stepped == current = End \/ \E i \in 0..End : current = i * ChunkDays

(* A call that has got anywhere found the link up, and nothing but itself  *)
(* runs before its end: only its first download can raise.                 *)
LinkUp == queue # <<>> /\ (fetching \/ results # <<>>) => link

(* What the current download may have written of one row so far. *)
Share(n, s, t) ==
  IF ~(fetching /\ filedAs = n /\ Series(Job.timeframe) = s) THEN 0
  ELSE IF t < current THEN MostWrites(t)
  ELSE IF t = current /\ t > 0 THEN 1 ELSE 0

(* Until the first call is over, the catalog holds what its downloads wrote. *)
FirstCall ==
  /\ calls = 0 => results = <<>> /\ queue = <<>>
  /\ calls <= 1 =>
       \A n \in Listed, s \in AllSeries, t \in Times :
         catalog[n][s][t] <= Cardinality(Over(n, s)) * MostWrites(t) + Share(n, s, t)

CountInv == Counted /\ Stepped /\ LinkUp /\ FirstCall

LEMMA MostWritesType == \A t : MostWrites(t) \in {1, 2}
BY DEF MostWrites

(* The downloads over are finitely many; one more may join them. *)
LEMMA OverFinite ==
  ASSUME DownloadTypeOK, NEW n, NEW s
  PROVE  IsFiniteSet(Over(n, s)) /\ Cardinality(Over(n, s)) \in Nat
<1>1. Over(n, s) \in SUBSET (1..Len(results)) /\ 1 \in Int /\ Len(results) \in Int
  BY DEF Over, DownloadTypeOK
<1>2. IsFiniteSet(1..Len(results))
  BY <1>1, FS_Interval
<1>3. IsFiniteSet(Over(n, s))
  BY <1>1, <1>2, FS_Subset
<1> QED BY <1>3, FS_CardinalityType

LEMMA OverAppended ==
  ASSUME DownloadTypeOK, NEW o \in OutcomeType, results' = Append(results, o),
         NEW n, NEW s
  PROVE  Cardinality(Over(n, s)') =
           Cardinality(Over(n, s))
             + (IF o.as = n /\ Series(o.job.timeframe) = s THEN 1 ELSE 0)
<1> DEFINE k == Len(results) + 1
<1>1. results \in Seq(OutcomeType)
  BY DEF DownloadTypeOK, OutcomeType
<1>2. /\ DOMAIN results' = DOMAIN results \cup {k} /\ k \notin DOMAIN results
      /\ results'[k] = o
      /\ \A i \in DOMAIN results : results'[i] = results[i]
  BY <1>1
<1> HIDE DEF k
<1>3. k \notin Over(n, s)
  BY <1>2 DEF Over
<1>4. CASE o.as = n /\ Series(o.job.timeframe) = s
  <2>1. Over(n, s)' = Over(n, s) \cup {k}
    BY <1>2, <1>4 DEF Over
  <2> QED BY <1>3, <1>4, <2>1, OverFinite, FS_AddElement
<1>5. CASE ~(o.as = n /\ Series(o.job.timeframe) = s)
  <2>1. Over(n, s)' = Over(n, s)
    BY <1>2, <1>5 DEF Over
  <2> QED BY <1>5, <2>1, OverFinite
<1> QED BY <1>4, <1>5

(* A step of the others, or none. *)
LEMMA CountingUntouched ==
  ASSUME CountInv, UNCHANGED jobVars, queue = <<>> \/ link' = link
  PROVE  CountInv'
<1>1. Counted'
  BY DEF CountInv, Counted, CountedAs, jobVars, Job
<1>2. Stepped' /\ LinkUp'
  BY DEF CountInv, Stepped, LinkUp, jobVars
<1>3. FirstCall'
  BY DEF CountInv, FirstCall, Over, Share, jobVars, Job
<1> QED BY <1>1, <1>2, <1>3 DEF CountInv

(* A call begins, or ends before its first download. *)
LEMMA DownloadAllCounts ==
  ASSUME DownloadInv, CountInv, NEW names, NEW kinds, DownloadAll(names, kinds)
  PROVE  CountInv'
<1>1. /\ calls' = calls + 1 /\ queue = <<>> /\ results' = <<>>
      /\ UNCHANGED <<link, fetching, filedAs, current, result, catalog>>
  BY DEF DownloadAll
<1>2. ~fetching /\ calls \in Nat
  BY <1>1 DEF DownloadInv, OwnName, DownloadTypeOK
<1>3. Counted'
  BY <1>1, <1>2 DEF Counted
<1>4. Stepped' /\ LinkUp'
  BY <1>1, <1>2 DEF CountInv, Stepped, LinkUp
<1>5. FirstCall'
  <2>1. calls' <= 1 => calls = 0 /\ calls <= 1 /\ results' = results
    BY <1>1, <1>2 DEF CountInv, FirstCall
  <2>2. \A n, s, t : Share(n, s, t) = 0 /\ Share(n, s, t)' = 0
    BY <1>1, <1>2 DEF Share
  <2>3. results' = results => \A n, s : Over(n, s)' = Over(n, s)
    BY DEF Over
  <2>4. calls' # 0
    BY <1>1, <1>2
  <2> QED BY <1>1, <2>1, <2>2, <2>3, <2>4 DEF CountInv, FirstCall
<1> QED BY <1>3, <1>4, <1>5 DEF CountInv

LEMMA StartRaisesCounts ==
  ASSUME CountInv, StartRaises
  PROVE  CountInv'
<1>1. /\ ~fetching /\ queue' = <<>> /\ queue # <<>> /\ ~link /\ results' = <<>>
      /\ UNCHANGED <<calls, fetching, filedAs, current, result, catalog>>
  BY DEF StartRaises
<1>2. results = <<>>
  BY <1>1 DEF CountInv, LinkUp
<1>3. Counted' /\ Stepped' /\ LinkUp'
  BY <1>1 DEF CountInv, Counted, Stepped, LinkUp
<1>4. FirstCall'
  <2>1. \A n, s, t : Share(n, s, t) = 0 /\ Share(n, s, t)' = 0
    BY <1>1 DEF Share
  <2>2. \A n, s : Over(n, s)' = Over(n, s)
    BY <1>1, <1>2 DEF Over
  <2> QED BY <1>1, <1>2, <2>1, <2>2 DEF CountInv, FirstCall
<1> QED BY <1>3, <1>4 DEF CountInv

LEMMA StartCounts ==
  ASSUME DownloadInv, DownloadInv', CountInv, Start
  PROVE  CountInv'
<1>1. /\ ~fetching /\ fetching' /\ link /\ link' = link
      /\ UNCHANGED <<calls, queue, current, result, results, catalog>>
  BY DEF Start
<1>2. current = 0 /\ result'.written = 0
  BY <1>1 DEF DownloadInv, Rested, NewResult
<1>3. Counted'
  <2>1. catalog'[filedAs'][Series(Job'.timeframe)] \in [Times -> Nat]
    <3>1. queue' # <<>> /\ filedAs' \in Listed
      BY <1>1 DEF DownloadInv, OwnName, DownloadTypeOK
    <3>2. Job' \in JobType
      BY <1>1, <3>1, ChunkFacts DEF DownloadInv, Job
    <3>3. catalog' \in [Listed -> [AllSeries -> [Times -> Nat]]]
      BY DEF DownloadInv, DownloadTypeOK, AllSeries
    <3>4. Series(Job'.timeframe) \in AllSeries
      BY <3>2 DEF JobType, AllSeries
    <3> QED BY <3>1, <3>3, <3>4
  <2>2. result'.written <= Cardinality(Copies(catalog'[filedAs'][Series(Job'.timeframe)]))
    BY <1>2, <2>1, CopiesFinite
  <2> QED BY <1>1, <2>2 DEF CountInv, Counted, CountedAs
<1>4. Stepped' /\ LinkUp'
  BY <1>1 DEF CountInv, Stepped, LinkUp
<1>5. FirstCall'
  <2>1. \A n, s : \A t \in Times : Share(n, s, t) = 0 /\ Share(n, s, t)' = 0
    <3>1. \A t \in Times : ~(t < 0) /\ ~(t = 0 /\ t > 0)
      BY DownloaderAssumption DEF Times
    <3> QED BY <1>1, <1>2, <3>1 DEF Share
  <2>2. \A n, s : Over(n, s)' = Over(n, s)
    BY <1>1 DEF Over
  <2> QED BY <1>1, <2>1, <2>2 DEF CountInv, FirstCall
<1> QED BY <1>3, <1>4, <1>5 DEF CountInv

(* A download ends: what it may have written of a row becomes its part of   *)
(* what the downloads over may have written.                               *)
LEMMA EndingCounts ==
  ASSUME DownloadInv, CountInv, NEW r \in ResultType, queue # <<>>, link, Done(r),
         UNCHANGED <<link, calls, catalog>>,
         CountedAs([job |-> Job, as |-> filedAs, counts |-> r]),
         fetching => current = End
  PROVE  CountInv'
<1> DEFINE o == [job |-> Job, as |-> filedAs, counts |-> r]
<1>1. /\ ~fetching' /\ current' = 0 /\ results' = Append(results, o)
  BY DEF Done
<1>2. o \in OutcomeType /\ results \in Seq(OutcomeType)
  BY ChunkFacts DEF DownloadInv, DownloadTypeOK, OutcomeType
<1>3. Counted'
  <2> HIDE DEF o
  <2>1. \A i \in DOMAIN results' :
          results'[i] = o \/ \E j \in DOMAIN results : results'[i] = results[j]
    BY <1>1, <1>2, AppendedElements
  <2>2. \A i \in DOMAIN results' : CountedAs(results'[i])
    BY <2>1 DEF CountInv, Counted, o
  <2> QED BY <1>1, <2>2 DEF Counted, CountedAs
<1>4. Stepped'
  <2>1. 0 \in 0..End /\ 0 = 0 * ChunkDays
    BY DownloaderAssumption
  <2> QED BY <1>1, <2>1 DEF Stepped
<1>5. LinkUp'
  BY DEF LinkUp
<1>6. FirstCall'
  <2>1. calls # 0
    BY DEF CountInv, FirstCall
  <2> SUFFICES ASSUME calls <= 1, NEW n \in Listed, NEW s \in AllSeries, NEW t \in Times
               PROVE  catalog[n][s][t]
                        <= Cardinality(Over(n, s)') * MostWrites(t) + Share(n, s, t)'
    BY <2>1 DEF FirstCall
  <2> DEFINE mine == o.as = n /\ Series(o.job.timeframe) = s
             before == Cardinality(Over(n, s))
             after == Cardinality(Over(n, s)')
  <2>2. catalog[n][s][t] <= before * MostWrites(t) + Share(n, s, t)
    BY DEF CountInv, FirstCall
  <2>3. after = before + (IF mine THEN 1 ELSE 0) /\ before \in Nat
    <3> HIDE DEF o
    <3> QED BY <1>1, <1>2, OverAppended, OverFinite DEF DownloadInv
  <2>4. Share(n, s, t) \in 0..(IF mine THEN MostWrites(t) ELSE 0)
    <3>1. CASE fetching /\ mine
      BY <3>1, MostWritesType DEF Share
    <3>2. CASE ~(fetching /\ mine)
      <4>1. Share(n, s, t) = 0
        BY <3>2 DEF Share
      <4> QED BY <4>1, MostWritesType
    <3> QED BY <3>1, <3>2
  <2>5. Share(n, s, t)' = 0
    BY <1>1 DEF Share
  <2>6. catalog[n][s][t] \in Nat
    <3>1. catalog \in [Listed -> [AllSeries -> [Times -> Nat]]]
      BY DEF DownloadInv, DownloadTypeOK, AllSeries
    <3> QED BY <3>1
  <2>7. MostWrites(t) \in {1, 2}
    BY MostWritesType
  <2> HIDE DEF mine, before, after
  <2>8. catalog[n][s][t] <= after * MostWrites(t)
    <3>1. CASE MostWrites(t) = 1
      BY <2>2, <2>3, <2>4, <2>6, <3>1
    <3>2. CASE MostWrites(t) = 2
      BY <2>2, <2>3, <2>4, <2>6, <3>2
    <3> QED BY <2>7, <3>1, <3>2
  <2>9. after * MostWrites(t) + 0 = after * MostWrites(t)
    BY <2>3, <2>7
  <2> QED BY <2>5, <2>8, <2>9 DEF after
<1> QED BY <1>3, <1>4, <1>5, <1>6 DEF CountInv

LEMMA StartFailsCounts ==
  ASSUME DownloadInv, CountInv, StartFails
  PROVE  CountInv'
<1> DEFINE r == [result EXCEPT !.errors = 1]
<1>1. /\ queue # <<>> /\ ~fetching /\ link /\ Done(r)
      /\ UNCHANGED <<link, calls, catalog>>
  BY DEF StartFails
<1>2. r \in ResultType
  BY <1>1 DEF DownloadInv, Rested, NewResult, ResultType
<1>3. filedAs = NoName
  BY <1>1 DEF DownloadInv, DownloadTypeOK
<1>4. CountedAs([job |-> Job, as |-> filedAs, counts |-> r])
  BY <1>3 DEF CountedAs
<1> HIDE DEF r
<1> QED BY <1>1, <1>2, <1>4, EndingCounts

LEMMA FinishCounts ==
  ASSUME DownloadInv, CountInv, Finish
  PROVE  CountInv'
<1>1. /\ fetching /\ current >= End /\ Done(result)
      /\ UNCHANGED <<link, calls, catalog>>
  BY DEF Finish, providerVars
<1>2. queue # <<>> /\ result \in ResultType
  BY <1>1 DEF DownloadInv, OwnName, DownloadTypeOK
<1>3. current = End
  BY <1>1, DownloaderAssumption DEF DownloadInv, DownloadTypeOK, Times
<1>4. link
  BY <1>1, <1>2 DEF CountInv, LinkUp
<1>5. CountedAs([job |-> Job, as |-> filedAs, counts |-> result])
  BY <1>1 DEF CountInv, Counted, CountedAs
<1> QED BY <1>1, <1>2, <1>3, <1>4, <1>5, EndingCounts

(* The rows a written chunk adds. *)
LEMMA ChunkAdds ==
  ASSUME DownloadInv, filedAs \in Listed, queue # <<>>, ChunkWritten,
         NEW n \in Listed, NEW s \in AllSeries
  PROVE  catalog'[n][s] =
           IF n = filedAs /\ s = Series(Job.timeframe)
             THEN [t \in Times |-> IF t \in ChunkRows THEN catalog[n][s][t] + 1
                                                      ELSE catalog[n][s][t]]
             ELSE catalog[n][s]
<1> DEFINE u == Series(Job.timeframe)
           row == [t \in Times |-> IF t \in ChunkRows THEN catalog[filedAs][u][t] + 1
                                                      ELSE catalog[filedAs][u][t]]
<1>1. u \in AllSeries
  BY ChunkFacts DEF DownloadInv, JobType, AllSeries
<1>2. catalog \in [Listed -> [AllSeries -> [Times -> Nat]]]
  BY DEF DownloadInv, DownloadTypeOK, AllSeries
<1>3. catalog' = [catalog EXCEPT ![filedAs] = [catalog[filedAs] EXCEPT ![u] = row]]
  BY DEF ChunkWritten
<1>4. catalog[filedAs] \in [AllSeries -> [Times -> Nat]]
  BY <1>2
<1> HIDE DEF row
<1>5. CASE n = filedAs /\ s = u
  <2>1. catalog'[n][s] = row
    BY <1>1, <1>2, <1>3, <1>4, <1>5
  <2> QED BY <1>5, <2>1 DEF row
<1>6. CASE ~(n = filedAs /\ s = u)
  BY <1>1, <1>2, <1>3, <1>4, <1>6
<1> QED BY <1>5, <1>6

LEMMA NextMultiple ==
  ASSUME NEW i \in Nat, NEW d \in Nat \ {0}
  PROVE  i * d + d = (i + 1) * d /\ i + 1 <= (i + 1) * d
<1>1. i * d + d = (i + 1) * d
  OBVIOUS
<1>2. \A m \in Nat : m <= m * d
  OBVIOUS
<1> QED BY <1>1, <1>2

(* A chunk starts where the one before it ended. *)
LEMMA ChunkSteps ==
  ASSUME DownloadInv, Stepped, current < End, current' = ChunkEnd(current)
  PROVE  /\ Stepped'
         /\ current \in Nat /\ current' \in Nat /\ current < current' /\ current' <= End
         /\ current > 0 => InnerBoundary(current)
<1>1. /\ current \in Nat /\ End \in Nat /\ ChunkDays \in Nat \ {0}
      /\ current' \in Nat /\ current < current' /\ current' <= End
  BY DownloaderAssumption DEF DownloadInv, DownloadTypeOK, Times, ChunkEnd
<1>2. PICK i \in 0..End : current = i * ChunkDays
  BY <1>1 DEF Stepped
<1>3. Stepped'
  <2>1. CASE current' = End
    BY <2>1 DEF Stepped
  <2>2. CASE current' # End
    <3>1. current' = i * ChunkDays + ChunkDays
      BY <1>2, <2>2 DEF ChunkEnd
    <3>2. current' = (i + 1) * ChunkDays /\ i + 1 <= (i + 1) * ChunkDays
      BY <1>1, <3>1, NextMultiple
    <3>3. i + 1 \in 0..End
      BY <1>1, <3>2
    <3> QED BY <3>2, <3>3 DEF Stepped
  <2> QED BY <2>1, <2>2
<1>4. ASSUME current > 0
      PROVE  InnerBoundary(current)
  <2>1. i # 0
    BY <1>1, <1>2, <1>4
  <2>2. i \in 1..End
    BY <2>1
  <2> QED BY <1>1, <1>2, <2>2 DEF InnerBoundary
<1> QED BY <1>1, <1>3, <1>4

(* The share of a download grows with every chunk by what the chunk may     *)
(* have written.                                                           *)
LEMMA ShareGrows ==
  ASSUME DownloadInv, Stepped, fetching, current < End, current' = ChunkEnd(current),
         UNCHANGED <<fetching, queue, filedAs>>, NEW t \in Times, NEW n, NEW s
  PROVE  /\ Share(n, s, t) \in Nat /\ Share(n, s, t)' \in Nat
         /\ Share(n, s, t)' >= Share(n, s, t)
         /\ n = filedAs /\ s = Series(Job.timeframe) /\ t \in current..ChunkEnd(current)
              => Share(n, s, t)' >= Share(n, s, t) + 1
<1> DEFINE mine == filedAs = n /\ Series(Job.timeframe) = s
<1>1. /\ current \in Nat /\ current' \in Nat /\ current < current' /\ current' <= End
      /\ current > 0 => InnerBoundary(current)
  BY ChunkSteps
<1>2. MostWrites(t) \in {1, 2} /\ t \in Nat /\ End \in Nat
  BY MostWritesType, DownloaderAssumption DEF Times
<1>3. Job' = Job
  BY DEF Job
<1>4. CASE ~mine
  <2>1. Share(n, s, t) = 0 /\ Share(n, s, t)' = 0
    BY <1>3, <1>4 DEF Share
  <2> QED BY <1>4, <2>1
<1>5. CASE mine
  <2>1. Share(n, s, t) = IF t < current THEN MostWrites(t)
                         ELSE IF t = current /\ t > 0 THEN 1 ELSE 0
    BY <1>5 DEF Share
  <2>2. Share(n, s, t)' = IF t < current' THEN MostWrites(t)
                          ELSE IF t = current' /\ t > 0 THEN 1 ELSE 0
    BY <1>3, <1>5 DEF Share
  <2>3. t = current /\ t > 0 => MostWrites(t) = 2
    BY <1>1 DEF MostWrites
  <2>4. CASE t < current
    BY <1>1, <1>2, <2>1, <2>2, <2>4
  <2>5. CASE t = current
    BY <1>1, <1>2, <2>1, <2>2, <2>3, <2>5
  <2>6. CASE t > current
    BY <1>1, <1>2, <2>1, <2>2, <2>6
  <2> QED BY <1>1, <1>2, <2>4, <2>5, <2>6
<1> QED BY <1>4, <1>5

LEMMA FetchChunkCounts ==
  ASSUME DownloadInv, DownloadInv', CountInv, FetchChunk
  PROVE  CountInv'
<1> DEFINE s == Series(Job.timeframe)
<1>1. /\ fetching /\ fetching' /\ current < End /\ current' = ChunkEnd(current)
      /\ ChunkEmpty \/ ChunkFails \/ ChunkWritten
      /\ UNCHANGED <<link, calls, queue, fetching, filedAs, results>>
  BY DEF FetchChunk, providerVars
<1>2. queue # <<>> /\ filedAs \in Listed /\ Job' = Job
  BY <1>1 DEF DownloadInv, OwnName, DownloadTypeOK, Job
<1>3. /\ s \in AllSeries /\ ChunkRows \in SUBSET Times /\ Cardinality(ChunkRows) \in Nat
      /\ result \in ResultType
  BY <1>2, ChunkFacts DEF DownloadInv, DownloadTypeOK, JobType, AllSeries
<1>4. /\ catalog \in [Listed -> [AllSeries -> [Times -> Nat]]]
      /\ catalog' \in [Listed -> [AllSeries -> [Times -> Nat]]]
  BY DEF DownloadInv, DownloadTypeOK, AllSeries
<1>5. ChunkEmpty \/ ChunkFails => catalog' = catalog /\ result'.written = result.written
  BY <1>3 DEF ChunkEmpty, ChunkFails, ResultType
<1>6. ASSUME NEW n \in Listed, NEW u \in AllSeries, NEW t \in Times
      PROVE  /\ catalog'[n][u][t] \in {catalog[n][u][t], catalog[n][u][t] + 1}
             /\ catalog'[n][u][t] # catalog[n][u][t]
                  => n = filedAs /\ u = s /\ t \in ChunkRows
  <2>1. CASE ChunkWritten
    <3>1. catalog'[n][u] =
            IF n = filedAs /\ u = s
              THEN [x \in Times |-> IF x \in ChunkRows THEN catalog[n][u][x] + 1
                                                       ELSE catalog[n][u][x]]
              ELSE catalog[n][u]
      BY <1>2, <2>1, ChunkAdds
    <3> QED BY <3>1
  <2>2. CASE ChunkEmpty \/ ChunkFails
    BY <1>5, <2>2
  <2> QED BY <1>1, <2>1, <2>2
<1>7. ASSUME NEW n \in Listed, NEW u \in AllSeries
      PROVE  Cardinality(Copies(catalog[n][u])) <= Cardinality(Copies(catalog'[n][u]))
  <2>1. catalog[n][u] \in [Times -> Nat] /\ catalog'[n][u] \in [Times -> Nat]
    BY <1>4
  <2>2. \A t \in Times : catalog'[n][u][t] >= catalog[n][u][t]
    BY <1>6, <2>1
  <2> QED BY <2>1, <2>2, CopiesGrow
<1>8. Counted'
  <2>1. ASSUME NEW i \in DOMAIN results, results[i].as # NoName
        PROVE  results[i].counts.written
                 <= Cardinality(Copies(catalog'[results[i].as][Series(results[i].job.timeframe)]))
    <3> DEFINE o == results[i]
    <3>1. o \in OutcomeType
      <4>1. results \in Seq(OutcomeType)
        BY DEF DownloadInv, DownloadTypeOK, OutcomeType
      <4> QED BY <4>1
    <3>2. /\ o.as \in Listed /\ Series(o.job.timeframe) \in AllSeries
          /\ o.counts.written \in Nat
      BY <2>1, <3>1 DEF OutcomeType, JobType, AllSeries, ResultType
    <3>3. o.counts.written <= Cardinality(Copies(catalog[o.as][Series(o.job.timeframe)]))
      BY <2>1 DEF CountInv, Counted, CountedAs
    <3> HIDE DEF o
    <3>4. Cardinality(Copies(catalog[o.as][Series(o.job.timeframe)]))
            <= Cardinality(Copies(catalog'[o.as][Series(o.job.timeframe)]))
      BY <1>7, <3>2
    <3>5. /\ Cardinality(Copies(catalog[o.as][Series(o.job.timeframe)])) \in Nat
          /\ Cardinality(Copies(catalog'[o.as][Series(o.job.timeframe)])) \in Nat
      BY <1>4, <3>2, CopiesFinite
    <3> QED BY <3>2, <3>3, <3>4, <3>5 DEF o
  <2>2. result'.written <= Cardinality(Copies(catalog'[filedAs][s]))
    <3> DEFINE held == Cardinality(Copies(catalog[filedAs][s]))
               holds == Cardinality(Copies(catalog'[filedAs][s]))
    <3>1. held \in Nat /\ holds \in Nat
      BY <1>2, <1>3, <1>4, CopiesFinite
    <3>2. result.written <= held /\ result.written \in Nat
      BY <1>1, <1>3 DEF CountInv, Counted, ResultType
    <3>3. CASE ChunkWritten
      <4>1. result'.written = result.written + Cardinality(ChunkRows)
        BY <1>3, <3>3 DEF ChunkWritten, ResultType
      <4>2. catalog'[filedAs][s]
              = [t \in Times |-> IF t \in ChunkRows THEN catalog[filedAs][s][t] + 1
                                                    ELSE catalog[filedAs][s][t]]
        BY <1>2, <1>3, <3>3, ChunkAdds
      <4>3. catalog[filedAs][s] \in [Times -> Nat]
        BY <1>2, <1>3, <1>4
      <4>4. holds = held + Cardinality(ChunkRows)
        BY <1>3, <4>2, <4>3, CopiesAdded
      <4> HIDE DEF held, holds
      <4> QED BY <1>3, <3>1, <3>2, <4>1, <4>4 DEF holds
    <3>4. CASE ChunkEmpty \/ ChunkFails
      BY <1>5, <3>2, <3>4
    <3> QED BY <1>1, <3>3, <3>4
  <2> QED BY <1>1, <1>2, <2>1, <2>2 DEF Counted, CountedAs
<1>9. Stepped' /\ LinkUp'
  BY <1>1, ChunkSteps DEF CountInv, LinkUp
<1>10. FirstCall'
  <2>1. calls = 0 => queue = <<>> /\ results = <<>>
    BY DEF CountInv, FirstCall
  <2> SUFFICES ASSUME calls <= 1, NEW n \in Listed, NEW u \in AllSeries, NEW t \in Times
               PROVE  catalog'[n][u][t]
                        <= Cardinality(Over(n, u)') * MostWrites(t) + Share(n, u, t)'
    BY <1>1, <2>1 DEF FirstCall
  <2>2. catalog[n][u][t]
          <= Cardinality(Over(n, u)) * MostWrites(t) + Share(n, u, t)
    BY DEF CountInv, FirstCall
  <2>3. Over(n, u)' = Over(n, u)
    BY <1>1 DEF Over
  <2>4. /\ Share(n, u, t) \in Nat /\ Share(n, u, t)' \in Nat
        /\ Share(n, u, t)' >= Share(n, u, t)
        /\ n = filedAs /\ u = s /\ t \in current..ChunkEnd(current)
             => Share(n, u, t)' >= Share(n, u, t) + 1
    BY <1>1, ShareGrows DEF CountInv
  <2>5. t \in ChunkRows => t \in current..ChunkEnd(current)
    BY DEF ChunkRows
  <2>6. catalog[n][u][t] \in Nat
    BY <1>4
  <2>7. Cardinality(Over(n, u)) * MostWrites(t) \in Nat
    BY OverFinite, MostWritesType DEF DownloadInv
  <2> DEFINE ended == Cardinality(Over(n, u)) * MostWrites(t)
  <2> HIDE DEF ended
  <2>8. catalog'[n][u][t] <= ended + Share(n, u, t)'
    <3>1. CASE catalog'[n][u][t] = catalog[n][u][t]
      BY <2>2, <2>4, <2>6, <2>7, <3>1 DEF ended
    <3>2. CASE catalog'[n][u][t] # catalog[n][u][t]
      <4>1. catalog'[n][u][t] = catalog[n][u][t] + 1
        BY <1>6, <3>2
      <4>2. Share(n, u, t)' >= Share(n, u, t) + 1
        BY <1>6, <2>4, <2>5, <3>2
      <4>3. catalog[n][u][t] <= ended + Share(n, u, t) /\ ended \in Nat
        BY <2>2, <2>7 DEF ended
      <4> QED BY <2>4, <2>6, <4>1, <4>2, <4>3
    <3> QED BY <3>1, <3>2
  <2> QED BY <2>3, <2>8 DEF ended
<1> QED BY <1>8, <1>9, <1>10 DEF CountInv

LEMMA CountInvInit ==
  ASSUME DownloadInit
  PROVE  CountInv
<1>1. Counted /\ LinkUp
  BY DEF DownloadInit, Counted, LinkUp
<1>2. Stepped
  <2>1. 0 \in 0..End /\ 0 = 0 * ChunkDays
    BY DownloaderAssumption
  <2> QED BY <2>1 DEF DownloadInit, Stepped
<1>3. FirstCall
  <2> SUFFICES ASSUME NEW n \in Listed, NEW s \in AllSeries, NEW t \in Times
               PROVE  catalog[n][s][t]
                        <= Cardinality(Over(n, s)) * MostWrites(t) + Share(n, s, t)
    BY DEF DownloadInit, FirstCall
  <2>1. catalog[n][s][t] = 0 /\ Share(n, s, t) = 0
    BY DEF DownloadInit, AllSeries, Share
  <2>2. Cardinality(Over(n, s)) = 0
    <3>1. Over(n, s) = {}
      BY DEF DownloadInit, Over
    <3> QED BY <3>1, FS_EmptySet
  <2>3. 0 * MostWrites(t) + 0 = 0
    BY MostWritesType
  <2> QED BY <2>1, <2>2, <2>3
<1> QED BY <1>1, <1>2, <1>3 DEF CountInv

LEMMA CountInvStep ==
  ASSUME DownloadInv, DownloadInv', CountInv, [DownloadNext]_downloadVars
  PROVE  CountInv'
<1>1. ASSUME NEW names \in NamesAsked, NEW kinds \in KindsAsked, DownloadAll(names, kinds)
      PROVE  CountInv'
  BY <1>1, DownloadAllCounts
<1>2. CASE Downloading
  BY <1>2, StartRaisesCounts, StartCounts, StartFailsCounts, FetchChunkCounts,
     FinishCounts DEF Downloading
<1>3. CASE queue = <<>> /\ ProviderStep /\ UNCHANGED <<jobVars, answer>>
  BY <1>3, CountingUntouched
<1>4. CASE Deliver \/ UNCHANGED downloadVars
  BY <1>4, CountingUntouched DEF Deliver, downloadVars, providerVars
<1>5. ASSUME NEW n \in Names, NEW asked \in Specs \cup {Series(TICKS)}, Request(n, asked)
      PROVE  CountInv'
  BY <1>5, CountingUntouched DEF Request
<1> QED BY <1>1, <1>2, <1>3, <1>4, <1>5 DEF DownloadNext

(* total_written counts rows that are in the catalog, for every history,   *)
(* range and length of chunk; and in the catalog a first download_all()    *)
(* leaves, each download wrote a row once, or twice on a chunk's boundary. *)
THEOREM WrittenIsCounted == DownloadSpec => []WrittenAsCounted
<1>1. DownloadInit => CountInv
  BY CountInvInit
<1>2. DownloadInv /\ DownloadInv' /\ CountInv /\ [DownloadNext]_downloadVars => CountInv'
  BY CountInvStep
<1>3. DownloadInv /\ CountInv => WrittenAsCounted
  <2> SUFFICES ASSUME DownloadInv, CountInv PROVE WrittenAsCounted
    OBVIOUS
  <2>1. ASSUME calls = 1, queue = <<>>,
               NEW n \in Listed, NEW k \in Kinds, NEW t \in Times
        PROVE  catalog[n][Series(k)][t]
                 <= Cardinality(Over(n, Series(k))) * MostWrites(t)
    <3>1. Share(n, Series(k), t) = 0
      BY <2>1 DEF DownloadInv, OwnName, Share
    <3>2. catalog[n][Series(k)][t]
            <= Cardinality(Over(n, Series(k))) * MostWrites(t) + Share(n, Series(k), t)
      BY <2>1 DEF CountInv, FirstCall, AllSeries
    <3>3. Cardinality(Over(n, Series(k))) * MostWrites(t) \in Nat
      BY OverFinite, MostWritesType DEF DownloadInv
    <3> QED BY <3>1, <3>2, <3>3
  <2> QED BY <2>1 DEF WrittenAsCounted, CountInv, Counted, CountedAs
<1> QED BY <1>1, <1>2, <1>3, DownloadInvariant, PTL DEF DownloadSpec

=============================================================================
