----------------------------- MODULE MT5Provider -----------------------------
(***************************************************************************)
(* MT5InstrumentProvider (mt5connect/providers.py): the cache of           *)
(* instruments that both clients and the downloader look names up in.      *)
(*                                                                         *)
(* The loading methods await nothing, so each is one step; the answers of  *)
(* symbol_select() and symbol_info() differ from call to call.  Instruments *)
(* are registered under the broker's own casing and looked up under the    *)
(* upper-cased name.                                                       *)
(***************************************************************************)
EXTENDS MT5Parsing, Sequences, FiniteSets

CONSTANTS
  Names,     \* names a caller may pass
  Listed,    \* the names symbols_get() lists
  Digits,    \* symbol_info().digits of each listed name
  Filters    \* the filters load_all_async() may be given

ASSUME ProviderAssumption ==
  /\ Names \subseteq NameType
  /\ Listed \subseteq Names
  /\ \A n \in Names : Upper(n) \in Names
  /\ Digits \in [Listed -> Nat]
  /\ Filters \subseteq SUBSET Names

VARIABLES
  link,      \* ensure_connected() passes
  cache,     \* the loaded instruments, by name
  failed,    \* self._failed_symbols
  wanted     \* history: the filter of the last full load, until a download

providerVars == <<link, cache, failed, wanted>>

ProviderInit ==
  /\ link = TRUE
  /\ cache = [n \in {} |-> {}]
  /\ failed = {}
  /\ wanted = {}

Loaded == DOMAIN cache

(* self.add() *)
WithAdded(added) ==
  [n \in Loaded \cup added |->
     IF n \in added THEN parse_symbol_info(n, Digits[n]) ELSE cache[n]]

LinkChanges ==
  /\ link' = ~link
  /\ UNCHANGED <<cache, failed, wanted>>

-----------------------------------------------------------------------------
(* load_symbol(): selected, described and parsed. *)
LoadSymbol(n) ==
  /\ link
  /\ n \in Listed
  /\ \E info \in InfoType : Parses(n, info)
  /\ cache' = WithAdded({n})

(* load_symbol() raises: no link, no such name, no description just now,   *)
(* or one that does not parse.                                             *)
LoadSymbolRaises(n) == UNCHANGED cache

(* load_ids_async(): one name after the other, up to the first that raises. *)
LoadIds(ids) ==
  /\ link
  /\ \E upto \in 0..Len(ids) :
       LET added == {ids[i] : i \in 1..upto} IN
       /\ added \subseteq Listed
       /\ cache' = WithAdded(added)
  /\ UNCHANGED <<link, failed, wanted>>

(* The listed names a filter lets pass: it is upper-cased, they are not. *)
Selected(filter) == {n \in Listed : n \in {Upper(f) : f \in filter}}

(* Mutant: a name that cannot be registered is skipped and not recorded. *)
RecordedNever(names, answers) == {}

(* The names a full load has to skip: symbol_info() answers None or with a *)
(* description that does not parse.                                        *)
Recorded(names, answers) == {n \in names : ~Parses(n, answers[n])}

(* load_all_async() to its end, with a filter that selects some names. *)
LoadAll(selection, filter) ==
  /\ link
  /\ \E answers \in [selection -> InfoType] :
       /\ failed' = Recorded(selection, answers)
       /\ cache' = WithAdded({n \in selection : Parses(n, answers[n])})
  /\ wanted' = filter
  /\ UNCHANGED link

(* symbols_get() answers None, or an exception of another kind than        *)
(* MT5InstrumentError ends the load: some names were dealt with by then.   *)
LoadAllRaises(selection) ==
  /\ link
  /\ \E done \in SUBSET selection :
       \E answers \in [done -> InfoType] :
         /\ failed' = Recorded(done, answers)
         /\ cache' = WithAdded({n \in done : Parses(n, answers[n])})
  /\ wanted' = {}
  /\ UNCHANGED link

-----------------------------------------------------------------------------
(* Mutant: names are looked up without the suffix of the broker. *)
LookupBare(n) == [n EXCEPT !.stemUpper = TRUE, !.suffix = "", !.suffixUpper = TRUE]

(* get_instrument() upper-cases the name it looks up. *)
Lookup(n) == Upper(n)
Found(n) == Lookup(n) \in Loaded
InstrumentOf(n) == cache[Lookup(n)]

(* Without a filter everything listed is loaded. *)
ProviderStep ==
  \/ LinkChanges
  \/ LoadAll(Listed, {}) \/ LoadAllRaises(Listed)
  \/ \E filter \in Filters :
       LoadAll(Selected(filter), filter) \/ LoadAllRaises(Selected(filter))
  \/ \E a, b \in Names : LoadIds(<<a, b>>)

-----------------------------------------------------------------------------
(* Correctness. *)

(* Every variable keeps its type; only listed names are ever loaded. *)
ProviderTypeOK ==
  /\ link \in BOOLEAN
  /\ Loaded \subseteq Listed
  /\ failed \subseteq Listed
  /\ wanted \subseteq Names

(* A name asked for in a filter is loaded, listed among the failures, not  *)
(* known to the broker, or not in upper case (the filter is upper-cased,   *)
(* the broker's names are not): no other name is lost silently.            *)
AskedIsAccounted ==
  \A n \in wanted \cap Listed : n \in Loaded \cup failed \/ Upper(n) # n

=============================================================================
