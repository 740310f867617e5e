----------------------------- MODULE MT5Parsing ------------------------------
(***************************************************************************)
(* The conversions of mt5connect: what a symbol name says of its           *)
(* instrument (constants.py, parsing.py), and how the bar specifications   *)
(* of NautilusTrader and the timeframe integers of MetaTrader 5 stand for  *)
(* each other (parsing.py, data.py).                                       *)
(*                                                                         *)
(* A name is taken apart instead of spelled: the stem, the suffix the      *)
(* broker adds, and whether each is written in upper case.                 *)
(***************************************************************************)
EXTENDS Integers

(* constants.py: the suffixes, and members of each set of symbols. *)
BROKER_SYMBOL_SUFFIXES == {"m", "c", "_sb", ".", "_raw", "_ecn", "_pro"}
FX_SYMBOLS == {"EURUSD", "GBPUSD"}
METAL_SYMBOLS == {"XAUUSD", "XAGUSD"}
ENERGY_SYMBOLS == {"USOIL"}
INDEX_SYMBOLS == {"US500", "USTEC"}
CRYPTO_SYMBOLS == {"BTCUSD", "ETHUSD"}
PRICE_PRECISION_OVERRIDES ==
  [c \in {"XAUUSD", "XAGUSD", "BTCUSD", "ETHUSD", "US500", "USTEC"} |->
     IF c \in INDEX_SYMBOLS THEN 1 ELSE IF c = "XAGUSD" THEN 3 ELSE 2]

(* A stem whose own last letter reads like a suffix, and what is left of it. *)
Chopped(stem) == IF stem = "USTEC" THEN "USTE" ELSE stem

NameType ==
  [stem : STRING, stemUpper : BOOLEAN, suffix : STRING, suffixUpper : BOOLEAN]

(* str.upper() *)
Upper(n) == [n EXCEPT !.stemUpper = TRUE, !.suffixUpper = TRUE]

(* One known suffix is cut off, whatever its case; a name without one can  *)
(* lose a letter of its own.                                               *)
normalize_symbol(n) ==
  IF n.suffix \in BROKER_SYMBOL_SUFFIXES
    THEN n.stem
    ELSE IF n.suffix = "" THEN Chopped(n.stem) ELSE "unknown"

(* The class of a canonical name. *)
ClassOf(canonical) ==
  IF canonical \in FX_SYMBOLS THEN "fx"
  ELSE IF canonical \in METAL_SYMBOLS THEN "metal"
  ELSE IF canonical \in ENERGY_SYMBOLS THEN "energy"
  ELSE IF canonical \in INDEX_SYMBOLS THEN "index"
  ELSE IF canonical \in CRYPTO_SYMBOLS THEN "crypto"
  ELSE "cfd"

detect_instrument_type(n) == ClassOf(normalize_symbol(n))

resolve_price_precision(n, digits) ==
  LET c == normalize_symbol(n) IN
  IF c \in DOMAIN PRICE_PRECISION_OVERRIDES
    THEN PRICE_PRECISION_OVERRIDES[c]
    ELSE digits

(* What symbol_info() may say of a symbol: currencies may be blank. *)
InfoType == [hasBase : BOOLEAN, hasProfit : BOOLEAN]

(* Currency pairs and crypto need both currencies, a Cfd the second only. *)
Parses(n, info) ==
  /\ info.hasProfit
  /\ detect_instrument_type(n) \in {"fx", "crypto"} => info.hasBase

(* The instrument registered for n, under n in the broker's own casing. *)
parse_symbol_info(n, digits) ==
  [id |-> n, class |-> detect_instrument_type(n),
   precision |-> resolve_price_precision(n, digits)]

-----------------------------------------------------------------------------
(* Timeframes. *)

HOUR_1 == 16385
DAY_1 == 16408
WEEK_1 == 32769
MONTH_1 == 49153

MinuteSteps == {1, 2, 3, 4, 5, 6, 10, 12, 15, 20, 30}
HourSteps == {1, 2, 3, 4, 6, 8, 12}

(* parsing.py: the specification of the bars a timeframe yields: step,      *)
(* unit, and always the price type LAST.                                    *)
MT5_TIMEFRAMES ==
  MinuteSteps \cup {16384 + h : h \in HourSteps} \cup {DAY_1, WEEK_1, MONTH_1}

BarSpec(timeframe) ==
  IF timeframe \in MinuteSteps THEN <<timeframe, "MINUTE", "LAST">>
  ELSE IF timeframe - 16384 \in HourSteps THEN <<timeframe - 16384, "HOUR", "LAST">>
  ELSE IF timeframe = WEEK_1 THEN <<1, "WEEK", "LAST">>
  ELSE IF timeframe = MONTH_1 THEN <<1, "MONTH", "LAST">>
  ELSE <<1, "DAY", "LAST">>

(* Mutant: hours are counted from the wrong base. *)
bar_spec_to_mt5_timeframeShifted(spec) ==
  CASE spec[2] = "MINUTE" -> IF spec[1] \in MinuteSteps THEN spec[1] ELSE HOUR_1
    [] spec[2] = "HOUR" -> IF spec[1] \in HourSteps THEN 16385 + spec[1] ELSE HOUR_1
    [] spec[2] = "DAY" -> DAY_1
    [] spec[2] = "WEEK" -> WEEK_1
    [] spec[2] = "MONTH" -> MONTH_1
    [] OTHER -> HOUR_1

(* data.py: the timeframe a bar type is requested with; one hour for a     *)
(* specification MetaTrader 5 does not have; the step of days, weeks and    *)
(* months is not looked at, and no price type is.                           *)
bar_spec_to_mt5_timeframe(spec) ==
  CASE spec[2] = "MINUTE" -> IF spec[1] \in MinuteSteps THEN spec[1] ELSE HOUR_1
    [] spec[2] = "HOUR" -> IF spec[1] \in HourSteps THEN 16384 + spec[1] ELSE HOUR_1
    [] spec[2] = "DAY" -> DAY_1
    [] spec[2] = "WEEK" -> WEEK_1
    [] spec[2] = "MONTH" -> MONTH_1
    [] OTHER -> HOUR_1

=============================================================================
