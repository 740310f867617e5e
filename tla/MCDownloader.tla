---------------------------- MODULE MCDownloader -----------------------------
(***************************************************************************)
(* The provider, the downloader and the historical requests for TLC: two   *)
(* listed names that differ by a lower-case suffix, and what callers make  *)
(* of them.                                                                *)
(***************************************************************************)
EXTENDS MT5Downloader

Name(stem, suffix, stemUpper, suffixUpper) ==
  [stem |-> stem, stemUpper |-> stemUpper, suffix |-> suffix,
   suffixUpper |-> suffixUpper]

XAUUSD == Name("XAUUSD", "", TRUE, TRUE)
xauusd == Name("XAUUSD", "", FALSE, TRUE)
XAUUSDm == Name("XAUUSD", "m", TRUE, FALSE)
XAUUSDM == Name("XAUUSD", "m", TRUE, TRUE)

MCNames == {XAUUSD, xauusd, XAUUSDm, XAUUSDM}
MCListed == {XAUUSD, XAUUSDm}
MCDigits == [n \in MCListed |-> IF n = XAUUSD THEN 2 ELSE 3]
MCFilters == {MCNames, {XAUUSDm}}
MCNamesAsked == {<<XAUUSD>>, <<xauusd>>, <<XAUUSDM>>, <<XAUUSDm, XAUUSD>>,
                 <<xauusd, XAUUSD>>}
MCRows == [n \in MCListed |-> IF n = XAUUSD THEN {0, 1, 3, 4} ELSE {2, 3}]
MCSpecs == {<<5, "MINUTE", "LAST">>, <<45, "MINUTE", "BID">>, <<4, "HOUR", "LAST">>,
            <<1, "HOUR", "MID">>, <<2, "DAY", "LAST">>, <<1, "SECOND", "LAST">>}

=============================================================================
