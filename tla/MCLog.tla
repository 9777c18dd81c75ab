--------------------------------- MODULE MCLog ---------------------------------
(* An instance of Log for TLC. *)
EXTENDS Log, TLC

\* No file; nothing of use, with an unknown level and a comment; a key twice, first
\* without a value; a log file that cannot be opened.
MCConfigs ==
    { NoFile,
      << <<"#log", "DEBUG">>, <<>>, <<"log", "loud">> >>,
      << <<"log">>, <<"log", "ERROR", "DEBUG">>, <<"log", "DEBUG">>, <<"server_log", "a.log">> >>,
      << <<"server_log", "/">>, <<"log", "debug">> >> }

\* Of the words above only one is not in capitals and yet a level.
MCUpperCase(word) == IF word = "debug" THEN "DEBUG" ELSE word

WorkerSymmetry == Permutations(Workers)
================================================================================
