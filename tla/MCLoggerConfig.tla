--------------------------- MODULE MCLoggerConfig ---------------------------
(***************************************************************************)
(* Command lines and property values for LoggerConfig: every mode the code *)
(* or its comments name, an unknown one, a path, an unusable argument; the *)
(* property with plain keywords and with mask paths that contain keywords. *)
(***************************************************************************)
EXTENDS LoggerConfig

Arg(key, value) == [key |-> key, value |-> value]

MCArguments ==
  {Arg("mode", m) : m \in {"boot", "boot_hung_monitor", "ota", "recovery",
                           "poweroffcharger", "poweroffcharge", "normal"}}
    \cup {Arg("path", "/data/local/tmp"), Arg("other", "x"), Arg("none", "")}

MCTokens == {"kmsg", "tz", "logcat", "modem", "net", "bugreport",
             "/data/modem.cfg", "/data/my.cfg", "net/mask.cfg"}

MCKeywords == [t \in MCTokens |->
  CASE t = "/data/modem.cfg" -> {"modem", "cfg"}
    [] t = "/data/my.cfg" -> {"cfg"}
    [] t = "net/mask.cfg" -> {"net", "cfg"}
    [] OTHER -> {t}]

MCMaskPaths == {"/data/modem.cfg", "/data/my.cfg"}

MCProperties ==
  {<<"kmsg", "tz", "logcat", "modem", "net", "bugreport">>,
   <<"logcat">>,
   <<"/data/my.cfg", "/data/modem.cfg">>,
   <<"kmsg", "modem", "net/mask.cfg">>,
   <<"bugreport", "/data/my.cfg">>}

=============================================================================
