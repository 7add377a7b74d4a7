----------------------------- MODULE MC_Logger -----------------------------
(* Two loggers, "n1" and "root" (in std::string order), and YAML values of  *)
(* "logs" that add n1, change its level, formatter and appenders (one of   *)
(* an unknown type), configure root, and remove everything.  Formats are   *)
(* "%m" (parses), "%x" (an unknown directive: isError) and a default      *)
(* pattern distinct from both.                                             *)
EXTENDS Logger, TLC

MCAlpha == {"m", "d", "x"}
MCNames == {<<"m">>, <<"d">>}
FmtM == <<Directive(<<"m">>, FALSE, <<>>)>>
FmtBad == <<Directive(<<"x">>, FALSE, <<>>)>>
MCDefaultFmt == <<Directive(<<"d">>, TRUE, <<"%", "x">>), Text(<<":">>),
                  Directive(<<"m">>, FALSE, <<>>)>>

Stdout(f) == [type |-> "StdoutLogAppender", fmt |-> f]
File(f) == [type |-> "FileLogAppender", fmt |-> f]

N1Info == [level |-> "info", fmt |-> FmtM, apps |-> <<Stdout(<<>>)>>]
N1Warn == [level |-> "WARN", fmt |-> FmtBad,
           apps |-> <<File(FmtM), [type |-> "Syslog", fmt |-> <<>>], Stdout(<<>>)>>]
RootAny == [level |-> "", fmt |-> <<>>, apps |-> <<Stdout(FmtM)>>]

MCNameOrder == <<"n1", "root">>
MCConfigs ==
    { ("n1" :> N1Info), ("n1" :> N1Warn),
      ("n1" :> N1Info) @@ ("root" :> RootAny), [n \in {} |-> N1Info] }
MCMsgLevels == {INFO, ERROR}
=============================================================================
