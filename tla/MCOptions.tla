----------------------------- MODULE MCOptions -----------------------------
(* Options for TLC: a command line of words that show every form.           *)
EXTENDS Options

L(o, a) == [opt |-> o, arg |-> a]
S(o, r) == [opt |-> o, after |-> r]

MCLong ==
  ("--pid" :> L("pid", "")) @@ ("--disable" :> L("disable", ""))
  @@ ("--level=info" :> L("level", "info"))
  @@ ("--level=cpumon:debug" :> L("level", "cpumon:debug"))
  @@ ("--units=1" :> L("units", "1")) @@ ("--help" :> L("help", ""))

MCShort ==
  ("-m" :> <<S("fast_memmon", "")>>)
  @@ ("-mp7" :> <<S("fast_memmon", "p7"), S("pid", "7")>>)
  @@ ("-xl" :> <<S("x", "l"), S("level", "")>>)

MCPlain == {"1", "cpumon", "wallmon", "prog"}
MCNumber == ("1" :> 1) @@ ("7" :> 7)

MCLevelWord ==
  ("info" :> [mon |-> "", level |-> "info"])
  @@ ("cpumon:debug" :> [mon |-> "cpumon", level |-> "debug"])

MCEnvs == {<<>>, <<"memmon">>, <<"wallmon", ",", "nvidiamon">>,
           <<"cpumon", "memmon", ",", ",", "memmon">>}
=============================================================================
