------------------------------ MODULE MCWarmUp ------------------------------
(* Instances of WarmUp for TLC: the specs, and the pods of the group.         *)
EXTENDS WarmUp

Opt(k, v) == [key |-> k, value |-> v]

\* Options that would make the mount a member, one that is invalid, one that is
\* there already, and one of the user's own.
Daring ==
  << Opt("cache-size", "100"), Opt("no-sharing", ""), Opt("cache-group", "other"),
     Opt("buffer-size", "9"), Opt("max-uploads", "2"), Opt("max-uploads", "3") >>

WuSpecOf(policy, ttl, secret, image, mountOpts, from) ==
  [ policy |-> policy, ttl |-> ttl, cacheGroup |-> "group", secret |-> secret, image |-> image,
    mountOpts |-> mountOpts, targets |-> {}, from |-> from, options |-> {}, env |-> << >>,
    pod |-> << >>, nodes |-> None, backoffLimit |-> None, schedule |-> "daily", suspend |-> FALSE ]

\* A run with statistics or without them, a schedule, and a run with a secret, a
\* community image and a list of files.
MCSpecOf(s) ==
  CASE s = "once" -> WuSpecOf("Once", TRUE, None, None, Daring, None)
    [] s = "cron" -> WuSpecOf("Cron", FALSE, None, None, Daring, None)
    [] s = "secret" ->
         WuSpecOf("Once", FALSE, [initconfig |-> FALSE, env |-> << >>, volumes |-> {}],
                  [tag |-> "ce", version |-> <<1, 3, 0>>], <<>>,
                  [filePath |-> None, files |-> {}, configMap |-> "list"])

WorkerOf(version, buffer) ==
  [ image |-> [tag |-> "ee", version |-> version], auth |-> "auth", env |-> << >>, volumes |-> {},
    pod |-> [f \in PodFields |-> "worker"],
    mountOpts |-> << Opt("cache-group", "group"), Opt("cache-size", "10"), Opt("group-weight", "0"),
                     Opt("buffer-size", buffer), Opt("foreground", None) >> ]

MCPodOf(p) ==
  CASE p = "w1" -> WorkerOf(<<5, 2, 11>>, "1")
    [] p = "w2" -> WorkerOf(<<5, 2, 10>>, "2")
=============================================================================
