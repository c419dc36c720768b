---------------------------- MODULE MCCrashExports ----------------------------
(* Constants of the TLC runs of CrashExports: two servers, of which one has *)
(* its own export path, and the two paths of the globs of run.go's default. *)
EXTENDS CrashExports, TLC

CONSTANTS s1, s2, tmp, stamped, own

TwoServers == {s1, s2}
Swaps == Permutations(TwoServers)
ThreePaths == {tmp, stamped, own}

\* tmp has {timestamp} in it: its glob matches what another server calls stamped.
TmpMatches == tmp :> {tmp, stamped} @@ stamped :> {stamped} @@ own :> {own}

\* A default pattern, one of the registry, and one that does not compile.
OnePattern == {"password"}
TwoMatch == "password" :> {"word"} @@ "token" :> {"key"}
TwoWords == {"word", "key"}

Base == [command |-> "server", recorder |-> TRUE]
SomeEntries == {With(Base), With(Base @@ [buffer_size |-> 1, export_path |-> own, redact_patterns |-> {"token", "("}])}
SomeLocals ==
    {NoConfig,
     With([export_path |-> stamped, request_bodies |-> TRUE, response_bodies |-> TRUE]),
     With([max_restarts |-> -1])}

\* What passes: every one of its parts that is not said to be absent has both texts.
Passes(from, parts) ==
    [from |-> from, single |-> parts # {},
     text |-> [part \in Parts |-> IF part \in parts THEN TwoWords ELSE {}]]
Call == Passes("client", {"method", "id", "params"})
Result == Passes("child", {"id", "result"})
Failure == Passes("child", {"id", "message", "data"})
Batch == Passes("child", {})
OneEach == {Call, Result, Failure, Batch}
ChildParams == {Passes("child", {"method", "params"})}
===============================================================================
