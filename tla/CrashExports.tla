---------------------------- MODULE CrashExports -----------------------------
(***************************************************************************)
(* The recorder of each running server (src/internal/recorder), the file   *)
(* it exports when the server crashes, and the commands hydra export and   *)
(* hydra logs that show it (src/internal/cli/export.go, logs.go).          *)
(*                                                                         *)
(* The proxy's goroutine is the only one that records, and the one that    *)
(* exports when its loop ends with an error.  Of a message the model keeps *)
(* its number, who sent it, and the texts in each of its parts; a part     *)
(* that is absent has none.  The texts are the pieces that the patterns    *)
(* tell apart: a pattern matches a text as a whole or not at all, and      *)
(* what is put in place of a match is not followed.                        *)
(***************************************************************************)
EXTENDS ServerConfigs, Sequences, FiniteSets

CONSTANTS
    Servers,
    Entries,        \* what the registry may have of a server
    Locals,         \* what its directory may have as hydra.json
    Glob,           \* Glob[p]: the paths that p matches with "*" for {timestamp}
    NoFile,
    Words,          \* the texts that messages are made of
    Matches,        \* of each pattern that compiles, the texts it matches
    Traffic,        \* what there is to pass: who sends it, whether it is one message, its texts
    MaxMessages,    \* bound: messages in a behaviour
    MaxCrashes      \* bound: crashes in a behaviour

ASSUME ExportConstants ==
    /\ Glob \in [Paths -> SUBSET Paths]
    /\ \A p \in Paths : p \in Glob[p]
    /\ \A e \in Entries \cup (Locals \ {NoConfig}) : IsConfig(e)
    /\ \A p \in DOMAIN Matches : Matches[p] \subseteq Words
    /\ Traffic \subseteq [from : {"client", "child"}, single : BOOLEAN,
                          text : [{"method", "id", "params", "result", "message", "data"} -> SUBSET Words]]
    /\ MaxMessages \in Nat /\ MaxCrashes \in Nat

VARIABLES
    entry,          \* the registry's entry of each server
    local,          \* the override in its directory
    running,        \* the merged configuration of a running server
    buffer,         \* r.buffer
    heard,          \* history: how much has passed in the run so far
    single,         \* history: the numbers of what was one message
    file,           \* the exports by path, each with its place in the order of writing
    crashes,        \* history: the crashes so far
    last,           \* history: the last export that each server has written
    shown,          \* what hydra export printed last of each server
    passed          \* bound: messages so far, of all the runs

confVars == <<entry, local>>
histVars == <<heard, single>>
vars == <<confVars, running, buffer, histVars, file, crashes, last, shown, passed>>

\* The message and the data are those of an error.
Parts == {"method", "id", "params", "result", "message", "data"}
Messages == [no : 1 .. MaxMessages, from : {"client", "child"}, text : [Parts -> SUBSET Words]]
Export == [by : Servers, entries : Seq(Messages), single : SUBSET (1 .. MaxMessages), at : 1 .. MaxCrashes]

Init ==
    /\ entry \in [Servers -> Entries] /\ local \in [Servers -> Locals]
    /\ running = [s \in Servers |-> NoConfig]
    /\ buffer = [s \in Servers |-> <<>>]
    /\ heard = [s \in Servers |-> 0] /\ single = [s \in Servers |-> {}]
    /\ file = [p \in Paths |-> NoFile]
    /\ crashes = 0 /\ passed = 0
    /\ last = [s \in Servers |-> NoFile] /\ shown = [s \in Servers |-> NoFile]

Running(s) == running[s] # NoConfig

\* hydra run refuses a configuration that is not valid.
Start(s) ==
    /\ ~Running(s)
    /\ Validate(Merged(entry[s], local[s]))
    /\ running' = [running EXCEPT ![s] = Merged(entry[s], local[s])]
    /\ UNCHANGED <<confVars, buffer, histVars, file, crashes, last, shown, passed>>

\* The process is gone, and what it had in memory.
Gone(s) ==
    /\ running' = [running EXCEPT ![s] = NoConfig]
    /\ buffer' = [buffer EXCEPT ![s] = <<>>]
    /\ heard' = [heard EXCEPT ![s] = 0]
    /\ single' = [single EXCEPT ![s] = {}]

\* What the client sends is recorded as a request, what the child sends as a
\* response, whatever it is; each loses only the parts that its kind should have.
Dropped(cfg, m) ==
    {part \in Parts :
        \/ m.from = "client" /\ ~cfg["request_bodies"] /\ part = "params"
        \/ m.from = "child" /\ ~cfg["response_bodies"] /\ part \in {"result", "data"}}

applyBodyPolicy(cfg, m) ==
    [m EXCEPT !.text = [part \in Parts |-> IF part \in Dropped(cfg, m) THEN {} ELSE m.text[part]]]

\* Mutated form: the newest goes when the buffer is full.
DropNewest(b, size) == IF Len(b) >= size THEN SubSeq(b, 1, Len(b) - 1) ELSE b

MakeRoom(b, size) == IF Len(b) >= size THEN Tail(b) ELSE b

record(s, m) ==
    LET cfg == running[s]
    IN  buffer' = [buffer EXCEPT ![s] =
            IF cfg["recorder"]
            THEN Append(MakeRoom(buffer[s], cfg["buffer_size"]), applyBodyPolicy(cfg, m))
            ELSE buffer[s]]

\* What is not one message, a batch or one with a field of another type, is forwarded
\* like any other and not recorded.
Message(s, m) ==
    /\ Running(s)
    /\ passed < MaxMessages /\ passed' = passed + 1
    /\ heard' = [heard EXCEPT ![s] = heard[s] + 1]
    /\ \/ /\ m.single
          /\ record(s, [no |-> heard[s] + 1, from |-> m.from, text |-> m.text])
          /\ single' = [single EXCEPT ![s] = single[s] \cup {heard[s] + 1}]
       \/ /\ ~m.single
          /\ UNCHANGED <<buffer, single>>
    /\ UNCHANGED <<confVars, running, file, crashes, last, shown>>

\* A pattern that does not compile is passed over.
Redact(cfg, texts) == texts \ UNION {Matches[p] : p \in cfg["redact_patterns"] \cap DOMAIN Matches}

\* The method and the id are exported as they are.
Redacted == {"params", "result", "message", "data"}

prepareForExport(cfg, m) ==
    LET kept == applyBodyPolicy(cfg, m)
    IN  [kept EXCEPT !.text =
            [part \in Parts |-> IF part \in Redacted THEN Redact(cfg, kept.text[part]) ELSE kept.text[part]]]

Exported(s) ==
    [by |-> s, entries |-> [i \in DOMAIN buffer[s] |-> prepareForExport(running[s], buffer[s][i])],
     single |-> single[s], at |-> crashes + 1]

\* Mutated form: the path is not handed on to the proxy.
ExportsToDefault(cfg) == DefaultPath

ExportPath(cfg) == cfg["export_path"]

Exports(cfg) == cfg["recorder"] /\ cfg["export_on_crash"]

\* The child ended.  An export may fail: a redacted body need not be JSON any
\* more, a path not be writable; the error is dropped and no file written.
Crash(s) ==
    /\ Running(s) /\ crashes < MaxCrashes
    /\ crashes' = crashes + 1
    /\ Gone(s)
    /\ \/ /\ Exports(running[s])
          /\ file' = [file EXCEPT ![ExportPath(running[s])] = Exported(s)]
          /\ last' = [last EXCEPT ![s] = Exported(s)]
       \/ UNCHANGED <<file, last>>
    /\ UNCHANGED <<confVars, shown, passed>>

\* The client closed its end, or hydra was killed.
Ends(s) ==
    /\ Running(s)
    /\ Gone(s)
    /\ UNCHANGED <<confVars, file, crashes, last, shown, passed>>

\* The newest of the files that match the path in the server's entry.
Latest(s) ==
    LET matches == {p \in Glob[MergedEntry(entry[s])["export_path"]] : file[p] # NoFile}
    IN  {p \in matches : \A q \in matches : file[p].at >= file[q].at}

\* hydra export; hydra logs takes the same file and prints less of it.
ExportCommand(s) ==
    /\ MergedEntry(entry[s])["export_on_crash"]
    /\ \E p \in Latest(s) : shown' = [shown EXCEPT ![s] = file[p]]
    /\ UNCHANGED <<confVars, running, buffer, histVars, file, crashes, last, passed>>

Next ==
    \E s \in Servers :
        \/ Start(s) \/ Crash(s) \/ Ends(s) \/ ExportCommand(s)
        \/ \E m \in Traffic : Message(s, m)

Spec == Init /\ [][Next]_vars
-------------------------------------------------------------------------------
\* The types; a server that runs has a valid configuration, and its buffer keeps to
\* its size (run.go:104-106, recorder.go:135-137).
TypeOK ==
    /\ \A s \in Servers : Running(s) => Validate(running[s]) /\ Len(buffer[s]) <= running[s]["buffer_size"]
    /\ buffer \in [Servers -> Seq(Messages)]
    /\ heard \in [Servers -> 0 .. MaxMessages] /\ single \in [Servers -> SUBSET (1 .. MaxMessages)]
    /\ file \in [Paths -> Export \cup {NoFile}] /\ crashes \in 0 .. MaxCrashes
    /\ last \in [Servers -> Export \cup {NoFile}] /\ shown \in [Servers -> Export \cup {NoFile}]
    /\ passed \in 0 .. MaxMessages

\* b has the last of the messages with the numbers N, in order and without a gap, and as
\* many as there are or fit in.
IsTail(b, N, size) ==
    /\ Len(b) <= size
    /\ \A i, j \in DOMAIN b : i < j => b[i].no < b[j].no
    /\ \A i \in DOMAIN b : b[i].no \in N
    /\ \A k \in N : (\E i \in DOMAIN b : b[i].no = k) \/ (Len(b) = size /\ \A i \in DOMAIN b : k < b[i].no)

\* Of what passed as one message, an export holds the last before the crash, each of them
\* once and in order, and as many as its run has had or the buffer takes, whatever batches
\* passed in between (recording.go:15-24, recorder.go:101-108, 135-144).
ExportIsTheTail ==
    \A p \in Paths : file[p] # NoFile =>
        IsTail(file[p].entries, file[p].single,
               Merged(entry[file[p].by], local[file[p].by])["buffer_size"])

\* The patterns in force: those of the override, if it has any, or else of the registry,
\* or else the default ones.
OfOverride(s) == IF local[s] = NoConfig THEN {} ELSE local[s]["redact_patterns"]
InForce(s) ==
    CASE OfOverride(s) # {} -> OfOverride(s)
      [] OfOverride(s) = {} /\ entry[s]["redact_patterns"] # {} -> entry[s]["redact_patterns"]
      [] OTHER -> Patterns

Clean(x, parts) ==
    \A i \in DOMAIN x.entries, part \in parts, p \in InForce(x.by) \cap DOMAIN Matches :
        x.entries[i].text[part] \cap Matches[p] = {}

\* Outside of its method and id, no message in a file or on a screen has what a pattern in
\* force matches, if that pattern compiles: no merge of the files takes a pattern away, and
\* the export forgets none of the bodies (loader.go:265-267, recorder.go:174-196,
\* redact.go:23-37).
NoSecretIsExported ==
    \A x \in {file[p] : p \in Paths} \cup {shown[s] : s \in Servers} :
        x # NoFile => Clean(x, Parts \ {"method", "id"})

\* hydra export shows of a server, which has no override and a path to itself, an
\* export of that server, and never an older one after a newer one (export.go:55-89).
HasOwnPath(s) ==
    \A t \in Servers \ {s} :
        MergedEntry(entry[s])["export_path"] # Merged(entry[t], local[t])["export_path"]
        /\ Merged(entry[t], local[t])["export_path"] \notin Glob[MergedEntry(entry[s])["export_path"]]

ShownIsOwn ==
    [][\A s \in Servers :
        local[s] = NoConfig /\ HasOwnPath(s) /\ shown'[s] # shown[s] => shown'[s] = last[s]]_vars

(***************************************************************************)
(* What the documents say and the code does not do                         *)
(***************************************************************************)
\* docs/CONFIGURATION.md:188-189: without include_request_bodies and
\* include_response_bodies no body is in an export.
BodiesStayOut ==
    \A p \in Paths : file[p] # NoFile =>
        LET cfg == Merged(entry[file[p].by], local[file[p].by])
        IN  ~cfg["request_bodies"] /\ ~cfg["response_bodies"] =>
                \A i \in DOMAIN file[p].entries, part \in {"params", "result", "data"} :
                    file[p].entries[i].text[part] = {}

\* docs/CONFIGURATION.md:187: the buffer holds messages, as many as buffer_size says.
BufferHoldsWhatPassed ==
    \A s \in Servers : Running(s) /\ running[s]["recorder"] =>
        Len(buffer[s]) = heard[s] \/ Len(buffer[s]) = running[s]["buffer_size"]

\* docs/SECURITY.md:28-31, 63-67: what a pattern matches is redacted in the recorder's
\* exports.
NothingMatchesInAnExport == \A p \in Paths : file[p] # NoFile => Clean(file[p], Parts)

\* src/internal/cli/export.go:20: hydra export exports the crash dump of the server it names.
ShownIsOfThatServer == \A s \in Servers : shown[s] # NoFile => shown[s].by = s
===============================================================================
