----------------------------- MODULE MessagePath -----------------------------
(***************************************************************************)
(* The way of a message through `hydra run`: the pipes at both ends, the   *)
(* readers (readLoop, with the transport's buffer and the sanitizer), and  *)
(* the loop, which writes to either end and does nothing else meanwhile.   *)
(*                                                                         *)
(* hydra run hands a running proxy no file changes and no tools of its     *)
(* own, so that what the loop does with a message is to forward it; the    *)
(* other states of the proxy are the subject of Proxy.  Nobody calls       *)
(* DetectProtocol: both transports read and write lines.                   *)
(*                                                                         *)
(* A line is told by its place in what its end has written, and has a      *)
(* kind: "rpc" is a JSON-RPC message, "batch" an array of them, "array" an *)
(* array of something else, "object" another JSON value, "text" anything   *)
(* else, "blank" white space, and "glued" a line in which a message        *)
(* follows, or is followed by, text that had no newline, as the messages   *)
(* of an LSP server are by the next one's header.                          *)
(***************************************************************************)
EXTENDS Integers, Sequences, Selection

CONSTANTS
    Sends,          \* for each end, the kinds of line it writes
    ReadsAhead,     \* the ends that go on reading while they have a line to write
    PipeMax,        \* bound: lines that a pipe holds
    MaxLines        \* bound: the number of lines that each end writes

Ends == {"client", "child"}
Other(e) == IF e = "client" THEN "child" ELSE "client"
Kinds == {"rpc", "batch", "array", "object", "text", "blank", "glued"}

ASSUME PathConstants ==
    /\ Sends \in [Ends -> SUBSET Kinds]
    /\ ReadsAhead \subseteq Ends
    /\ PipeMax \in Nat \ {0} /\ MaxLines \in [Ends -> Nat]

Lines == UNION {[n : 1 .. MaxLines[e], kind : Kinds] : e \in Ends}

VARIABLES
    life,       \* an end: "open"; "quiet", its output closed; or "gone"
    busy,       \* the ends that have a line to write
    wrote,      \* history: the lines each end wrote
    got,        \* history: the lines each end read
    input,      \* the pipes from the ends to hydra
    output,     \* the pipes from hydra to the ends
    reaped,     \* the child's monitor has called Wait
    buffer,     \* t.reader of each transport: lines read from the pipe
    offer,      \* what each readLoop has for the loop, if anything
    reader,     \* each readLoop: "reading" or "done"
    errs,       \* errCh
    writing,    \* what the loop is writing, if anything
    ended       \* how the loop ended, and the program with it; or "no"

endVars == <<life, busy, wrote, got>>
pipeVars == <<input, output, reaped>>
readVars == <<buffer, offer, reader, errs>>
loopVars == <<writing, ended>>
vars == <<endVars, pipeVars, readVars, loopVars>>

Streams == [Ends -> Seq(Lines)]
Nothing == [e \in Ends |-> <<>>]

Init ==
    /\ life = [e \in Ends |-> "open"] /\ busy = {}
    /\ wrote = Nothing /\ got = Nothing
    /\ input = Nothing /\ output = Nothing /\ reaped = FALSE
    /\ buffer = Nothing /\ offer = Nothing
    /\ reader = [e \in Ends |-> "reading"] /\ errs = <<>>
    /\ writing = <<>> /\ ended = "no"

Running == ended = "no"

(***************************************************************************)
(* The two ends                                                            *)
(***************************************************************************)
BeginsLine(e) ==
    /\ Running
    /\ life[e] = "open" /\ e \notin busy /\ Len(wrote[e]) < MaxLines[e]
    /\ busy' = busy \cup {e}
    /\ UNCHANGED <<life, wrote, got, pipeVars, readVars, loopVars>>

WritesLine(e, kind) ==
    /\ Running
    /\ e \in busy /\ kind \in Sends[e]
    /\ Len(input[e]) < PipeMax
    /\ LET line == [n |-> Len(wrote[e]) + 1, kind |-> kind]
       IN  /\ wrote' = [wrote EXCEPT ![e] = Append(@, line)]
           /\ input' = [input EXCEPT ![e] = Append(@, line)]
    /\ busy' = busy \ {e}
    /\ UNCHANGED <<life, got, output, reaped, readVars, loopVars>>

ReadsLine(e) ==
    /\ life[e] # "gone" /\ output[e] # <<>>
    /\ e \in ReadsAhead \/ e \notin busy
    /\ got' = [got EXCEPT ![e] = Append(@, Head(output[e]))]
    /\ output' = [output EXCEPT ![e] = Tail(@)]
    /\ UNCHANGED <<life, busy, wrote, input, reaped, readVars, loopVars>>

ClosesOutput(e) ==
    /\ Running
    /\ life[e] = "open" /\ e \notin busy
    /\ life' = [life EXCEPT ![e] = "quiet"]
    /\ UNCHANGED <<busy, wrote, got, pipeVars, readVars, loopVars>>

\* What an end has not read goes with it, and the line it was writing.
Leaves(e) ==
    /\ Running
    /\ life[e] # "gone"
    /\ life' = [life EXCEPT ![e] = "gone"]
    /\ busy' = busy \ {e}
    /\ output' = [output EXCEPT ![e] = <<>>]
    /\ UNCHANGED <<wrote, got, input, reaped, readVars, loopVars>>

(***************************************************************************)
(* The readers                                                             *)
(***************************************************************************)
\* cmd.Wait closes hydra's end of the pipe once the child has exited, whatever the
\* pipe still holds.
Reap ==
    /\ Running
    /\ life["child"] = "gone" /\ ~reaped
    /\ reaped' = TRUE
    /\ input' = [input EXCEPT !["child"] = <<>>]
    /\ UNCHANGED <<endVars, output, readVars, loopVars>>

\* Mutated form: the buffer is filled while it still holds lines, and these are
\* overwritten.
IdleAnyBuffer(e) == Running /\ reader[e] = "reading" /\ offer[e] = <<>>

Idle(e) == Running /\ reader[e] = "reading" /\ offer[e] = <<>> /\ buffer[e] = <<>>

\* One read of the pipe takes all of it or a part.
Fill(e) ==
    /\ Idle(e)
    /\ \E k \in 1 .. Len(input[e]) :
        /\ buffer' = [buffer EXCEPT ![e] = SubSeq(input[e], 1, k)]
        /\ input' = [input EXCEPT ![e] = SubSeq(@, k + 1, Len(@))]
    /\ UNCHANGED <<endVars, output, reaped, offer, reader, errs, loopVars>>

Classify(kind) ==
    CASE kind = "blank" -> "empty"
      [] kind \in {"rpc", "batch", "array"} -> "jsonrpc"
      [] OTHER -> "pollution"

Passes(line) == Classify(line.kind) = "jsonrpc"
Messages == {line \in Lines : Passes(line)}

\* A line that is no message is discarded; one that is, is offered.
TakeLine(e) ==
    /\ Running
    /\ offer[e] = <<>> /\ buffer[e] # <<>>
    /\ offer' = [offer EXCEPT ![e] = IF Passes(Head(buffer[e])) THEN <<Head(buffer[e])>> ELSE <<>>]
    /\ buffer' = [buffer EXCEPT ![e] = Tail(@)]
    /\ UNCHANGED <<endVars, pipeVars, reader, errs, loopVars>>

\* The client's is wrapped and still is io.EOF, the child's is an error of its own.
ReadError(e) ==
    IF e = "client" THEN "client eof" ELSE IF reaped THEN "read error" ELSE "child eof"

\* Mutated form: the error does not wait for the last message to be taken.
AtEndEarly(e) ==
    /\ Running /\ reader[e] = "reading" /\ buffer[e] = <<>>
    /\ input[e] = <<>> /\ life[e] # "open"

\* The pipe is empty and nobody will write to it.
AtEnd(e) == Idle(e) /\ input[e] = <<>> /\ life[e] # "open"

ReadFails(e) ==
    /\ AtEnd(e)
    /\ errs' = Append(errs, ReadError(e))
    /\ reader' = [reader EXCEPT ![e] = "done"]
    /\ UNCHANGED <<endVars, pipeVars, buffer, offer, loopVars>>

(***************************************************************************)
(* The loop                                                                *)
(***************************************************************************)
Selecting == Running /\ writing = <<>>

Take(e) ==
    /\ Selecting
    /\ offer[e] # <<>>
    /\ writing' = <<[to |-> Other(e), line |-> Head(offer[e])]>>
    /\ offer' = [offer EXCEPT ![e] = <<>>]
    /\ UNCHANGED <<endVars, pipeVars, buffer, reader, errs, ended>>

\* A write blocks while the pipe is full.
Forward ==
    /\ Running /\ writing # <<>>
    /\ LET w == Head(writing)
       IN  /\ life[w.to] # "gone" /\ Len(output[w.to]) < PipeMax
           /\ output' = [output EXCEPT ![w.to] = Append(@, w.line)]
    /\ writing' = <<>>
    /\ UNCHANGED <<endVars, input, reaped, readVars, ended>>

\* Mutated form: a write that would block is given up.
WriteErrorWhenFull(e) == life[e] = "gone" \/ Len(output[e]) = PipeMax

\* A pipe that nobody will read; of the child's, the error is only logged.
WriteError(e) == life[e] = "gone"

ForwardFails ==
    /\ Running /\ writing # <<>>
    /\ Head(writing).to = "child" /\ WriteError("child")
    /\ writing' = <<>>
    /\ UNCHANGED <<endVars, pipeVars, readVars, ended>>

\* The program ends, and with it all that is on its way inside; a line that an end is
\* writing cannot be written any more.
EndProgram(how) ==
    /\ ended' = how
    /\ input' = Nothing /\ buffer' = Nothing /\ offer' = Nothing
    /\ errs' = <<>> /\ writing' = <<>>
    /\ busy' = {}
    /\ UNCHANGED <<life, wrote, got, output, reaped, reader>>

\* A client that is gone: SIGPIPE on standard output ends a Go program.
BrokenPipe ==
    /\ Running /\ writing # <<>>
    /\ Head(writing).to = "client" /\ WriteError("client")
    /\ EndProgram("sigpipe")

\* Mutated form: the end of the client is not taken for the end.
TakeErrorOfChild ==
    /\ Selecting
    /\ errs # <<>>
    /\ \/ Head(errs) # "client eof" /\ EndProgram(Head(errs))
       \/ Head(errs) = "client eof" /\ errs' = Tail(errs)
          /\ UNCHANGED <<endVars, pipeVars, buffer, offer, reader, loopVars>>

TakeError ==
    /\ Selecting
    /\ errs # <<>>
    /\ EndProgram(Head(errs))

\* Nothing is under way, or the program is over and its last lines are read.
Rest ==
    /\ \A e \in Ends : output[e] = <<>> /\ input[e] = <<>> /\ buffer[e] = <<>> /\ offer[e] = <<>>
    /\ writing = <<>>
    /\ Running => \A e \in Ends : Len(wrote[e]) = MaxLines[e]
    /\ UNCHANGED vars

ReaderStep(e) == Fill(e) \/ TakeLine(e) \/ ReadFails(e)
LoopStep == (\E e \in Ends : Take(e)) \/ Forward \/ ForwardFails \/ BrokenPipe \/ TakeError
Writes(e) == \E kind \in Kinds : WritesLine(e, kind)

Next ==
    \/ \E e \in Ends : BeginsLine(e) \/ Writes(e) \/ ReadsLine(e) \/ ClosesOutput(e) \/ Leaves(e)
    \/ Reap
    \/ \E e \in Ends : ReaderStep(e)
    \/ LoopStep
    \/ Rest

Spec == Init /\ [][Next]_vars

\* The goroutines run, a line begun is ended when the pipe has room, an end reads
\* what there is, and a child that is gone is reaped.  Nobody has to begin a line,
\* to close its output or to leave.
Fairness ==
    /\ \A e \in Ends : WF_vars(ReaderStep(e)) /\ WF_vars(Writes(e)) /\ WF_vars(ReadsLine(e))
    /\ WF_vars(LoopStep)
    /\ WF_vars(Reap)

FairSpec == Spec /\ Fairness
-------------------------------------------------------------------------------
\* Every variable has its type, the pipes and the error channel their bounds.
EndsOK ==
    /\ life \in [Ends -> {"open", "quiet", "gone"}] /\ busy \subseteq Ends
    /\ wrote \in Streams /\ got \in Streams
PipesOK ==
    /\ input \in Streams /\ output \in Streams /\ reaped \in BOOLEAN
    /\ \A e \in Ends : Len(input[e]) <= PipeMax /\ Len(output[e]) <= PipeMax
ReadersOK ==
    /\ buffer \in Streams /\ offer \in Streams /\ \A e \in Ends : Len(offer[e]) <= 1
    /\ reader \in [Ends -> {"reading", "done"}]
    /\ errs \in Seq({"client eof", "child eof", "read error"}) /\ Len(errs) <= 2
LoopOK ==
    /\ writing \in {<<>>} \cup {<<w>> : w \in [to : Ends, line : Lines]}
    /\ ended \in {"no", "client eof", "child eof", "read error", "sigpipe"}
TypeOK == EndsOK /\ PipesOK /\ ReadersOK /\ LoopOK

MessagesOf(s) == Selected(s, Messages)

\* What is on its way from e to the other end, first what is nearest to it.
WritingTo(e) == IF writing # <<>> /\ Head(writing).to = e THEN <<Head(writing).line>> ELSE <<>>
OnItsWay(e) ==
    IF life[Other(e)] = "gone" THEN <<>>
    ELSE output[Other(e)] \o WritingTo(Other(e)) \o offer[e] \o MessagesOf(buffer[e]) \o MessagesOf(input[e])

BrokenLines == {e \in Ends : ~Running \/ life[e] = "gone" \/ life[Other(e)] = "gone"}

Flow == [e \in Ends |-> OnItsWay(e)]

R == INSTANCE Relay WITH flow <- Flow, heard <- got, broken <- BrokenLines

\* Between the two ends hydra run is a relay: messages, all of them and nothing else,
\* in order, once; when an end leaves or the program ends, only the last of
\* them are missing (proxy.go:171-208, forwarding.go:16-35).
IsARelay == R!Spec

\* A loop that ends at an end of file has forwarded all that was said before it: the
\* error of a reader never overtakes its messages (proxy.go:149-163, 183-205).
EofComesLast ==
    \A e \in Ends :
        /\ ended = (IF e = "client" THEN "client eof" ELSE "child eof")
        /\ life[Other(e)] # "gone"
        => MessagesOf(wrote[e]) = got[Other(e)] \o output[Other(e)]

\* Lines that have a message in them.
Carries(line) == line.kind \in {"rpc", "batch", "glued"}

\* A message reaches the other end, unless the program or one of the ends is over
\* first: the loop does not wait for ever in a write (forwarding.go:16-35).
MessagesGetThrough ==
    \A e \in Ends : \A n \in 1 .. MaxLines[e] :
        (Len(wrote[e]) >= n /\ Carries(wrote[e][n]))
        ~> (\/ ~Running \/ life["client"] = "gone" \/ life["child"] = "gone"
            \/ \E i \in DOMAIN got[Other(e)] : got[Other(e)][i].n = n)

\* When an end has closed its output or is gone, the program ends
\* (proxy.go:156-166).
EndIsNoticed == \A e \in Ends : life[e] # "open" ~> ~Running

(***************************************************************************)
(* What the documents say and the code does not do                         *)
(***************************************************************************)
\* docs/ARCHITECTURE.md:432-443: a line that is no object with "jsonrpc" is pollution.
OnlyMessagesArrive == \A i \in DOMAIN got["client"] : Carries(got["client"][i])

\* What a child said before it exited reaches a client that stays; os/exec says of
\* StdoutPipe that Wait must not be called before all reads have completed.
LastWordsArrive ==
    /\ ended \in {"child eof", "read error"} /\ life["client"] # "gone"
    => MessagesOf(wrote["child"]) = got["client"] \o output["client"]
==============================================================================
