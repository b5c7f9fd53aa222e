----------------------------- MODULE HgProtocol ------------------------------
(***************************************************************************)
(* The two byte streams between the service and one `hg serve --cmdserver  *)
(* pipe` (patch/hgprotocol.cpp, called from patch/hgprocess.cpp).  What hg *)
(* writes arrives cut in any way; feedStdOutput joins it and looks for the *)
(* hello message or one result.  A command is written when hg has started  *)
(* and the command before has its result.                                  *)
(*                                                                         *)
(* Bytes are numbers, and channels their ASCII codes.  A length is four    *)
(* digits of base Radix, and stays far below 2^32, where the addition in   *)
(* line 102 would wrap.                                                    *)
(***************************************************************************)
EXTENDS Naturals, Sequences, SequencesExt

CONSTANTS
  Radix,        \* of the digits of a length: 256 in the code
  Hellos,       \* the messages hg may begin with: sequences of fields
  Commands,     \* the commands: sequences of strings of bytes
  Answers,      \* hg's answers to a command: sequences of frames
  MaxCommands,  \* BOUND on the commands given to one hg
  MaxResets     \* BOUND on the times hg is started anew

VARIABLES
  buffer, readState, pid,     \* HgProtocol
  started,    \* processStartCompleter has been completed
  written,    \* the commands written to this hg
  results,    \* the results feedStdOutput has returned since
  hello,      \* what hg has begun with, <<>> before it does
  stdin,      \* bytes on their way to hg
  stdout,     \* bytes on their way from hg
  received,   \* the commands hg has read
  answers,    \* what it wrote for each
  resets

protocol == <<buffer, readState, pid>>
hg == <<hello, stdin, stdout, received, answers>>
vars == <<protocol, started, written, results, hg, resets>>

-----------------------------------------------------------------------------
(* Bytes *)

o == 111   e == 101   d == 100   r == 114   I == 73   L == 76

IsUpper(channel) == channel \in 65..90

ToBigEndian(n) ==
  LET n1 == n \div Radix
      n2 == n1 \div Radix
      n3 == n2 \div Radix
  IN  <<n3 % Radix, n2 % Radix, n1 % Radix, n % Radix>>

FromBigEndian(bytes) ==
  ((bytes[1] * Radix + bytes[2]) * Radix + bytes[3]) * Radix + bytes[4]

\* The lengths that four digits hold are those below.
Limit == Radix * Radix * Radix * Radix

After(bytes, n) == SubSeq(bytes, n + 1, Len(bytes))

\* What hg writes for a frame; a required channel has a size, and no data.
Bytes(frame) ==
  <<frame.channel>>
    \o ToBigEndian(IF IsUpper(frame.channel) THEN frame.size ELSE Len(frame.data))
    \o frame.data

Wire(answer) == FlattenSeq([i \in DOMAIN answer |-> Bytes(answer[i])])

\* A command is "runcommand\n", one byte here, a length, and the arguments with
\* a null byte between them.
RunCommand == 10

Joined(args) ==
  FlattenSeq([i \in DOMAIN args |-> IF i = Len(args) THEN args[i] ELSE Append(args[i], 0)])

\* Slip: the null byte after the last argument is counted.
PrepareCommand_LastNull(args) ==
  <<RunCommand>> \o ToBigEndian(Len(Joined(args)) + 1) \o Joined(args)

PrepareCommand(args) == <<RunCommand>> \o ToBigEndian(Len(Joined(args))) \o Joined(args)

\* How hg takes the arguments apart again.
Split(data) ==
  LET split[i \in 0..Len(data)] ==
        IF i = 0 THEN <<<<>>>>
        ELSE IF data[i] = 0 THEN Append(split[i - 1], <<>>)
        ELSE [split[i - 1] EXCEPT ![Len(split[i - 1])] = Append(@, data[i])]
  IN  split[Len(data)]

\* The fields of a hello message, each one byte here.
OtherField == 1   PidField == 2   NoColon == 3

-----------------------------------------------------------------------------
(* Frames in a buffer *)

\* The length in the header at i; the header's first byte is the channel.
LengthAt(bytes, i) == FromBigEndian(SubSeq(bytes, i + 1, i + 4))

\* Slip: one byte more is waited for.
IsComplete_OffByOne(bytes, i) ==
  /\ i + 4 < Len(bytes)
  /\ i + 4 + LengthAt(bytes, i) < Len(bytes)

\* The frame of an optional channel at i is all there.
IsComplete(bytes, i) ==
  /\ i + 4 <= Len(bytes)
  /\ i + 4 + LengthAt(bytes, i) <= Len(bytes)

\* What is recognized at i: nothing yet, or a frame with the position after it.
FrameAt(bytes, i) ==
  IF i > Len(bytes) THEN <<>>
  ELSE IF bytes[i] = I THEN
    IF i + 4 > Len(bytes) THEN <<>>
    ELSE <<[channel |-> I, data |-> <<>>, size |-> LengthAt(bytes, i), next |-> i + 5]>>
  ELSE IF IsUpper(bytes[i]) THEN
    <<[channel |-> bytes[i], data |-> <<>>, size |-> 0, next |-> i + 1]>>
  ELSE IF ~IsComplete(bytes, i) THEN <<>>
  ELSE LET next == i + 5 + LengthAt(bytes, i)
       IN  <<[channel |-> bytes[i], data |-> SubSeq(bytes, i + 5, next - 1), size |-> 0,
              next |-> next]>>

\* A result channel or any required channel ends the search.
IsLast(frame) == frame.channel = r \/ IsUpper(frame.channel)

\* The loop of feedStdOutput: the frames from the start up to the last.
Frames(bytes) ==
  LET from[i \in 1..(Len(bytes) + 1)] ==
        LET frame == FrameAt(bytes, i)
        IN  IF frame = <<>> \/ IsLast(frame[1]) THEN frame ELSE frame \o from[frame[1].next]
  IN  from[1]

DataOf(frames, channel) ==
  FlattenSeq([i \in DOMAIN frames |->
                IF frames[i].channel = channel THEN frames[i].data ELSE <<>>])

NoResult == [output |-> <<>>, error |-> <<>>, debug |-> <<>>, resultCode |-> 0,
             requiresInput |-> FALSE, requiredInputSize |-> 0]

\* The CommandResult gathered from all frames of an answer.
ResultOf(frames) ==
  [output |-> DataOf(frames, o), error |-> DataOf(frames, e), debug |-> DataOf(frames, d),
   resultCode |-> IF Last(frames).channel = r THEN FromBigEndian(Last(frames).data) ELSE 0,
   requiresInput |-> Last(frames).channel = I,
   requiredInputSize |-> Last(frames).size]

-----------------------------------------------------------------------------
(* What is assumed of hg and of the callers *)

\* A required channel has a size, an optional one has data.
IsFrame(frame) ==
  /\ frame \in [channel : Nat, data : Seq(Nat), size : Nat]
  /\ IF IsUpper(frame.channel) THEN frame.data = <<>> /\ frame.size < Limit
                              ELSE frame.size = 0 /\ Len(frame.data) < Limit

\* The last frame, and no other, is a result, of four bytes, or a request.
IsAnswer(answer) ==
  /\ answer \in Seq([channel : Nat, data : Seq(Nat), size : Nat]) \ {<<>>}
  /\ \A i \in DOMAIN answer : IsFrame(answer[i]) /\ (IsLast(answer[i]) <=> i = Len(answer))
  /\ Last(answer).channel = r => Len(Last(answer).data) = 4

\* The arguments are words of hg, paths and hashes: no one has a null byte.
IsCommand(args) ==
  /\ args \in Seq(Seq(Nat \ {0})) \ {<<>>}
  /\ Len(Joined(args)) < Limit

ASSUME RadixAssumption == Radix \in Nat /\ Radix > 1
ASSUME BoundsAssumption == MaxCommands \in Nat /\ MaxResets \in Nat
\* hg tells its pid when it starts.
ASSUME HellosAssumption ==
  \A fields \in Hellos :
    fields \in Seq(Nat) /\ Len(fields) < Limit /\ Contains(fields, PidField)
ASSUME CommandsAssumption == \A args \in Commands : IsCommand(args)
ASSUME AnswersAssumption == \A answer \in Answers : IsAnswer(answer)

-----------------------------------------------------------------------------
Init ==
  /\ buffer = <<>> /\ readState = "Capabilities" /\ pid = 0
  /\ started = FALSE
  /\ written = <<>> /\ results = <<>>
  /\ hello = <<>> /\ stdin = <<>> /\ stdout = <<>>
  /\ received = <<>> /\ answers = <<>>
  /\ resets = 0

(* hg *)

HgHello(fields) ==
  /\ hello = <<>>
  /\ hello' = fields
  /\ stdout' = Bytes([channel |-> o, data |-> fields, size |-> 0])
  /\ UNCHANGED <<protocol, started, written, results, stdin, received, answers, resets>>

\* hg reads a command and writes its answer.
HgAnswers(answer) ==
  /\ Len(stdin) >= 5
  /\ Len(stdin) >= 5 + LengthAt(stdin, 1)
  /\ answers # <<>> => Last(Last(answers)).channel = r
  /\ stdin' = After(stdin, 5 + LengthAt(stdin, 1))
  /\ received' = Append(received, Split(SubSeq(stdin, 6, 5 + LengthAt(stdin, 1))))
  /\ stdout' = stdout \o Wire(answer)
  /\ answers' = Append(answers, answer)
  /\ UNCHANGED <<protocol, started, written, results, hello, resets>>

\* It has asked for input, takes the next command for that, and goes on.
HgTakesInput(answer) ==
  /\ stdin # <<>>
  /\ answers # <<>> /\ Last(Last(answers)).channel # r
  /\ stdin' = <<>>
  /\ received' = Append(received, <<>>)
  /\ stdout' = stdout \o Wire(answer)
  /\ answers' = Append(answers, answer)
  /\ UNCHANGED <<protocol, started, written, results, hello, resets>>

(* HgProcess *)

\* runNextCommand: hg has started, the command before has its result.
Write(args) ==
  /\ started
  /\ Len(results) = Len(written) /\ Len(written) < MaxCommands
  /\ written' = Append(written, args)
  /\ stdin' = stdin \o PrepareCommand(args)
  /\ UNCHANGED <<protocol, started, results, hello, stdout, received, answers, resets>>

\* The hello message at the start of the buffer.
HelloIn(bytes) == SubSeq(bytes, 6, 5 + LengthAt(bytes, 1))

\* Slip: what was looked at is erased, although its result is not kept.
ParseNothing_Erases(bytes, frames) ==
  /\ frames # <<>> => ~IsLast(Last(frames))
  /\ buffer' = IF frames = <<>> THEN bytes ELSE After(bytes, Last(frames).next - 1)
  /\ UNCHANGED results

\* No result yet: all is kept and looked at again at the next feed.
ParseNothing(bytes, frames) ==
  /\ frames # <<>> => ~IsLast(Last(frames))
  /\ buffer' = bytes
  /\ UNCHANGED results

\* A result, or a request for input: it is returned and erased.
ParseResult(bytes, frames) ==
  /\ frames # <<>> /\ Last(frames).channel \in {r, I}
  /\ buffer' = After(bytes, Last(frames).next - 1)
  /\ results' = Append(results, ResultOf(frames))

\* A request for a line: an empty result, and nothing is erased.
ParseLine(bytes, frames) ==
  /\ frames # <<>> /\ Last(frames).channel = L
  /\ buffer' = bytes
  /\ results' = Append(results, NoResult)

\* Any other required channel: an exception, which is logged.
ParseThrows(bytes, frames) ==
  /\ frames # <<>> /\ IsUpper(Last(frames).channel) /\ Last(frames).channel \notin {I, L}
  /\ buffer' = bytes
  /\ UNCHANGED results

\* feedStdOutput after the hello message.
FeedCommandResult(bytes) ==
  LET frames == Frames(bytes)
  IN  \/ ParseNothing(bytes, frames) \/ ParseResult(bytes, frames)
      \/ ParseLine(bytes, frames) \/ ParseThrows(bytes, frames)

\* feedStdOutput while the hello message is not all there, or has a field that
\* makes it throw.
FeedNoHello(bytes) ==
  /\ \/ ~IsComplete(bytes, 1) /\ pid' = pid
     \/ /\ IsComplete(bytes, 1) /\ Contains(HelloIn(bytes), NoColon)
        /\ pid' \in {pid, 1}
  /\ buffer' = bytes
  /\ UNCHANGED <<readState, started, results>>

\* feedStdOutput when the hello message is, and then with what follows it.
FeedHello(bytes) ==
  /\ IsComplete(bytes, 1) /\ ~Contains(HelloIn(bytes), NoColon)
  /\ readState' = "CommandResult"
  /\ pid' = IF Contains(HelloIn(bytes), PidField) THEN 1 ELSE pid
  /\ started' = (started \/ pid' # 0)
  /\ FeedCommandResult(After(bytes, 5 + LengthAt(bytes, 1)))

\* onProcessStdoutRead of the next n bytes.  It hands a result to the command in
\* flight; what happens when there is none is not defined.
Feed(n) ==
  LET bytes == buffer \o SubSeq(stdout, 1, n)
  IN  /\ Len(results) <= Len(written)
      /\ stdout' = After(stdout, n)
      /\ \/ readState = "Capabilities" /\ (FeedNoHello(bytes) \/ FeedHello(bytes))
         \/ /\ readState = "CommandResult"
            /\ FeedCommandResult(bytes)
            /\ UNCHANGED <<readState, pid, started>>
      /\ UNCHANGED <<written, hello, stdin, received, answers, resets>>

\* hg has ended; what is in the pipes is lost, reset() is called, and another hg
\* is started.
Reset ==
  /\ resets < MaxResets
  /\ resets' = resets + 1
  /\ buffer' = <<>> /\ readState' = "Capabilities" /\ pid' = 0
  /\ started' = FALSE
  /\ written' = <<>> /\ results' = <<>>
  /\ hello' = <<>> /\ stdin' = <<>> /\ stdout' = <<>>
  /\ received' = <<>> /\ answers' = <<>>

Next ==
  \/ \E fields \in Hellos : HgHello(fields)
  \/ \E answer \in Answers : HgAnswers(answer) \/ HgTakesInput(answer)
  \/ \E args \in Commands : Write(args)
  \/ \E n \in 1..Len(stdout) : Feed(n)
  \/ Reset

Spec == Init /\ [][Next]_vars

-----------------------------------------------------------------------------
(* Properties *)

\* The first n answers of hg end in a result or in a request that is understood.
Understood(n) == \A i \in 1..n : Last(answers[i]).channel \in {r, I}

\* However the bytes arrive, each command gets one result, and it holds what hg
\* wrote for that command: nothing of it is missing, doubled or of another one.
ResultsMatch ==
  \A i \in DOMAIN results :
    Understood(IF i <= Len(answers) THEN i ELSE Len(answers)) =>
      i <= Len(answers) /\ results[i] = ResultOf(answers[i])

\* When all that hg wrote has been read, nothing of it is held back: the hello
\* message has started the commands, and the last command has its result.
NothingWithheld ==
  hello # <<>> /\ ~Contains(hello, NoColon) /\ stdout = <<>> /\ Understood(Len(answers)) =>
    started /\ Len(results) = Len(answers)

\* hg reads the arguments of each command as they were given, unless it waits
\* for input; no byte is missing that hg would wait for, and none is left over.
\* This is said up to the first request that is not understood: hg waits after
\* that one, and the commands are written on.
CommandsArrive ==
  /\ \A i \in DOMAIN received :
       Understood(i - 1) =>
         received[i] = IF i > 1 /\ Last(answers[i - 1]).channel # r THEN <<>> ELSE written[i]
  /\ Understood(Len(answers)) =>
       IF Len(written) > Len(received) THEN Len(stdin) = 5 + LengthAt(stdin, 1) ELSE stdin = <<>>

=============================================================================
