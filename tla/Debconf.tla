------------------------------ MODULE Debconf ------------------------------
(***************************************************************************)
(* The debconf protocol as debconf.py speaks it (the same file for Python  *)
(* 2.7 and 3): a client writes a command line and reads an answer line, in *)
(* lockstep, through two pipes.  Either DebconfCommunicator has started    *)
(* the other end, debconf-communicate, as its child; or class Debconf is   *)
(* used with stdin and stdout, and the other end, the frontend, is its     *)
(* parent.                                                                 *)
(*                                                                         *)
(* The other end is Perl: the loop of bin/debconf-communicate or of        *)
(* share/debconf/frontend, and perl5/Debconf/ConfModule.pm.  The client    *)
(* may have started a helper process that has inherited its ends of the    *)
(* pipes.                                                                  *)
(***************************************************************************)
EXTENDS Integers, Sequences, SequencesExt

CONSTANTS cloexec,    \* the parameter of DebconfCommunicator
          title,      \* whether a title is given
          MaxLines,   \* bound on the lines written
          MaxText     \* bound on the length of a value

ASSUME DebconfAssumption == MaxLines \in Nat /\ MaxText \in Nat

VARIABLES
    communicator,   \* whether the client is a DebconfCommunicator
    python,         \* 2 or 3: see WriteFails and HelperHolds
    pc,             \* where the client is
    setup,          \* the commands of setUp that have been answered; 9: done
    sent,           \* lines written so far
    asked,          \* whether the last capb line written asks for escape
    unflushed,      \* whether the write buffer keeps what could not be sent
    got,            \* the last command and its answer, see Nothing
    commands, answers,   \* the pipes
    server,         \* where the other end is
    line,           \* the line it works on
    capb,           \* whether its client_capb has escape
    sigpipe,        \* whether SIGPIPE kills it
    saved,          \* whether it has saved the database
    helper,         \* "none", "forked", "execed" or "ended"
    early,          \* whether it was forked before setUp was through
    late,           \* history: the lines that newlines in parameters have
                    \* added, and the answers that nobody has read
    stops,          \* history: the STOPs sent
    crashed         \* history: the other end was killed from outside

mode == <<communicator, python>>
pipes == <<commands, answers>>
other == <<server, line, capb, sigpipe, saved>>
helpers == <<helper, early>>
history == <<late, stops, crashed>>
vars == <<mode, pc, setup, sent, asked, unflushed, got, pipes,
          other, helpers, history>>

\* setUp has returned.
Ready == 9

\* Mutant: setUp goes on.
NextSetupRunsOn == IF setup = Ready THEN Ready ELSE setup + 1

\* setUp sends VERSION, CAPB and, if there is one, TITLE.
NextSetup == IF setup = Ready THEN Ready
             ELSE IF setup = 2 \/ (setup = 1 /\ ~title) THEN Ready
             ELSE setup + 1

Kinds == {"version", "capb", "escape", "title", "get"}

\* A line, and whether the capb before it asked for escape.
Line(number, kind, escaped) ==
    [number |-> number, kind |-> kind, asked |-> escaped]
NoLine == Line(0, "", FALSE)

\* own is the number of the command's line; late, how many answers were on
\* their way, or never to come, when it was written; line, whose answer it
\* took, value the value of that one, and data what was made of it.
Nothing == [own |-> 0, late |-> 0, line |-> 0, asked |-> FALSE,
            value |-> <<>>, data |-> <<>>]

\* Values, of the characters that are escaped, can follow a backslash, or both.
Texts == UNION {[1..n -> {"\\", "n", "newline"}] : n \in 0..MaxText}

\* An answer ends at the first newline, whatever the value goes on with.
FirstLine(value) ==
    LET n == CHOOSE n \in 0..Len(value) :
                /\ \A i \in 1..n : value[i] # "newline"
                /\ n < Len(value) => value[n + 1] = "newline"
    IN  SubSeq(value, 1, n)

\* ConfModule's escape().
Escaped(c) == IF c = "\\" THEN <<"\\", "\\">>
              ELSE IF c = "newline" THEN <<"\\", "n">> ELSE <<c>>
escape(value) == FlattenSeq([i \in DOMAIN value |-> Escaped(value[i])])

\* Mutant: two substitutions instead of one pass over the chunks.
unescape_twice(data) ==
    LET newlines[i \in 1..Len(data) + 2] ==
            IF i > Len(data) THEN <<>>
            ELSE IF data[i] = "\\" /\ i < Len(data) /\ data[i + 1] = "n"
                 THEN <<"newline">> \o newlines[i + 2]
                 ELSE <<data[i]>> \o newlines[i + 1]
        plain == newlines[1]
        rest[i \in 1..Len(plain) + 2] ==
            IF i > Len(plain) THEN <<>>
            ELSE IF plain[i] = "\\" /\ i < Len(plain)
                 THEN <<plain[i + 1]>> \o rest[i + 2]
                 ELSE <<plain[i]>> \o rest[i + 1]
    IN  rest[1]

\* A backslash and what follows it are one chunk.
unescape(data) ==
    LET chunks[i \in 1..Len(data) + 2] ==
            IF i > Len(data) THEN <<>>
            ELSE IF data[i] = "\\" /\ i < Len(data)
                 THEN <<IF data[i + 1] = "n" THEN "newline" ELSE data[i + 1]>>
                          \o chunks[i + 2]
                 ELSE <<data[i]>> \o chunks[i + 1]
    IN  chunks[1]

Alive == server \in {"reading", "answering", "saving", "finish"}

\* Mutant: close on exec is never set.
HelperHoldsOn == helper \in {"forked", "execed"}

\* Who holds the writing end of commands and the reading end of answers.  A
\* program that the helper executes has stdin and stdout from the client.  The
\* pipes of a communicator it has only in Python 2, and then not if they were
\* closed on exec when it was forked; in Python 3 they never are inherited.
HelperHolds ==
    \/ helper = "forked"
    \/ /\ helper = "execed"
       /\ communicator => python = 2 /\ (early \/ ~cloexec)
WriterOpen == \/ pc \in {"idle", "reading", "interrupted", "deleting"}
              \/ HelperHolds
ReaderOpen == WriterOpen \/ pc \in {"failed", "closing"}

Init == /\ communicator \in BOOLEAN
        /\ python \in {2, 3}
        /\ pc = "idle"
        /\ setup = 0
        /\ sent = 0
        /\ asked = FALSE
        /\ unflushed = FALSE
        /\ got = Nothing
        /\ commands = <<>>
        /\ answers = <<>>
        /\ server = "reading"
        /\ line = NoLine
        /\ capb = FALSE
        /\ sigpipe = communicator
        /\ saved = FALSE
        /\ helper = "none"
        /\ early = FALSE
        /\ late = 0
        /\ stops = 0
        /\ crashed = FALSE
-----------------------------------------------------------------------------
(* Debconf.command                                                         *)

\* The exception leaves the command: a program goes on, unless it has not
\* got the object yet.
Raise == pc' = IF setup # Ready THEN "deleting" ELSE "idle"

\* What can be written: setUp sends a bare capb, the program any command.
Writable(kind) ==
    IF setup = Ready THEN kind \in {"get", "capb", "escape"}
    ELSE kind = <<"version", "capb", "title">>[setup + 1]

\* A parameter with a newline makes more than one line of the command.
Write(kind, lines) ==
    /\ pc = "idle"
    /\ Writable(kind)
    /\ lines > 1 => kind \in {"get", "title"}
    /\ sent + lines <= MaxLines
    /\ Alive
    /\ commands' = commands \o
          [n \in 1..lines |->
              Line(sent + n, IF n = 1 THEN kind ELSE "get", asked)]
    /\ sent' = sent + lines
    /\ asked' = IF kind \in {"capb", "escape"} THEN kind = "escape" ELSE asked
    /\ late' = late + lines - 1
    /\ got' = [Nothing EXCEPT !.own = sent + 1, !.late = late + stops]
    /\ pc' = "reading"
    /\ UNCHANGED <<mode, setup, unflushed, answers, other, helpers, stops,
                   crashed>>

\* Nobody reads any more: EPIPE.  In Python 3 the line stays in the buffer; the
\* stdio of Python 2 drops it.
WriteFails ==
    /\ pc = "idle"
    /\ ~Alive
    /\ unflushed' = (python = 3)
    /\ Raise
    /\ UNCHANGED <<mode, setup, sent, asked, got, pipes, other, helpers,
                   history>>

\* readline() fails with EINTR, where Python does not retry by itself, ...
Interrupt == /\ pc = "reading"
             /\ pc' = "interrupted"
             /\ UNCHANGED <<mode, setup, sent, asked, unflushed, got, pipes,
                            other, helpers, history>>

\* Mutant: the command is written again.
RetryCommand ==
    /\ pc = "interrupted"
    /\ sent < MaxLines
    /\ pc' = "reading"
    /\ sent' = sent + 1
    /\ commands' = Append(commands, Line(sent + 1, "get", asked))
    /\ UNCHANGED <<mode, setup, asked, unflushed, got, answers, other, helpers,
                   history>>

\* ... and is called again.
Retry == /\ pc = "interrupted"
         /\ pc' = "reading"
         /\ UNCHANGED <<mode, setup, sent, asked, unflushed, got, pipes, other,
                        helpers, history>>

\* Any other error, or an exception that a signal handler raises, leaves the
\* command; its answer is not read.
ReadFails == /\ pc = "reading"
             /\ late' = late + 1
             /\ Raise
             /\ UNCHANGED <<mode, setup, sent, asked, unflushed, got, pipes,
                            other, helpers, stops, crashed>>

\* The answer is data, or raises DebconfError; or, if the line is empty,
\* int('') raises ValueError.  The first one is compared with '2.'.
ReadAnswer ==
    /\ pc = "reading"
    /\ answers # <<>>
    /\ LET answer == Head(answers)
       IN  /\ got' = [own |-> got.own, late |-> got.late,
                      line |-> answer.number, asked |-> answer.asked,
                      value |-> answer.value,
                      data |-> IF answer.status = "escaped"
                               THEN unescape(answer.text)
                               ELSE answer.text]
           /\ IF \/ answer.status \in {"data", "escaped"}
                 \/ answer.status = "old" /\ setup # 0
              THEN setup' = NextSetup /\ pc' = "idle"
              ELSE Raise /\ UNCHANGED setup
    /\ answers' = Tail(answers)
    /\ UNCHANGED <<mode, sent, asked, unflushed, commands, other, helpers,
                   history>>

\* Mutant: the end of the file is read again.
ReadEofAgain == /\ pc = "reading"
                /\ answers = <<>>
                /\ ~Alive
                /\ pc' = "interrupted"
                /\ UNCHANGED <<mode, setup, sent, asked, unflushed, got, pipes,
                               other, helpers, history>>

\* readline() returns '' at the end of the file, and int('') raises.
ReadEof == /\ pc = "reading"
           /\ answers = <<>>
           /\ ~Alive
           /\ Raise
           /\ UNCHANGED <<mode, setup, sent, asked, unflushed, got, pipes,
                          other, helpers, history>>

\* Debconf.stop does not wait for an answer.
Stop == /\ pc = "idle"
        /\ setup = Ready
        /\ sent < MaxLines
        /\ Alive
        /\ commands' = Append(commands, Line(sent + 1, "stop", asked))
        /\ sent' = sent + 1
        /\ stops' = stops + 1
        /\ UNCHANGED <<mode, pc, setup, asked, unflushed, got, answers, other,
                       helpers, late, crashed>>
-----------------------------------------------------------------------------
(* DebconfCommunicator.shutdown, called by the program or by __del__       *)

\* stdin.close()
CloseStdin == /\ communicator
              /\ \/ pc = "idle" /\ setup = Ready
                 \/ pc \in {"deleting", "failed"}
              /\ ~unflushed
              /\ pc' = "closing"
              /\ UNCHANGED <<mode, setup, sent, asked, unflushed, got, pipes,
                             other, helpers, history>>

\* It is closed, but what is left in the buffer raises EPIPE once more.  The
\* program can delete the object after that, which closes it again; __del__
\* has nobody to do so.
CloseFails == /\ communicator
              /\ unflushed
              /\ pc \in {"idle", "deleting"}
              /\ unflushed' = FALSE
              /\ pc' = IF pc = "idle" THEN "failed" ELSE "lost"
              /\ UNCHANGED <<mode, setup, sent, asked, got, pipes, other,
                             helpers, history>>

\* stdout.close()
CloseStdout == /\ pc = "closing"
               /\ pc' = "waiting"
               /\ UNCHANGED <<mode, setup, sent, asked, unflushed, got, pipes,
                              other, helpers, history>>

\* Mutant: the child is not waited for.
WaitNot == /\ pc = "waiting"
           /\ pc' = "shut"
           /\ UNCHANGED <<mode, setup, sent, asked, unflushed, got, pipes,
                          other, helpers, history>>

\* dccomm.wait()
Wait == /\ pc = "waiting"
        /\ server \in {"exited", "killed"}
        /\ server' = "reaped"
        /\ pc' = "shut"
        /\ UNCHANGED <<mode, setup, sent, asked, unflushed, got, pipes, line,
                       capb, sigpipe, saved, helpers, history>>
-----------------------------------------------------------------------------
(* The program that uses them.                                             *)

\* Without a communicator there is nothing to shut down: the program ends.
Exit == /\ ~communicator
        /\ pc \in {"idle", "deleting"}
        /\ pc' = "ended"
        /\ UNCHANGED <<mode, setup, sent, asked, unflushed, got, pipes, other,
                       helpers, history>>

Kill == /\ pc \notin {"shut", "lost", "ended"}
        /\ pc' = "ended"
        /\ UNCHANGED <<mode, setup, sent, asked, unflushed, got, pipes, other,
                       helpers, history>>

\* Another thread may fork while setUp runs, before the descriptors are set to
\* be closed on exec.
HelperForks == /\ pc \in {"idle", "reading", "interrupted"}
               /\ helper = "none"
               /\ helper' = "forked"
               /\ early' = (setup # Ready)
               /\ UNCHANGED <<mode, pc, setup, sent, asked, unflushed, got,
                              pipes, other, history>>

\* It executes its program, which runs as long as it likes.
HelperExecs == /\ helper = "forked"
               /\ helper' = "execed"
               /\ UNCHANGED <<mode, pc, setup, sent, asked, unflushed, got,
                              early, pipes, other, history>>

HelperEnds == /\ helper = "execed"
              /\ helper' = "ended"
              /\ UNCHANGED <<mode, pc, setup, sent, asked, unflushed, got,
                             early, pipes, other, history>>
-----------------------------------------------------------------------------
(* The other end: the loop of debconf-communicate, or ConfModule's         *)
(* communicate() called by the frontend.                                   *)

client == <<mode, pc, setup, sent, asked, unflushed, got,
            helpers>>

\* STOP makes it finish: debconf-communicate has no child to wait for, loses
\* SIGPIPE and goes on; the frontend waits for its child.
ServerReads ==
    /\ server = "reading"
    /\ commands # <<>>
    /\ line' = Head(commands)
    /\ commands' = Tail(commands)
    /\ capb' = IF line'.kind \in {"capb", "escape"} THEN line'.kind = "escape"
               ELSE capb
    /\ sigpipe' = (sigpipe /\ line'.kind # "stop")
    /\ server' = IF line'.kind = "stop" /\ ~communicator
                 THEN "finish" ELSE "answering"
    /\ UNCHANGED <<client, answers, saved, history>>

Replies(status, value, text) ==
    answers' = Append(answers, [number |-> line.number, asked |-> line.asked,
                                status |-> status, value |-> value,
                                text |-> text])

\* A value, escaped if the client has asked for that, else as it is.  To STOP
\* the answer is an empty line.
Answer ==
    \/ line.kind = "stop" /\ Replies("empty", <<>>, <<>>)
    \/ line.kind # "stop" /\ Replies("data", <<>>, <<>>)
    \/ line.kind = "version" /\ Replies("old", <<>>, <<>>)
    \/ line.kind \in {"version", "get"} /\ Replies("error", <<>>, <<>>)
    \/ /\ line.kind = "get"
       /\ \E value \in Texts :
             IF capb THEN Replies("escaped", value, escape(value))
             ELSE Replies("data", value, FirstLine(value))

\* A client that does not read any more kills it with SIGPIPE, or loses this
\* answer.
ServerAnswers ==
    /\ server = "answering"
    /\ IF ReaderOpen
       THEN Answer /\ server' = "reading"
       ELSE /\ server' = IF sigpipe THEN "killed" ELSE "reading"
            /\ UNCHANGED answers
    /\ line' = NoLine
    /\ UNCHANGED <<client, commands, capb, sigpipe, saved, history>>

\* The end of the file: nobody can write any more.
ServerEof == /\ server = "reading"
             /\ commands = <<>>
             /\ ~WriterOpen
             /\ server' = IF communicator THEN "saving" ELSE "finish"
             /\ UNCHANGED <<client, pipes, line, capb, sigpipe, saved,
                            history>>

\* The frontend's finish waits for the client.
ServerFinishes == /\ server = "finish"
                  /\ pc = "ended"
                  /\ server' = "saving"
                  /\ UNCHANGED <<client, pipes, line, capb, sigpipe, saved,
                                 history>>

ServerSaves == /\ server = "saving"
               /\ saved' = TRUE
               /\ server' = "exited"
               /\ UNCHANGED <<client, pipes, line, capb, sigpipe, history>>

ServerCrashes == /\ Alive
                 /\ server' = "killed"
                 /\ crashed' = TRUE
                 /\ UNCHANGED <<client, pipes, line, capb, sigpipe, saved,
                                late, stops>>

Command == Interrupt \/ Retry \/ ReadFails \/ ReadAnswer \/ ReadEof
shutdown == CloseStdin \/ CloseFails \/ CloseStdout \/ Wait
Server == ServerReads \/ ServerAnswers \/ ServerEof \/ ServerFinishes
          \/ ServerSaves

Next == \/ \E kind \in Kinds, lines \in 1..2 : Write(kind, lines)
        \/ WriteFails
        \/ Command
        \/ Stop
        \/ shutdown
        \/ Exit \/ Kill
        \/ HelperForks \/ HelperExecs \/ HelperEnds
        \/ Server \/ ServerCrashes

Spec == Init /\ [][Next]_vars

\* Both ends are scheduled, a signal does not hit every readline(), and a
\* forked helper gets to its exec.  When the program sends a command, stops,
\* shuts down or ends, and when the helper ends, is up to them.
Fairness == /\ WF_vars(Server)
            /\ WF_vars(Retry)
            /\ SF_vars(ReadAnswer \/ ReadEof)
            /\ WF_vars(CloseStdout \/ Wait)
            /\ WF_vars(pc # "idle" /\ (CloseStdin \/ CloseFails))
            /\ WF_vars(HelperExecs)
FairSpec == Spec /\ Fairness
-----------------------------------------------------------------------------
\* What the pipes hold, what is worked on, what was answered.
Lines == [number : 1..MaxLines, kind : Kinds \cup {"stop"}, asked : BOOLEAN]
Answers == [number : 1..MaxLines, asked : BOOLEAN, value : Texts,
            status : {"data", "escaped", "old", "error", "empty"},
            text : Seq({"\\", "n", "newline"})]
Worked == [number : 0..MaxLines, kind : Kinds \cup {"stop", ""},
           asked : BOOLEAN]
Answered == [own : 0..MaxLines, late : Nat, line : 0..MaxLines,
             asked : BOOLEAN, value : Texts, data : Texts]

TypeOK ==
    /\ communicator \in BOOLEAN /\ python \in {2, 3}
    /\ pc \in {"idle", "reading", "interrupted", "deleting", "closing",
               "waiting", "failed", "shut", "lost", "ended"}
    /\ setup \in {0, 1, 2, Ready}
    /\ sent \in 0..MaxLines /\ stops \in 0..sent /\ late \in Nat
    /\ asked \in BOOLEAN /\ unflushed \in BOOLEAN
    /\ commands \in Seq(Lines) /\ answers \in Seq(Answers)
    /\ got \in Answered /\ line \in Worked
    /\ server \in {"reading", "answering", "finish", "saving", "exited",
                   "killed", "reaped"}
    /\ capb \in BOOLEAN /\ sigpipe \in BOOLEAN /\ saved \in BOOLEAN
    /\ helper \in {"none", "forked", "execed", "ended"} /\ early \in BOOLEAN
    /\ crashed \in BOOLEAN

\* The lines of the client that wait, are worked on or have been answered.
OnTheirWay == Len(commands) + Len(answers) + (IF line = NoLine THEN 0 ELSE 1)

\* The answer that a command takes is its own, but for the lines that newlines
\* in parameters and stop() have added before it and for the answers that
\* earlier commands have left in the pipe, when an exception came out of
\* readline(): it is older by exactly their number.  Between two commands just
\* these are on their way; a retry after a signal, an error the other end
\* reports and a bad answer add none (debconf.py:64-102).
AnswersAreOwn ==
    /\ got.line # 0 => got.own - got.line = got.late
    /\ pc = "idle" /\ ~crashed => OnTheirWay = late + stops

\* A value comes back whole, whatever backslashes and newlines it has, if the
\* last capb before the command asked for escape; after the bare one of setUp,
\* or none, its first line does (debconf.py:51-57, 78-98, ConfModule.pm:82-87,
\* 137-141, 326-344).
ValuesComeBack ==
    got.data = IF got.asked THEN got.value ELSE FirstLine(got.value)

\* When shutdown() has returned the child is reaped.  It has saved the answers,
\* if nobody killed it, no parameter had a newline and no answer was left
\* unread: stop() alone does not keep it from that.  __del__ leaves a child
\* unreaped only if that one had been killed before (debconf.py:134-146).
ChildIsReaped ==
    /\ pc = "shut" => server = "reaped" /\ (saved \/ crashed \/ late > 0)
    /\ pc = "lost" => crashed

\* A command returns or raises, however often a signal interrupts it and even
\* if the other end dies; not so after stop() to a frontend, which does not
\* read any more (debconf.py:69-77).
CommandsReturn ==
    (pc = "reading" /\ (communicator \/ stops = 0))
        ~> pc \notin {"reading", "interrupted"}

\* The helper runs a program that may have the pipes of a communicator: one of
\* Python 2 started it before it had set them to be closed on exec.
Leaked == helper = "execed" /\ python = 2 /\ (early \/ ~cloexec)

\* A conversation comes to its end (debconf.py:100-102, 122-146): shutdown()
\* returns although a helper runs on, because of cloexec, unless that one was
\* started while the constructor was not through; a constructor that raises
\* takes its child with it; stop() lets the frontend end with the program
\* although a helper may keep the pipe open for ever.
ConversationsEnd ==
    /\ (pc \in {"closing", "waiting"})
           ~> (pc \in {"shut", "ended"} \/ Leaked)
    /\ (communicator /\ pc = "deleting")
           ~> (pc \in {"shut", "lost", "ended"} \/ Leaked)
    /\ (~communicator /\ stops > 0 /\ pc = "ended")
           ~> (server \in {"exited", "killed"})
=============================================================================
