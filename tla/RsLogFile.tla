----------------------------- MODULE RsLogFile -----------------------------
(***************************************************************************)
(* The logger (logger/): RsLog, the process-wide log file with its rolling *)
(* and renaming (rslog.cpp), and the statement RSLOG_x << ... whose        *)
(* RsLogger collects the line in an RsFloatingBuffer and hands it to       *)
(* RsLog::output when it is destroyed (rslogging.cpp, logstream.cpp,       *)
(* floatingbuffer.cpp).                                                    *)
(*                                                                         *)
(* Any thread logs, sets the path or the name; mutex_ covers each write    *)
(* with the rolling that may follow it, so each is one action.  The level  *)
(* test of a statement, the comparison and splitting of a path to set and  *)
(* the first test of Instance() are made without it.  A line is its number,*)
(* a file a sequence of lines, its size their number; the directories can  *)
(* be written.                                                             *)
(***************************************************************************)
EXTENDS Integers, Sequences, FiniteSets, Functions

CONSTANTS Threads, Paths, Bases,
          Pieces,                  \* lengths of the texts streamed into a line
          MaxSize,                 \* MAX_LOG_SIZE, in lines
          Small, Large,            \* kSmallBuffer, also the growth step; kLargeBuffer
          NumberSize, MaxNumber,   \* kMaxNumericSize, the longest number printed
          MaxLines, MaxSeconds, MaxSets, MaxPieces  \* bounds

ASSUME LogAssumption ==
  /\ Paths # {} /\ Bases # {} /\ MaxSize \in Nat \ {0}
  /\ Small \in Nat \ {0} /\ Large \in Nat /\ Large > Small
  /\ Pieces \subseteq Nat \ {0} /\ NumberSize \in Nat /\ MaxNumber \in 1..NumberSize - 1
  /\ {MaxLines, MaxSeconds, MaxSets, MaxPieces} \subseteq Nat

VARIABLES
  instance,                     \* instance_ is set
  m_log_path, m_file_name, m_base_file_name, log_level,
  files,                        \* the directories: the lines of each file that exists
  second,                       \* the clock
  pc, stream,                   \* what each thread is in, the line it builds
  lines, sets,                  \* lines written, names and paths set
  lost                          \* history: the lines that were to be lost; see LinesKept

log == <<instance, m_log_path, m_file_name, m_base_file_name>>
logvars == <<log, log_level, files, second, pc, stream, lines, sets, lost>>

Levels == {"debug", "warn"}     \* RS_LOG_DEBUG stands for all below RS_LOG_WARN
Steps == [at : {"idle", "create", "build"}, arg : {"none"}] \cup [at : {"path", "mixed"}, arg : Paths]
IdleStep == [at |-> "idle", arg |-> "none"]

\* A file: path, base and second of its name, the number of its suffix or 0.
Plain(path, name) == <<path, name[1], name[2], 0>>
Numbered(path, name, n) == <<path, name[1], name[2], n>>
FileNames == Paths \X Bases \X (0..MaxSeconds) \X (0..MaxLines)

Empty == [len |-> 0, alloc |-> Small, text |-> 0, out |-> 0, pieces |-> 0]

LogTypeOK ==
  /\ instance \in BOOLEAN /\ m_log_path \in Paths
  /\ m_file_name \in Bases \X (0..MaxSeconds) /\ m_base_file_name \in Bases
  /\ log_level \in Levels
  /\ DOMAIN files \subseteq FileNames /\ \A f \in DOMAIN files : files[f] \in Seq(1..MaxLines)
  /\ second \in 0..MaxSeconds /\ pc \in [Threads -> Steps]
  /\ stream \in [Threads -> [len : Nat, alloc : Nat, text : Nat, out : Nat, pieces : Nat]]
  /\ lines \in 0..MaxLines /\ sets \in 0..MaxSets /\ lost \subseteq 1..MaxLines

LogInit ==
  /\ instance = FALSE /\ m_log_path \in Paths /\ m_base_file_name \in Bases
  /\ m_file_name = <<m_base_file_name, 0>> /\ log_level = "warn"
  /\ files = << >> /\ second = 0
  /\ pc = [t \in Threads |-> IdleStep] /\ stream = [t \in Threads |-> Empty]
  /\ lines = 0 /\ sets = 0 /\ lost = {}

Go(t, at, arg) == pc' = [pc EXCEPT ![t] = [at |-> at, arg |-> arg]]
GoIdle(t) == pc' = [pc EXCEPT ![t] = IdleStep]
At(t, at) == pc[t].at = at

(***************************************************************************)
(* Files                                                                   *)
(***************************************************************************)
Store(fs, a, text) == [f \in DOMAIN fs \cup {a} |-> IF f = a THEN text ELSE fs[f]]
Remove(fs, a) == Restrict(fs, DOMAIN fs \ {a})
Rename(fs, a, b) == IF a \in DOMAIN fs THEN Store(Remove(fs, a), b, fs[a]) ELSE fs
AppendLine(fs, a, n) == Store(fs, a, Append(IF a \in DOMAIN fs THEN fs[a] ELSE <<>>, n))

\* reset(): fopen "w+" empties the file.  (The title line is not counted.)
Reset(fs, a) == Store(fs, a, <<>>)

\* rollFile() under a name that stays the same: the first free number, one
\* rename into it (the loop repeats the same one), and the log becomes .1.
FirstFree(fs, path, name) ==
  CHOOSE n \in 1..MaxLines + 1 :
    /\ Numbered(path, name, n) \notin DOMAIN fs
    /\ \A k \in 1..n - 1 : Numbered(path, name, k) \in DOMAIN fs
NoShift(fs, path, name) == fs  \* mutant
Shift(fs, path, name) ==
  LET last == FirstFree(fs, path, name) IN
  IF last > 1 THEN Rename(fs, Numbered(path, name, last - 1), Numbered(path, name, last)) ELSE fs
ToNextFree(fs, path, name) ==
  Rename(fs, Plain(path, name), Numbered(path, name, FirstFree(fs, path, name)))  \* mutant
RollSame(fs, path, name) ==
  Rename(Remove(Shift(fs, path, name), Numbered(path, name, 1)),
         Plain(path, name), Numbered(path, name, 1))

\* What a roll under the same name loses: with a .1 and a .2 there, the lines of .1.
LinesOf(fs, f) == IF f \in DOMAIN fs THEN Range(fs[f]) ELSE {}
LostByRoll(fs, path, name) ==
  IF Numbered(path, name, 2) \in DOMAIN fs THEN LinesOf(fs, Numbered(path, name, 1)) ELSE {}

\* One line and what rollFile() does after it.
WriteLine ==
  LET here == Plain(m_log_path, m_file_name)
      fs == AppendLine(files, here, lines + 1)
      newName == <<m_base_file_name, second>>
      same == newName = m_file_name
  IN /\ lines < MaxLines /\ lines' = lines + 1
     /\ IF Len(fs[here]) >= MaxSize
        THEN /\ files' = Reset(IF same THEN RollSame(fs, m_log_path, m_file_name) ELSE fs,
                               Plain(m_log_path, newName))
             /\ m_file_name' = newName
             /\ lost' = lost \cup IF same THEN LostByRoll(fs, m_log_path, m_file_name) ELSE {}
        ELSE files' = fs /\ UNCHANGED <<m_file_name, lost>>
     /\ UNCHANGED <<instance, m_log_path, m_base_file_name, log_level, second, sets>>

(***************************************************************************)
(* RsLog                                                                   *)
(***************************************************************************)

\* Instance(): the test without the lock, then the test and the constructor
\* under it.  The constructor names a file and empties it.
SeesNone(t) ==
  /\ At(t, "idle") /\ ~instance /\ Go(t, "create", "none")
  /\ UNCHANGED <<log, log_level, files, second, stream, lines, sets, lost>>

Create(t) ==
  /\ At(t, "create") /\ GoIdle(t)
  /\ IF ~instance
     THEN /\ instance' = TRUE /\ m_file_name' = <<m_base_file_name, second>>
          /\ files' = Reset(files, Plain(m_log_path, m_file_name'))
     ELSE UNCHANGED <<instance, m_file_name, files>>
  /\ UNCHANGED <<m_log_path, m_base_file_name, log_level, second, stream, lines, sets, lost>>

Ready(t) == At(t, "idle") /\ instance

SetLogLevel(t) ==
  /\ Ready(t) /\ log_level' \in Levels \ {log_level}
  /\ UNCHANGED <<log, files, second, pc, stream, lines, sets, lost>>

\* A name that is opened again loses what it held.
Opens(path, name) ==
  /\ files' = Reset(files, Plain(path, name))
  /\ lost' = lost \cup LinesOf(files, Plain(path, name))

\* setLogPath: the argument is compared with the path that is kept, which it only
\* equals when spelled the same (asKept), without a slash too many.  Then strtok()
\* splits it, by one pointer for all threads: of two that split at a time each may
\* get any mixture of both.  Paths has the mixtures.
Splitting == {t \in Threads : pc[t].at \in {"path", "mixed"}}
SetLogPath(t, p, asKept) ==
  /\ Ready(t) /\ sets < MaxSets /\ sets' = sets + 1
  /\ asKept => p # m_log_path
  /\ pc' = [u \in Threads |->
              IF u = t THEN [at |-> IF Splitting = {} THEN "path" ELSE "mixed", arg |-> p]
              ELSE IF u \in Splitting THEN [at |-> "mixed", arg |-> pc[u].arg] ELSE pc[u]]
  /\ UNCHANGED <<log, log_level, files, second, stream, lines, lost>>

\* Under mutex_: the path, the name being kept, and reset().
AssignsPath(t) ==
  /\ t \in Splitting /\ GoIdle(t)
  /\ m_log_path' \in IF At(t, "mixed") THEN Paths ELSE {pc[t].arg}
  /\ Opens(m_log_path', m_file_name)
  /\ UNCHANGED <<instance, m_file_name, m_base_file_name, log_level, second, stream, lines, sets>>

SetBaseLogName(t, b) ==
  /\ Ready(t) /\ sets < MaxSets /\ sets' = sets + 1
  /\ m_base_file_name' = b /\ m_file_name' = <<b, second>>
  /\ Opens(m_log_path, m_file_name')
  /\ UNCHANGED <<instance, m_log_path, log_level, second, pc, stream, lines>>

\* trace(), debug(), info(): the level test is made under mutex_.  warn(),
\* error() and fatal() pass no function name, and sprintf() writes nothing
\* without one: they change no state.
Sprintf(t) ==
  /\ Ready(t) /\ log_level = "debug" /\ WriteLine
  /\ UNCHANGED <<pc, stream>>

(***************************************************************************)
(* RSLOG_x << ...                                                          *)
(***************************************************************************)

\* RSLOG_TRACE, DEBUG and INFO test the level, RSLOG_WARN, ERROR and FATAL do not.
Statement(t, level) ==
  /\ Ready(t) /\ (level = "warn" \/ log_level = "debug")
  /\ Go(t, "build", "none") /\ stream' = [stream EXCEPT ![t] = Empty]
  /\ UNCHANGED <<log, log_level, files, second, lines, sets, lost>>

\* RsFloatingBuffer::append of n characters.
Avail(b) == b.alloc - b.len
Least(a, c) == IF a < c THEN a ELSE c
FitsExactly(b, n) == Avail(b) >= n  \* mutant
Fits(b, n) == Avail(b) > n
Grown(b, n) == Least(b.alloc + (IF n >= Small THEN n ELSE Small), Large)
Appended(b, n) ==
  LET alloc == IF Fits(b, n) \/ b.alloc >= Large THEN b.alloc ELSE Grown(b, n) IN
  [b EXCEPT !.len = b.len + Least(n, alloc - b.len), !.alloc = alloc, !.text = b.text + n,
            !.pieces = b.pieces + 1]

Streams(t, n) ==
  /\ At(t, "build") /\ stream[t].pieces < MaxPieces
  /\ stream' = [stream EXCEPT ![t] = Appended(@, n)]
  /\ UNCHANGED <<log, log_level, files, second, pc, lines, sets, lost>>

\* formatInteger and the pointer and floating point operators: a number that
\* might not fit is left out; they never grow the buffer.
NumberFits(b) == Avail(b) >= NumberSize
WithNumber(b, n) ==
  LET size == IF NumberFits(b) THEN n ELSE 0 IN
  [b EXCEPT !.len = b.len + size, !.text = b.text + n, !.out = b.out + (n - size),
            !.pieces = b.pieces + 1]

StreamsNumber(t, n) ==
  /\ At(t, "build") /\ stream[t].pieces < MaxPieces
  /\ stream' = [stream EXCEPT ![t] = WithNumber(@, n)]
  /\ UNCHANGED <<log, log_level, files, second, pc, lines, sets, lost>>

\* ~RsLogger: finish() and output().
Output(t) ==
  /\ At(t, "build") /\ GoIdle(t) /\ stream' = [stream EXCEPT ![t] = Empty]
  /\ WriteLine

Tick ==
  /\ second < MaxSeconds /\ second' = second + 1
  /\ UNCHANGED <<log, log_level, files, pc, stream, lines, sets, lost>>

LogNext ==
  \/ \E t \in Threads :
       \/ SeesNone(t) \/ Create(t) \/ SetLogLevel(t) \/ AssignsPath(t)
       \/ Sprintf(t) \/ Output(t)
       \/ \E p \in Paths, asKept \in BOOLEAN : SetLogPath(t, p, asKept)
       \/ \E b \in Bases : SetBaseLogName(t, b)
       \/ \E level \in Levels : Statement(t, level)
       \/ \E n \in Pieces : Streams(t, n)
       \/ \E n \in 1..MaxNumber : StreamsNumber(t, n)
  \/ Tick

LogSpec == LogInit /\ [][LogNext]_logvars

(***************************************************************************)
(* Properties                                                              *)
(***************************************************************************)
Holders(n) == {f \in DOMAIN files : \E i \in DOMAIN files[f] : files[f][i] = n}

\* Whatever the threads do, each line written is in exactly one file, but for those a
\* reader of the logs should know to be lost.  Opening a name again empties the file
\* (rslog.cpp:395, fopen "w+"): setLogPath keeps m_file_name_ (353-355), so a path
\* set back at any time before the name changes does it, and so does the current
\* path spelled with a slash too many (311); a base name does it when set back in
\* its second.  And a roll in the second of the name, when it finds a .1 and a .2,
\* so from the third on, removes the .1 (676-697), the second newest file.
LinesKept ==
  \A n \in 1..lines : Cardinality(Holders(n)) = IF n \in lost THEN 0 ELSE 1

\* Under one name an older file has a higher number, and each file holds its
\* lines in the order they were written: log.N, ..., log.1, log read one after
\* the other are the log (rslog.cpp:627-705).
Ascending(a, b) == \A i \in DOMAIN files[a], j \in DOMAIN files[b] : files[a][i] < files[b][j]
OlderIsHigher ==
  \A f, g \in DOMAIN files :
    /\ \A i, j \in DOMAIN files[f] : i < j => files[f][i] < files[f][j]
    /\ f[1] = g[1] /\ f[2] = g[2] /\ f[3] = g[3] /\ f[4] > g[4] => Ascending(f, g)

\* Until it has grown to its limit the buffer keeps room for the zero that ends the
\* line output() prints, and holds whole all that was streamed into it but numbers
\* that were left out, which happens to one that finds fewer than kMaxNumericSize
\* characters free (floatingbuffer.cpp:52-104, logstream.cpp:105, 171, 184); at
\* the limit texts are cut and fprintf("%s") reads on behind it.
RoomForZero ==
  \A t \in Threads : LET b == stream[t] IN
    b.alloc < Large => b.len < b.alloc /\ b.len + b.out = b.text
=============================================================================
