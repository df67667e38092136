-------------------------------- MODULE Log --------------------------------
(***************************************************************************)
(* The log (app/ngx_log.cpp) and the formatting behind it                  *)
(* (app/ngx_printf.cpp).  A line is put together in a buffer of            *)
(* NGX_MAX_ERROR_STR characters and written to the log file, or to stderr  *)
(* when that fails; ngx_log_stderr writes to stderr first and gives what   *)
(* it wrote to the log as a format.  A text is a sequence of characters;   *)
(* the time, the level and the process number in front of a line are one   *)
(* character each, and so are the parts of an error's text.                *)
(*                                                                         *)
(* A call is a list of parts: a character, or a directive and its          *)
(* argument.  What a part means does not use the loops that format it.     *)
(***************************************************************************)
EXTENDS Integers, SequencesExt

CONSTANTS
  NGX_MAX_ERROR_STR,  \* 2048
  Word, Long,         \* 2^32 and 2^64
  PointerWidth,       \* 16
  LogLevel,           \* as nginx.conf has it
  Behind,             \* what may stand in memory behind a format, up to a NUL
  Thread, Calls,
  MaxCalls            \* a bound

ASSUME WidthsAssumption ==
  NGX_MAX_ERROR_STR \in Nat /\ Word \in Nat \ {0} /\ Long \in Nat \ {0} /\ PointerWidth \in Nat
ASSUME LimitsAssumption == LogLevel \in Nat /\ MaxCalls \in Nat

VARIABLES
  ngx_log,  \* the file and the level
  phase,    \* where the program stands: before ngx_log_init, after it, after freeresource
  at,       \* Thread -> where it stands in ngx_log_stderr, and what it gives to the log
  file, stderr,  \* the lines written
  made      \* the calls made, with what was due and what may excuse a loss

vars == <<ngx_log, phase, at, file, stderr, made>>

-----------------------------------------------------------------------------
(* ngx_vslprintf *)

Figures == <<"0", "1", "2", "3", "4", "5", "6", "7", "8", "9">>
hex == Figures \o <<"a", "b", "c", "d", "e", "f">>
HEX == Figures \o <<"A", "B", "C", "D", "E", "F">>

From(s, i) == SubSeq(s, i, Len(s))
First(s, n) == SubSeq(s, 1, Min({n, Len(s)}))
Room(out) == NGX_MAX_ERROR_STR - Len(out)

\* The first place from i on where f has none of T; behind a format is the NUL.
Past(f, i, T) == Min({k \in i..(Len(f) + 1) : k = Len(f) + 1 \/ f[k] \notin T})
At(f, i) == IF i <= Len(f) THEN f[i] ELSE "NUL"
Figure == [c \in ToSet(Figures) |-> (CHOOSE i \in DOMAIN Figures : Figures[i] = c) - 1]
Value(s) == FoldLeft(LAMBDA n, c : 10 * n + Figure[c], 0, s)

\* What stands between "%" and the character that says what is printed.
Directive(f) ==
  LET w == Past(f, 2, ToSet(Figures))
      x == Past(f, w, {"u", "x", "X"})
      v == IF At(f, x) = "." THEN Past(f, x + 1, ToSet(Figures)) ELSE x
      conv == At(f, v)
      hexes == {k \in w..(x - 1) : f[k] # "u"}
  IN [zero |-> IF At(f, 2) = "0" \/ conv = "p" THEN "0" ELSE " ",
      width |-> IF conv = "p" THEN PointerWidth ELSE Value(SubSeq(f, 2, w - 1)),
      sign |-> conv = "P" \/ (w = x /\ conv # "p"),
      digits |-> IF conv = "p" THEN HEX ELSE IF hexes = {} THEN Figures
                 ELSE IF f[Max(hexes)] = "X" THEN HEX ELSE hex,
      frac_width |-> Value(SubSeq(f, x + 1, v - 1)),
      conv |-> conv,
      rest |-> From(f, v + 1)]

\* The digits of n, the last one first found.
Numeral[n \in Nat, digits \in {Figures, hex, HEX}] ==
  IF n < Len(digits) THEN <<digits[n + 1]>>
  ELSE Append(Numeral[n \div Len(digits), digits], digits[(n % Len(digits)) + 1])

\* Variant: what does not fit is written all the same.
NumUnbounded(out, n, zero, digits, width) ==
  LET num == Numeral[n, digits]
      padded == out \o [i \in 1..Min({Max({width - Len(num), 0}), Room(out)}) |-> zero]
  IN  padded \o num

ngx_sprintf_num(out, n, zero, digits, width) ==
  LET num == Numeral[n, digits]
      padded == out \o [i \in 1..Min({Max({width - Len(num), 0}), Room(out)}) |-> zero]
  IN  padded \o First(num, Room(padded))

\* va_arg: a number stands in Long, and an int is the lower part of it.
Signed(n, size) == IF 2 * (n % size) < size THEN n % size ELSE (n % size) - size
Argument(d, arg) ==
  LET size == IF d.conv \in {"d", "P"} THEN Word ELSE Long IN
  IF d.sign THEN Signed(arg.num, size) ELSE arg.num % size

PrintNumber(out, d, arg) ==
  LET n == Argument(d, arg)
      front == IF n < 0 THEN Append(out, "-") ELSE out
  IN  ngx_sprintf_num(front, Max({n, -n}), d.zero, d.digits, d.width)

\* %f of a number of hundredths; the last place of the fraction is rounded.
PrintDouble(out, d, arg) ==
  LET f == Max({arg.num, -arg.num})
      scale == 10 ^ d.frac_width
      frac == IF d.frac_width = 0 THEN 0 ELSE ((f % 100) * scale + 50) \div 100
      carry == IF d.frac_width > 0 /\ frac = scale THEN 1 ELSE 0
      whole == ngx_sprintf_num(IF arg.num < 0 THEN Append(out, "-") ELSE out,
                               f \div 100 + carry, d.zero, Figures, d.width)
      point == IF Room(whole) > 0 THEN Append(whole, ".") ELSE whole
  IN  IF d.frac_width = 0 THEN whole
      ELSE ngx_sprintf_num(point, IF carry = 1 THEN 0 ELSE frac, "0", Figures, d.frac_width)

\* What one round of the loop prints.
Printed(out, d, arg) ==
  CASE d.conv = "s" -> out \o First(arg.str, Room(out))
    [] d.conv = "f" -> PrintDouble(out, d, arg)
    [] d.conv \in {"d", "i", "L", "p", "P"} -> PrintNumber(out, d, arg)
    [] OTHER -> Append(out, d.conv)

Takes(d) == d.conv \in {"s", "f", "d", "i", "L", "p", "P"}

\* What is left of a format and of its arguments, what is printed so far, and what stands
\* behind the format.
Printing ==
  [fmt : Seq(STRING), args : Seq([num : Int, str : Seq(STRING)]), out : Seq(STRING),
   behind : Seq(STRING)]

\* In a format that ends in a directive the NUL is printed, and the loop goes on with what
\* stands behind it.
ngx_vslprintf[s \in Printing] ==
  IF s.fmt = <<>> \/ Room(s.out) <= 0 THEN s.out
  ELSE IF Head(s.fmt) # "%"
  THEN ngx_vslprintf[[s EXCEPT !.fmt = Tail(@), !.out = Append(@, Head(s.fmt))]]
  ELSE LET d == Directive(s.fmt) IN
       ngx_vslprintf[[fmt |-> IF d.conv = "NUL" THEN s.behind ELSE d.rest,
                      behind |-> s.behind,
                      args |-> IF Takes(d) THEN Tail(s.args) ELSE s.args,
                      out |-> Printed(s.out, d, IF Takes(d) THEN Head(s.args) ELSE <<>>)]]

-----------------------------------------------------------------------------
(* Lines *)

err_levels == <<"stderr", "emerg", "alert", "crit", "error", "warn", "notice", "info", "debug">>
ErrorText == <<" (", "errno", ") ">>

\* The text of an error is put at the end if it fits.
ngx_log_errno(p, err) ==
  IF err /\ Len(p) + Len(ErrorText) < NGX_MAX_ERROR_STR THEN p \o ErrorText ELSE p

\* Variant: a buffer that is full keeps its last character.
EndLineLate(p) == Append(p, "\n")

EndLine(p) == Append(First(p, NGX_MAX_ERROR_STR - 2), "\n")

Heading(level) == <<"time", err_levels[level + 1], "pid">>

-----------------------------------------------------------------------------
(* Calls, and what they mean *)

\* The part of a format, and its argument if it takes one.
Fmt(part) ==
  IF part.conv = <<>> THEN part.arg.str
  ELSE <<"%">> \o (IF part.zero THEN <<"0">> ELSE <<>>)
       \o (IF part.width > 0 THEN <<Figures[part.width + 1]>> ELSE <<>>) \o part.conv
TakesArgument(part) == part.conv \notin {<<>>, <<"%">>}

Format(c) == FlattenSeq([i \in DOMAIN c.parts |-> Fmt(c.parts[i])])
Args(c) ==
  LET taking == SelectSeq(c.parts, TakesArgument) IN [i \in DOMAIN taking |-> taking[i].arg]

\* The text of the call c after front.
Text(c, front, behind) ==
  ngx_vslprintf[[fmt |-> Format(c), args |-> Args(c), out |-> front, behind |-> behind]]

\* What C takes for the text: up to the first NUL.
CString(s) == SubSeq(s, 1, Min({k \in 0..Len(s) : k = Len(s) \/ s[k + 1] = "NUL"}))

\* A number has as many digits as it needs, and at least one.
Written(n, digits) ==
  LET base == Len(digits)
      length == CHOOSE k \in 1..(n + 1) : n < base ^ k /\ (k > 1 => base ^ (k - 1) <= n)
  IN  [i \in 1..length |-> digits[((n \div base ^ (length - i)) % base) + 1]]
Padded(text, width, zero) ==
  [i \in 1..Max({width - Len(text), 0}) |-> IF zero THEN "0" ELSE " "] \o text
Sign(n) == IF n < 0 THEN <<"-">> ELSE <<>>
Abs(n) == Max({n, -n})

Meaning(part) ==
  LET n == part.arg.num
      Integer(digits, value) ==
        Sign(value) \o Padded(Written(Abs(value), digits), part.width, part.zero)
      Places(k) ==
        LET r == (Abs(n) * 10 ^ k + 50) \div 100 IN
        Sign(n) \o Padded(Written(r \div 10 ^ k, Figures), part.width, part.zero)
        \o <<".">> \o Padded(Written(r % 10 ^ k, Figures), k, TRUE)
  IN CASE part.conv \in {<<>>, <<"s">>} -> part.arg.str
       [] part.conv = <<"%">> -> <<"%">>
       [] part.conv \in {<<"d">>, <<"i">>, <<"L">>, <<"P">>} -> Integer(Figures, n)
       [] part.conv = <<"u", "d">> -> Integer(Figures, n % Word)
       [] part.conv \in {<<"u", "i">>, <<"u", "L">>} -> Integer(Figures, n % Long)
       [] part.conv = <<"x", "d">> -> Integer(hex, n % Word)
       [] part.conv = <<"X", "i">> -> Integer(HEX, n % Long)
       [] part.conv = <<"p">> -> Padded(Written(n % Long, HEX), PointerWidth, TRUE)
       [] part.conv = <<".", "1", "f">> -> Places(1)
       [] part.conv = <<".", "2", "f">> -> Places(2)

\* The line that a call means: the front, the parts and the error if there is room, cut
\* off so that its end fits.
Meant(front, text, err) ==
  LET all == front \o text IN
  Append(First(IF err /\ Len(all) + Len(ErrorText) < NGX_MAX_ERROR_STR
               THEN all \o ErrorText ELSE all, NGX_MAX_ERROR_STR - 2), "\n")

\* "%02x" of the read handler is no directive: the x asks for a conversion behind it.
\* A call may end in it, and means the rest of the memory with it.
Unfinished(part) == part.conv = <<"x">>
MeantText(c, behind) ==
  FlattenSeq([i \in DOMAIN c.parts |->
    IF Unfinished(c.parts[i]) THEN <<"NUL">> \o behind ELSE Meaning(c.parts[i])])

\* As in the source, no call of ngx_log_stderr prints a "%", and only the last part may
\* be unfinished.
ASSUME CallsAssumption == \A c \in Calls :
  /\ c.fn = "ngx_log_stderr" => "%" \notin ToSet(MeantText(c, <<>>))
  /\ \A i \in DOMAIN c.parts : Unfinished(c.parts[i]) => i = Len(c.parts)

\* A directive behind a format would ask for an argument that nobody gave.
ASSUME BehindAssumption == \A text \in Behind : "%" \notin ToSet(text)

-----------------------------------------------------------------------------
(* Behaviour *)

MainThread == CHOOSE t \in Thread : TRUE
Idle == <<>>

Init ==
  /\ ngx_log = [fd |-> "none", log_level |-> 0]
  /\ phase = "start"
  /\ at = [t \in Thread |-> Idle]
  /\ file = <<>> /\ stderr = <<>>
  /\ made = <<>>

\* What is remembered of a call: the line it means, whether the level lets it pass,
\* whether a device refused it, and how far its text reached in the buffer.
Made(meant, due, refused, text) ==
  made' = Append(made, [line |-> meant, due |-> due, refused |-> refused, reach |-> Len(text)])

\* write to stderr, which may fail.
ToStderr(line, works) == stderr' = IF works THEN Append(stderr, line) ELSE stderr

\* Variant: a failure to write to the log file is the end of the line.
WriteFileOnly(line, level, disk, works) ==
  IF level > ngx_log.log_level THEN UNCHANGED <<file, stderr>>
  ELSE IF ngx_log.fd = "file"
  THEN file' = (IF disk = "works" THEN Append(file, line) ELSE file) /\ UNCHANGED stderr
  ELSE ToStderr(line, works) /\ UNCHANGED file

\* A line above the level is dropped; one that the disk has no room for is lost; any
\* other failure sends it to stderr.
Write(line, level, disk, works) ==
  IF level > ngx_log.log_level THEN UNCHANGED <<file, stderr>>
  ELSE IF ngx_log.fd = "file" /\ disk = "works"
  THEN file' = Append(file, line) /\ UNCHANGED stderr
  ELSE IF ngx_log.fd = "file" /\ disk = "full" THEN UNCHANGED <<file, stderr>>
  ELSE ToStderr(line, works) /\ UNCHANGED file

\* Whether the line is lost by what the devices do.
Refused(disk, works) ==
  /\ ~works \/ (ngx_log.fd = "file" /\ disk = "full")
  /\ ngx_log.fd = "file" => disk # "works"

ngx_log_error_core(level, err, text, meant) ==
  \E disk \in {"works", "full", "fails"}, works \in BOOLEAN :
    /\ Write(EndLine(ngx_log_errno(text, err)), level, disk, works)
    /\ Made(Meant(Heading(level), meant, err), level <= ngx_log.log_level,
            Refused(disk, works), text)

MayCall(t) ==
  /\ at[t] = Idle
  /\ t = MainThread \/ phase = "worker"
  /\ Len(made) < MaxCalls

LogError(t, c) ==
  /\ c.fn = "ngx_log_error_core"
  /\ MayCall(t)
  /\ \E behind \in Behind :
       ngx_log_error_core(c.level, c.err, Text(c, Heading(c.level), behind), MeantText(c, behind))
  /\ UNCHANGED <<ngx_log, phase, at>>

\* The first half of ngx_log_stderr: the line goes to stderr, and without its end it is
\* kept for the log if that is a file.
ngx_log_stderr(t, c) ==
  /\ c.fn = "ngx_log_stderr"
  /\ MayCall(t)
  /\ \E behind \in Behind :
     LET text == Text(c, <<"nginx: ">>, behind)
         line == EndLine(ngx_log_errno(text, c.err)) IN
     /\ \E works \in BOOLEAN :
          /\ ToStderr(line, works)
          /\ Made(Meant(<<"nginx: ">>, MeantText(c, behind), c.err), TRUE, ~works, text)
     /\ at' = [at EXCEPT ![t] = IF ngx_log.fd = "file" THEN Front(line) ELSE Idle]
  /\ UNCHANGED <<ngx_log, phase, file>>

\* The second half: the line is the format of a line of the log.
GiveToLog(t) ==
  /\ at[t] # Idle
  /\ ngx_log_error_core(0, FALSE,
       ngx_vslprintf[[fmt |-> CString(at[t]), args |-> <<>>, out |-> Heading(0),
                      behind |-> <<>>]], CString(at[t]))
  /\ at' = [at EXCEPT ![t] = Idle]
  /\ UNCHANGED <<ngx_log, phase>>

\* The level is set first, so that a failure to open the file is told at that level;
\* ngx_log_stderr says it on stderr alone, since no file is open.
ngx_log_init ==
  /\ phase = "start"
  /\ phase' = "running"
  /\ \/ /\ ngx_log' = [fd |-> "file", log_level |-> LogLevel]
        /\ UNCHANGED <<stderr, made>>
     \/ /\ ngx_log' = [fd |-> "stderr", log_level |-> LogLevel]
        /\ LET text == <<"nginx: ", "could not open error log file">> IN
           \E works \in BOOLEAN :
             /\ ToStderr(EndLine(ngx_log_errno(text, TRUE)), works)
             /\ Made(Meant(<<"nginx: ">>, Tail(text), TRUE), TRUE, ~works, text)
  /\ UNCHANGED <<at, file>>

\* A worker process has the log of its master, and threads that share it.
Fork ==
  /\ phase = "running" /\ at[MainThread] = Idle
  /\ phase' = "worker"
  /\ UNCHANGED <<ngx_log, at, file, stderr, made>>

\* At its end the first process closes the log file.
freeresource ==
  /\ phase = "running" /\ at[MainThread] = Idle
  /\ phase' = "freed"
  /\ ngx_log' = IF ngx_log.fd = "file" THEN [ngx_log EXCEPT !.fd = "none"] ELSE ngx_log
  /\ UNCHANGED <<at, file, stderr, made>>

Next ==
  \/ \E t \in Thread, c \in Calls : LogError(t, c) \/ ngx_log_stderr(t, c)
  \/ \E t \in Thread : GiveToLog(t)
  \/ ngx_log_init \/ Fork \/ freeresource

Spec == Init /\ [][Next]_vars

-----------------------------------------------------------------------------
(* Correctness *)

\* No line, in the file, on stderr or on its way, is longer than the buffer lets it be,
\* and each ends where the next one begins (EndLine of both functions).
TypeOK ==
  /\ ngx_log \in [fd : {"none", "stderr", "file"}, log_level : {0, LogLevel}]
  /\ phase \in {"start", "running", "worker", "freed"}
  /\ \A line \in ToSet(file) \cup ToSet(stderr) :
       Len(line) \in 1..(NGX_MAX_ERROR_STR - 1) /\ Last(line) = "\n"
  /\ \A t \in Thread : Len(at[t]) \in 0..(NGX_MAX_ERROR_STR - 2)

\* What is logged is what was meant, whatever the widths, the signs, the rounding and the
\* room that is left: every line in the file or on stderr is the line that some call
\* means, a line that the level lets pass is there as often as it was meant unless a
\* device refused it, and no text was written past the buffer (ngx_vslprintf and
\* ngx_sprintf_num), also when a format ends in a directive and the loop goes on behind it.
AsMeant ==
  LET meant(line, S) == Cardinality({k \in DOMAIN made : made[k].line = line /\ made[k] \in S})
      there(line) == Cardinality({k \in DOMAIN file : file[k] = line})
                     + Cardinality({k \in DOMAIN stderr : stderr[k] = line})
      kept == {m \in ToSet(made) : m.due /\ ~m.refused}
  IN /\ \A line \in ToSet(file) \cup ToSet(stderr) \cup {m.line : m \in ToSet(made)} :
          there(line) = meant(line, kept)
     /\ \A m \in ToSet(made) : m.reach <= NGX_MAX_ERROR_STR
=============================================================================
