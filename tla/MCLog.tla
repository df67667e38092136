------------------------------- MODULE MCLog -------------------------------
(***************************************************************************)
(* Calls for TLC: each conversion on numbers at the edges of its width,    *)
(* texts that just fit in the buffer and that do not, with and without an  *)
(* error, at a level that passes and at one that does not.                 *)
(***************************************************************************)
EXTENDS Log

MCThread == {"main", "pool"}

None == [num |-> 0, str |-> <<>>]
Num(n) == [num |-> n, str |-> <<>>]
Str(s) == [num |-> 0, str |-> s]

Plain(s) == [conv |-> <<>>, zero |-> FALSE, width |-> 0, arg |-> Str(s)]
String(s) == [conv |-> <<"s">>, zero |-> FALSE, width |-> 0, arg |-> Str(s)]
Number(conv, zero, width, n) == [conv |-> conv, zero |-> zero, width |-> width, arg |-> Num(n)]

Parts ==
  {Number(<<"d">>, zero, width, n) : zero \in BOOLEAN, width \in {0, 4}, n \in {-128, -7, 0, 127}}
  \cup {Number(<<"u", "d">>, FALSE, 0, n) : n \in {0, 10, 255}}
  \cup {Number(<<"u", "L">>, FALSE, 3, n) : n \in {-1, 9}}
  \cup {Number(<<"i">>, TRUE, 3, n) : n \in {-200, 5}}
  \cup {Number(<<"x", "d">>, TRUE, 2, n) : n \in {0, 15, 16, 250}}
  \cup {Number(<<"X", "i">>, FALSE, 0, n) : n \in {26, 1000}}
  \cup {Number(<<"p">>, FALSE, 0, n) : n \in {0, 1000}}
  \cup {Number(<<"P">>, FALSE, 0, n) : n \in {1, 99}}
  \cup {Number(<<".", "1", "f">>, FALSE, 0, n) : n \in {0, 4, 5, 95, -95, 125, -999}}
  \cup {Number(<<".", "2", "f">>, FALSE, 3, n) : n \in {7, 100, -1}}
  \cup {Number(<<"%">>, FALSE, 0, 0), Plain(<<"a">>), String(<<>>), String(<<"b", "c">>)}

Fillers == {String([i \in 1..k |-> "s"]) : k \in 5..9}

Core(parts, level, err) ==
  [fn |-> "ngx_log_error_core", parts |-> parts, level |-> level, err |-> err]
Stderr(parts, err) == [fn |-> "ngx_log_stderr", parts |-> parts, level |-> 0, err |-> err]

\* One part, or a part behind a text that leaves it little room or none.
MCCalls ==
  {Core(<<Plain(<<":">>), p>>, 1, FALSE) : p \in Parts}
  \cup {Core(<<f, Number(<<"d">>, FALSE, 3, -7), Plain(<<"a">>)>>, 1, err) : f \in Fillers, err \in BOOLEAN}
  \cup {Core(<<f, Number(<<".", "1", "f">>, FALSE, 0, -95)>>, 1, FALSE) : f \in Fillers}
  \cup {Core(<<Plain(<<"a">>)>>, level, TRUE) : level \in {0, 2}}
  \cup {Stderr(<<f, Number(<<"d">>, FALSE, 0, 12)>>, err) : f \in {String(<<"b">>)} \cup Fillers,
          err \in BOOLEAN}
  \cup {Stderr(<<f, Number(<<"x">>, TRUE, 2, 10)>>, FALSE) : f \in {String(<<"b">>)} \cup Fillers}
  \cup {Core(<<Number(<<"x">>, TRUE, 2, 10)>>, 1, err) : err \in BOOLEAN}

\* What stands behind a format: a NUL, or a text that may not fit.
SomeText == {<<>>, <<"b", "c", "d">>}
=============================================================================
