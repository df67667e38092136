------------------------------- MODULE Config -------------------------------
(***************************************************************************)
(* The settings of nginx.conf (app/ngx_c_conf.cpp, app/ngx_string.cpp):    *)
(* what CConfig::Load makes of a file and what GetIntDefault finds in it.  *)
(* A file is a sequence of tokens; a token is a word (the name of a        *)
(* setting, a digit) or a character that Load looks at, and stands for one *)
(* character where lengths are counted.                                    *)
(***************************************************************************)
EXTENDS Integers, SequencesExt

CONSTANTS
  Names,     \* names of settings, as the code spells them
  Shout,     \* Names -> the same name in capitals
  LineMax,   \* what fgets takes at once: 499
  NameMax    \* the size of ItemName: 50

Digits == [d \in {"0", "1", "2", "3"} |->
             CASE d = "0" -> 0 [] d = "1" -> 1 [] d = "2" -> 2 [] OTHER -> 3]
Blanks == {"space", "tab", "cr", "newline"}
Token == Names \cup Range(Shout) \cup DOMAIN Digits \cup Blanks \cup {"=", "#", ";", "["}

ASSUME NamesAssumption == Shout \in [Names -> STRING] /\ Names \cap Range(Shout) = {}
\* A name is a word, not one of the characters that Load looks at.
ASSUME WordsAssumption ==
  \A word \in Names \cup Range(Shout) :
    word \notin Blanks \cup DOMAIN Digits \cup {"=", "#", ";", "["}
ASSUME MaxAssumption == LineMax \in Nat \ {0} /\ NameMax \in Nat \ {0}

-----------------------------------------------------------------------------
(* Load *)

From(s, i) == SubSeq(s, i, Len(s))
Places(s, T) == {i \in 1..Len(s) : s[i] \in T}

\* fgets: up to the end of the line, or LineMax - the rest of a longer line comes
\* as a line of its own.
Piece(f) == SubSeq(f, 1, Min(Places(f, {"newline"}) \cup {LineMax, Len(f)}))

\* s without the tokens of T at its end, or at its front.
Chop(s, T) == SubSeq(s, 1, Max({0} \cup Places(s, Token \ T)))
Rtrim(s) == Chop(s, {"space"})
Ltrim(s) == From(s, Min({Len(s) + 1} \cup Places(s, Token \ {"space"})))

\* strncpy puts no end to a name that fills ItemName, and whoever reads it reads on
\* in ItemContent, which lies behind.
ItemName(name, content) ==
  IF Len(name) < NameMax THEN name ELSE SubSeq(name, 1, NameMax) \o content

\* Variant: content is not trimmed in front.
ItemUntrimmed(line) ==
  LET eq == Min(Places(line, {"="}))
      content == Rtrim(From(line, eq + 1))
  IN  [ItemName |-> Rtrim(ItemName(SubSeq(line, 1, eq - 1), content)),
       ItemContent |-> content]

Item(line) ==
  LET eq == Min(Places(line, {"="}))
      content == Ltrim(Rtrim(From(line, eq + 1)))
  IN  [ItemName |-> Rtrim(ItemName(SubSeq(line, 1, eq - 1), content)),
       ItemContent |-> content]

\* A line that is a comment, starts with a blank or opens a section is left out,
\* and one without "=".
Items(piece) ==
  LET line == Chop(piece, {"newline", "cr", "space"}) IN
  IF \/ piece[1] \in {";", "space", "#", "tab", "newline"}
     \/ line = <<>> \/ line[1] = "["
     \/ Places(line, {"="}) = {}
  THEN <<>> ELSE <<Item(line)>>

Load[f \in Seq(Token)] ==
  IF f = <<>> THEN <<>> ELSE Items(Piece(f)) \o Load[From(f, Len(Piece(f)) + 1)]

-----------------------------------------------------------------------------
(* GetString and GetIntDefault *)

strcasecmp(s, name) == Len(s) = 1 /\ s[1] \in {name, Shout[name]}

Found(conf, name) == {i \in 1..Len(conf) : strcasecmp(conf[i].ItemName, name)}

\* atoi: blanks, then digits; a file has no signs here.
Number(s) ==
  LET N[i \in 0..Len(s)] == IF i = 0 THEN 0 ELSE 10 * N[i - 1] + Digits[s[i]]
  IN  N[Len(s)]
atoi(s) ==
  LET front == From(s, Min({Len(s) + 1} \cup Places(s, Token \ Blanks)))
      rest == Min({Len(front) + 1} \cup Places(front, Token \ DOMAIN Digits))
  IN  Number(SubSeq(front, 1, rest - 1))

GetIntDefault(conf, name, def) ==
  IF Found(conf, name) = {} THEN def
  ELSE atoi(conf[Min(Found(conf, name))].ItemContent)

-----------------------------------------------------------------------------
(* What a file says, without the loops of Load *)

\* The lines of f, each by its first and last place.
Lines(f) ==
  {line \in (1..Len(f)) \X (1..Len(f)) :
     /\ line[1] <= line[2] /\ "newline" \notin {f[k] : k \in line[1]..line[2]}
     /\ line[1] = 1 \/ f[line[1] - 1] = "newline"
     /\ line[2] = Len(f) \/ f[line[2] + 1] = "newline"}

\* The lines that set the name: it comes first, and "=" after it.
SetsName(f, line, name) ==
  /\ f[line[1]] \in {name, Shout[name]}
  /\ \E e \in line[1]..line[2] :
       f[e] = "=" /\ \A k \in (line[1] + 1)..(e - 1) : f[k] = "space"
Setters(f, name) == {line \in Lines(f) : SetsName(f, line, name)}

\* The value stands between the first "=" and the end of the line, without the
\* spaces around it.
HasValue(f, line, value) ==
  \E e, v \in line[1]..line[2] :
    /\ f[e] = "=" /\ \A k \in line[1]..(e - 1) : f[k] # "="
    /\ e <= v /\ \A k \in (e + 1)..v : f[k] = "space"
    /\ v + Len(value) <= line[2] /\ SubSeq(f, v + 1, v + Len(value)) = value
    /\ \A k \in (v + Len(value) + 1)..line[2] : f[k] \in {"space", "cr"}
    /\ value # <<>> => value[1] # "space" /\ Last(value) \notin {"space", "cr"}

\* conf has for the name what the first line that sets it says.
AsWritten(conf, f, name) ==
  IF Setters(f, name) = {} THEN Found(conf, name) = {}
  ELSE /\ Found(conf, name) # {}
       /\ \E line \in Setters(f, name) :
            /\ \A other \in Setters(f, name) : line[1] <= other[1]
            /\ HasValue(f, line, conf[Min(Found(conf, name))].ItemContent)

\* No line is longer than fgets takes, and no name fills its field.
Fits(f) == \A line \in Lines(f) :
  /\ line[2] - line[1] + 2 <= LineMax
  /\ \A k \in line[1]..line[2] : f[k] = "=" /\ "=" \notin {f[l] : l \in line[1]..(k - 1)}
       => k - line[1] < NameMax
=============================================================================
