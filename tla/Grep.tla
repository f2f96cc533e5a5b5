-------------------------------- MODULE Grep --------------------------------
(***************************************************************************)
(* user/grep.c: the matcher of regular expressions, and the loop that      *)
(* reads a file in pieces and looks at each line.                          *)
(*                                                                         *)
(* Patterns, lines and files are sequences of characters; read() returns   *)
(* any part of what it is asked for, as it does from a pipe.               *)
(***************************************************************************)
EXTENDS Integers, Sequences, SequencesExt, FiniteSetsExt

CONSTANTS
  Jobs,      \* what is searched: [re, file]
  BUFSIZE    \* sizeof(buf)

ASSUME GrepAssumption == BUFSIZE \in Nat \ {0, 1}

VARIABLES
  job,       \* chosen once
  got,       \* how much of the file has been read
  m,         \* how much of it is in buf, at the end of what was read
  out,       \* the lines that were written
  over       \* grep() has returned

grepVars == <<job, got, m, out, over>>

-----------------------------------------------------------------------------
RECURSIVE Matchhere(_, _), Matchstar(_, _, _)

Matchhere(re, text) ==
  CASE re = <<>> -> TRUE
    [] Len(re) > 1 /\ re[2] = "*" -> Matchstar(re[1], Tail(Tail(re)), text)
    [] re = <<"$">> -> text = <<>>
    [] OTHER -> text # <<>> /\ re[1] \in {".", text[1]} /\ Matchhere(Tail(re), Tail(text))

Matchstar(c, re, text) ==
  \/ Matchhere(re, text)
  \/ text # <<>> /\ c \in {".", text[1]} /\ Matchstar(c, re, Tail(text))

(* Mutant: the empty end of the text is not looked at.                     *)
MatchNotEmpty(re, text) ==
  IF re # <<>> /\ re[1] = "^" THEN Matchhere(Tail(re), text)
  ELSE \E k \in 1 .. Len(text) : Matchhere(re, SubSeq(text, k, Len(text)))

Match(re, text) ==
  IF re # <<>> /\ re[1] = "^" THEN Matchhere(Tail(re), text)
  ELSE \E k \in 1 .. Len(text) + 1 : Matchhere(re, SubSeq(text, k, Len(text)))

-----------------------------------------------------------------------------
(* The lines of a text that end in it, and where the last of them ends.    *)
Ends(s) == {k \in DOMAIN s : s[k] = "\n"}
Lines(s) ==
  LET ends == SetToSortSeq(Ends(s), <)
  IN [n \in DOMAIN ends |-> SubSeq(s, IF n = 1 THEN 1 ELSE ends[n - 1] + 1, ends[n] - 1)]

(* read(), and the loop over the whole lines; what is left moves to the    *)
(* front of buf.                                                           *)
GrepRead ==
  LET room == BUFSIZE - m - 1
  IN \E n \in 1 .. room :
       LET buf == SubSeq(job.file, got - m + 1, got + n)
       IN /\ ~over /\ got + n <= Len(job.file)
          /\ got' = got + n
          /\ out' = out \o SelectSeq(Lines(buf), LAMBDA l : Match(job.re, l))
          /\ m' = Len(buf) - Max(Ends(buf) \cup {0})
          /\ UNCHANGED <<job, over>>

(* read() returns 0: at the end of the file, or when there is no room.     *)
GrepEnd ==
  /\ ~over /\ (got = Len(job.file) \/ BUFSIZE - m - 1 = 0)
  /\ over' = TRUE
  /\ UNCHANGED <<job, got, m, out>>

GrepInit(jobs) == job \in jobs /\ got = 0 /\ m = 0 /\ out = <<>> /\ over = FALSE

GrepNext == GrepRead \/ GrepEnd

GrepSpec == GrepInit(Jobs) /\ [][GrepNext]_grepVars

-----------------------------------------------------------------------------
(* Properties.                                                             *)

(* What a pattern means: characters, each of them starred or not, between  *)
(* the anchors.                                                            *)
RECURSIVE Items(_)
Items(re) ==
  CASE re = <<>> -> <<>>
    [] Len(re) > 1 /\ re[2] = "*" -> <<[c |-> re[1], star |-> TRUE]>> \o Items(Tail(Tail(re)))
    [] OTHER -> <<[c |-> re[1], star |-> FALSE]>> \o Items(Tail(re))

(* There is a piece of the text for every item, one after the other.       *)
Matches(re, text) ==
  LET first == re # <<>> /\ re[1] = "^"
      body == IF first THEN Tail(re) ELSE re
      last == body # <<>> /\ Last(body) = "$"
      items == Items(IF last THEN Front(body) ELSE body)
      N == Len(items)
  IN \E cut \in [0 .. N -> 0 .. Len(text)] :
       /\ (first => cut[0] = 0) /\ (last => cut[N] = Len(text))
       /\ \A k \in 1 .. N :
            /\ IF items[k].star THEN cut[k - 1] <= cut[k] ELSE cut[k] = cut[k - 1] + 1
            /\ \A j \in cut[k - 1] + 1 .. cut[k] : items[k].c \in {".", text[j]}

(* The lines before the first one that does not fit into buf.              *)
Seen(file) ==
  LET all == Lines(file)
      long == {n \in DOMAIN all : Len(all[n]) + 1 >= BUFSIZE}
  IN IF long = {} THEN all ELSE SubSeq(all, 1, Min(long) - 1)

(* grep() writes the lines that match, each once and in order, however     *)
(* read() cuts the file into pieces: those before the first line that is   *)
(* too long for buf, at which it stops.  A line matches when its           *)
(* characters can be divided among the items of the pattern; the           *)
(* backtracking in matchstar() finds such a division whenever there is one.*)
GrepExact == over => out = SelectSeq(Seen(job.file), LAMBDA l : Matches(job.re, l))
=============================================================================
