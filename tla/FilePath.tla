------------------------------ MODULE FilePath ------------------------------
(* The URL of a player.  player_open_input copies it into the fixed buffer   *)
(* file_path and opens what the buffer holds as a C string.  The copy stops  *)
(* behind a white character, which becomes the terminator; otherwise nothing *)
(* terminates it, and the buffer keeps what earlier URLs left behind it.     *)
EXTENDS Integers, Sequences

CONSTANTS Chars, Blank,   \* characters of a URL, '\n' or ' '
          Nul,            \* the terminator
          MaxStrlen,      \* MAX_STRLEN
          MaxLength       \* bound: length of the URLs offered

ASSUME FilePathAssumption ==
  MaxStrlen \in Nat \ {0} /\ MaxLength \in Nat /\ Blank \notin Chars /\ Nul \notin Chars \cup {Blank}

VARIABLES
  file_path,    \* indexed from 0, as in C
  refused,      \* the last call returned MAX_STRLEN_LIMIT_EXCEEDED
  opened,       \* the string last given to avformat_open_input
  url,          \* history: the URL asked for then
  longest       \* history: most characters copied by any call before that one

vars == <<file_path, refused, opened, url, longest>>

Places == 0 .. MaxStrlen - 1
Urls   == UNION {[1 .. n -> Chars \cup {Blank}] : n \in 0 .. MaxLength}

Init ==
  /\ file_path = [i \in Places |-> Nul]
  /\ opened = <<>> /\ url = <<>> /\ refused = FALSE /\ longest = 0

\* how many characters of u the loop copies before it ends or meets a blank
Copied(u) ==
  CHOOSE n \in 0 .. Len(u) :
    (\A i \in 1 .. n : u[i] # Blank) /\ (n = Len(u) \/ u[n + 1] = Blank)

MutCopy(u) ==
  LET n == Copied(u) IN
    [i \in Places |-> IF i < n THEN u[i + 1] ELSE file_path[i]]
Copy(u) ==
  LET n == Copied(u) IN
    [i \in Places |-> IF i < n THEN u[i + 1]
                      ELSE IF i = n /\ n < Len(u) THEN Nul ELSE file_path[i]]

\* a C string ends at its first terminator
CString(buffer) ==
  LET n == CHOOSE n \in 0 .. MaxStrlen :
             (\A i \in 0 .. n - 1 : buffer[i] # Nul) /\ (n = MaxStrlen \/ buffer[n] = Nul)
  IN  [i \in 1 .. n |-> buffer[i - 1]]

MutTooLong(u) == Len(u) > MaxStrlen
TooLong(u) == Len(u) >= MaxStrlen

Refuse(u) ==
  /\ TooLong(u) /\ refused' = TRUE
  /\ UNCHANGED <<file_path, opened, url, longest>>

OpenInput(u) ==
  /\ ~TooLong(u) /\ url' = u /\ refused' = FALSE
  /\ file_path' = Copy(u) /\ opened' = CString(file_path')
  /\ longest' = IF Copied(url) > longest THEN Copied(url) ELSE longest

Next == \E u \in Urls : Refuse(u) \/ OpenInput(u)
Spec == Init /\ [][Next]_vars

-----------------------------------------------------------------------------
\* However URLs follow each other, the buffer ends in a terminator, so that
\* nothing reads on behind it although no copy writes one, and what is opened
\* fits the buffer.  (player.c:102, 473-487; player.h:53, 228)
Terminated ==
  /\ file_path \in [Places -> Chars \cup {Nul}] /\ file_path[MaxStrlen - 1] = Nul
  /\ opened \in Seq(Chars) /\ Len(opened) < MaxStrlen

\* What is opened is the URL up to its first white character, unless a longer
\* URL came before and the URL has no white character to cut off its tail.
\* (player.c:478-492)
RequestedOpened ==
  LET n == Copied(url) IN
    /\ Len(opened) >= n /\ \A i \in 1 .. n : opened[i] = url[i]
    /\ n < Len(url) \/ n >= longest => Len(opened) = n
=============================================================================
