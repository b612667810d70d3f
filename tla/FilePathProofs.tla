--------------------------- MODULE FilePathProofs ---------------------------
(* The URL buffer for every size and every alphabet.  That what is opened is *)
(* the URL asked for rests on what earlier URLs can have left in the buffer: *)
(* from the longest copy so far onwards it is still empty.                   *)
EXTENDS FilePath, WellFoundedInduction, TLAPS

Text == Seq(Chars \cup {Blank})

\* nothing was ever written behind the longest copy
Clean ==
  \A i \in Places : i >= longest /\ i >= Copied(url) => file_path[i] = Nul

IndInv ==
  Terminated /\ RequestedOpened /\ Clean /\ url \in Text /\ longest \in Nat

-----------------------------------------------------------------------------
(* Both loops look for the first place where something holds: a set of       *)
(* numbers that is not empty has a least element.                            *)

Below == {x \in Nat \X Nat : x[1] < x[2]}

LEMMA BelowWellFounded == IsWellFoundedOn(Below, Nat)
BY NatLessThanWellFounded, Zenon DEF Below, OpToRel

LEMMA Least ==
  ASSUME NEW T \in SUBSET Nat, T # {} PROVE \E x \in T : \A y \in T : x <= y
<1>1. PICK x \in T : \A y \in T : <<y, x>> \notin Below
  BY BelowWellFounded, WFMin, Zenon
<1>2. ASSUME NEW y \in T PROVE x <= y
  <2>1. x \in Nat /\ y \in Nat
    OBVIOUS
  <2>2. y < x => <<y, x>> \in Below
    BY <2>1 DEF Below
  <2> QED BY <1>1, <2>1, <2>2
<1> QED BY <1>2

\* The loop of player_open_input copies the characters before the first white
\* one, or all of them.  (player.c:478-487)
LEMMA CopiedUpToBlank ==
  ASSUME NEW u \in Text
  PROVE  /\ Copied(u) \in 0 .. Len(u)
         /\ \A i \in 1 .. Copied(u) : u[i] # Blank
         /\ Copied(u) = Len(u) \/ u[Copied(u) + 1] = Blank
<1> DEFINE Ends == {n \in 0 .. Len(u) : n = Len(u) \/ u[n + 1] = Blank}
<1>1. Len(u) \in Nat
  BY DEF Text
<1>2. PICK n \in Ends : \A m \in Ends : n <= m
  <2>1. Ends \in SUBSET Nat /\ Len(u) \in Ends
    BY <1>1
  <2> QED BY <2>1, Least
<1>3. ASSUME NEW i \in 1 .. n PROVE u[i] # Blank
  <2>1. i - 1 \in 0 .. Len(u) /\ i - 1 < n /\ (i - 1) + 1 = i
    BY <1>1, <1>2
  <2>2. u[i] = Blank => i - 1 \in Ends
    BY <2>1
  <2>3. i - 1 \in Ends => n <= i - 1
    BY <1>2
  <2>4. n \in Nat
    BY <1>1, <1>2
  <2> QED BY <2>1, <2>2, <2>3, <2>4
<1>4. n \in 0 .. Len(u) /\ (\A i \in 1 .. n : u[i] # Blank) /\ (n = Len(u) \/ u[n + 1] = Blank)
  BY <1>2, <1>3
<1> HIDE DEF Ends
<1> QED BY <1>4 DEF Copied

\* The length of the C string in a buffer.  (player.c:492)
Length(buffer) ==
  CHOOSE n \in 0 .. MaxStrlen :
    (\A i \in 0 .. n - 1 : buffer[i] # Nul) /\ (n = MaxStrlen \/ buffer[n] = Nul)

LEMMA LengthUpToNul ==
  ASSUME NEW buffer
  PROVE  /\ Length(buffer) \in 0 .. MaxStrlen
         /\ \A i \in 0 .. Length(buffer) - 1 : buffer[i] # Nul
         /\ Length(buffer) = MaxStrlen \/ buffer[Length(buffer)] = Nul
<1> DEFINE Ends == {n \in 0 .. MaxStrlen : n = MaxStrlen \/ buffer[n] = Nul}
<1>1. MaxStrlen \in Nat
  BY FilePathAssumption
<1>2. PICK n \in Ends : \A m \in Ends : n <= m
  <2>1. Ends \in SUBSET Nat /\ MaxStrlen \in Ends
    BY <1>1
  <2> QED BY <2>1, Least
<1>3. ASSUME NEW i \in 0 .. n - 1 PROVE buffer[i] # Nul
  BY <1>1, <1>2
<1>4. n \in 0 .. MaxStrlen /\ (\A i \in 0 .. n - 1 : buffer[i] # Nul) /\ (n = MaxStrlen \/ buffer[n] = Nul)
  BY <1>2, <1>3
<1> HIDE DEF Ends
<1> QED BY <1>4 DEF Length

LEMMA StringInBuffer ==
  ASSUME NEW buffer \in [Places -> Chars \cup {Nul}]
  PROVE  /\ Len(CString(buffer)) = Length(buffer)
         /\ CString(buffer) \in Seq(Chars)
         /\ \A i \in 1 .. Length(buffer) : CString(buffer)[i] = buffer[i - 1]
<1>1. CString(buffer) = [i \in 1 .. Length(buffer) |-> buffer[i - 1]]
  BY DEF CString, Length
<1>2. Length(buffer) \in Nat /\ Length(buffer) <= MaxStrlen /\ MaxStrlen \in Nat
  BY LengthUpToNul, FilePathAssumption
<1>3. ASSUME NEW i \in 1 .. Length(buffer) PROVE buffer[i - 1] \in Chars
  <2>1. i - 1 \in 0 .. Length(buffer) - 1 /\ i - 1 \in Places
    BY <1>2 DEF Places
  <2>2. buffer[i - 1] # Nul
    BY <2>1, LengthUpToNul
  <2> QED BY <2>1, <2>2
<1> QED BY <1>1, <1>2, <1>3

-----------------------------------------------------------------------------

LEMMA InitIndInv == Init => IndInv
<1> SUFFICES ASSUME Init PROVE IndInv
  OBVIOUS
<1>1. MaxStrlen - 1 \in Places /\ MaxStrlen > 0
  BY FilePathAssumption DEF Places
<1>2. url \in Text /\ Len(url) = 0 /\ Len(opened) = 0 /\ opened \in Seq(Chars)
  BY DEF Init, Text
<1>3. Copied(url) = 0
  BY <1>2, CopiedUpToBlank
<1>4. RequestedOpened
  BY <1>2, <1>3 DEF RequestedOpened, Init
<1> QED
  BY <1>1, <1>2, <1>4 DEF Init, IndInv, Terminated, Clean

\* a URL that is not refused
LEMMA OpenInputStep ==
  ASSUME IndInv, NEW u \in Urls, OpenInput(u) PROVE IndInv'
<1>1. PICK n \in 0 .. MaxLength : u \in [1 .. n -> Chars \cup {Blank}]
  BY DEF Urls
<1>2. u \in Text /\ Len(u) \in Nat
  BY <1>1, FilePathAssumption DEF Text
<1> DEFINE k == Copied(u)
           o == Copied(url)
<1>3. /\ k \in 0 .. Len(u)
      /\ \A i \in 1 .. k : u[i] # Blank
      /\ k = Len(u) \/ u[k + 1] = Blank
  BY <1>2, CopiedUpToBlank
<1>4. o \in Nat /\ longest \in Nat
  <2>1. url \in Text /\ Len(url) \in Nat
    BY DEF IndInv, Text
  <2> QED BY <2>1, CopiedUpToBlank DEF IndInv
<1>5. Len(u) < MaxStrlen /\ MaxStrlen \in Nat \ {0}
  BY <1>2, FilePathAssumption DEF OpenInput, TooLong
<1>6. /\ url' = u /\ opened' = CString(file_path')
      /\ longest' = IF o > longest THEN o ELSE longest
      /\ file_path' = [i \in Places |-> IF i < k THEN u[i + 1]
                                        ELSE IF i = k /\ k < Len(u) THEN Nul ELSE file_path[i]]
  BY DEF OpenInput, Copy
<1>7. Copied(url)' = k
  BY <1>6
<1> HIDE DEF k, o
<1>8. longest' \in Nat /\ longest' >= longest /\ longest' >= o
  BY <1>4, <1>6
<1>9. \A i \in 1 .. k : u[i] \in Chars
  <2>1. \A i \in 1 .. Len(u) : u[i] \in Chars \cup {Blank}
    BY <1>2 DEF Text
  <2> QED BY <1>2, <1>3, <2>1
<1>10. file_path' \in [Places -> Chars \cup {Nul}]
  <2>1. ASSUME NEW i \in Places PROVE i < k => u[i + 1] \in Chars
    BY <1>3, <1>9, <1>2 DEF Places
  <2> QED BY <1>6, <2>1 DEF IndInv, Terminated
<1>11. \A i \in Places : i < k => file_path'[i] = u[i + 1] /\ file_path'[i] # Nul
  <2>1. ASSUME NEW i \in Places, i < k PROVE u[i + 1] \in Chars
    BY <1>3, <1>9, <1>2, <2>1 DEF Places
  <2> QED BY <1>6, <2>1, FilePathAssumption
<1>12. \A i \in Places : i >= k /\ file_path[i] = Nul => file_path'[i] = Nul
  BY <1>2, <1>3, <1>6 DEF Places
<1>13. MaxStrlen - 1 \in Places /\ file_path'[MaxStrlen - 1] = Nul
  BY <1>2, <1>3, <1>5, <1>12 DEF IndInv, Terminated, Places
<1>14. Clean'
  <2>1. ASSUME NEW i \in Places, i >= longest', i >= k PROVE file_path'[i] = Nul
    <3>1. i >= longest /\ i >= o
      BY <1>4, <1>8, <2>1 DEF Places
    <3>2. file_path[i] = Nul
      BY <3>1 DEF IndInv, Clean, o
    <3> QED BY <1>12, <2>1, <3>2
  <2> QED BY <1>7, <2>1 DEF Clean, Places
<1> DEFINE m == Length(file_path')
<1>15. /\ m \in 0 .. MaxStrlen
       /\ \A i \in 0 .. m - 1 : file_path'[i] # Nul
       /\ m = MaxStrlen \/ file_path'[m] = Nul
  BY LengthUpToNul
<1>16. /\ Len(opened') = m /\ opened' \in Seq(Chars)
       /\ \A i \in 1 .. m : opened'[i] = file_path'[i - 1]
  BY <1>6, <1>10, StringInBuffer
<1> HIDE DEF m
<1>17. m < MaxStrlen
  <2>1. MaxStrlen - 1 \notin 0 .. m - 1
    BY <1>13, <1>15
  <2> QED BY <1>5, <1>15, <2>1
<1>18. k <= m /\ k \in Places
  <2>1. m \in Places /\ k \in Places
    BY <1>2, <1>3, <1>5, <1>15, <1>17 DEF Places
  <2>2. ~(m < k)
    BY <1>11, <1>15, <1>17, <1>5, <2>1
  <2> QED BY <1>3, <1>2, <1>15, <1>5, <2>1, <2>2
<1>19. \A i \in 1 .. k : opened'[i] = u[i]
  <2>1. ASSUME NEW i \in 1 .. k PROVE opened'[i] = u[i]
    <3>1. i \in 1 .. m /\ i - 1 \in Places /\ i - 1 < k /\ (i - 1) + 1 = i
      BY <1>2, <1>3, <1>5, <1>15, <1>17, <1>18 DEF Places
    <3> QED BY <1>11, <1>16, <3>1
  <2> QED BY <2>1
<1>20. k < Len(u) \/ k >= longest' => m = k
  <2>1. ASSUME k < Len(u) \/ k >= longest' PROVE file_path'[k] = Nul
    <3>1. CASE k < Len(u)
      BY <1>2, <1>3, <1>6, <1>18, <3>1 DEF Places
    <3>2. CASE k >= longest'
      BY <1>3, <1>2, <1>7, <1>14, <1>18, <3>2 DEF Clean, Places
    <3> QED BY <2>1, <3>1, <3>2
  <2>2. file_path'[k] = Nul => ~(k < m)
    BY <1>2, <1>3, <1>5, <1>15
  <2> QED BY <1>18, <2>1, <2>2, <1>15, <1>5, <1>3, <1>2
<1>21. RequestedOpened'
  BY <1>6, <1>7, <1>16, <1>18, <1>19, <1>20 DEF RequestedOpened
<1>22. Terminated'
  BY <1>10, <1>13, <1>16, <1>17 DEF Terminated, Places
<1> QED BY <1>2, <1>6, <1>8, <1>14, <1>21, <1>22 DEF IndInv

LEMMA Inductive == Spec => []IndInv
<1>1. IndInv /\ [Next]_vars => IndInv'
  <2> SUFFICES ASSUME IndInv, [Next]_vars PROVE IndInv'
    OBVIOUS
  <2>1. ASSUME NEW u \in Urls, Refuse(u) PROVE IndInv'
    BY <2>1 DEF Refuse, IndInv, Terminated, RequestedOpened, Clean, Places
  <2>2. ASSUME NEW u \in Urls, OpenInput(u) PROVE IndInv'
    BY <2>2, OpenInputStep
  <2>3. CASE UNCHANGED vars
    BY <2>3 DEF vars, IndInv, Terminated, RequestedOpened, Clean, Places
  <2> QED BY <2>1, <2>2, <2>3 DEF Next
<1> QED BY InitIndInv, <1>1, PTL DEF Spec

\* Whatever the size of the buffer and the URLs so far, a terminator is in it.
\* (player.c:102, 473-492; player.h:53, 228)
THEOREM AlwaysTerminated == Spec => []Terminated
<1>1. IndInv => Terminated
  BY DEF IndInv
<1> QED BY Inductive, <1>1, PTL

\* What is opened starts with the URL asked for, and is no longer than it
\* unless an earlier URL was longer and nothing cuts off what it left.
\* (player.c:473-492)
THEOREM OpensRequested == Spec => []RequestedOpened
<1>1. IndInv => RequestedOpened
  BY DEF IndInv
<1> QED BY Inductive, <1>1, PTL
=============================================================================
